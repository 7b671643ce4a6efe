-------------------------- MODULE BrokerConnection --------------------------
(***************************************************************************)
(* The broker connection of one process: RabbitMQService.onModuleInit,     *)
(* waitForConnection and attemptConnection, the consumers that start       *)
(* themselves with it, the publishers that wait for it, and the ack and    *)
(* nack of the consume callbacks.                                          *)
(*                                                                         *)
(* The service keeps its connection and its channel in two fields that are *)
(* never cleared.  Callers that find no connection each open one, and the  *)
(* last of them is left in the fields; ack and nack go to the channel in   *)
(* the field, whichever channel delivered the message.                     *)
(*                                                                         *)
(* amqplib and the broker are external.  The service listens to no 'error' *)
(* event, so a connection that breaks, or a channel the broker closes for  *)
(* an unknown delivery tag, ends the process, and PM2 starts it again.  A  *)
(* broker that is shut down closes its connections without that event: the *)
(* process stays, with closed objects in its fields.                       *)
(***************************************************************************)
EXTENDS Naturals, Sequences, Functions

CONSTANTS Consumers,    \* the consumers of the consumer process
          Publishers,   \* the requests of the API that publish
          Boot,         \* RabbitMQService.onModuleInit
          Messages,     \* messages, in the queues at the start
          QueueOf,      \* the consumer of the queue a message is in
          MaxRetries,   \* maxRetries of waitForConnection
          MaxFaults,
          Null

ASSUME ActorAssumption ==
    /\ Consumers \cap Publishers = {}
    /\ Boot \notin Consumers \cup Publishers
    /\ QueueOf \in [Messages -> Consumers]
    /\ Null \notin Messages

ASSUME RetryAssumption == MaxRetries \in Nat \ {0} /\ MaxFaults \in Nat

VARIABLES role,        \* the process: the API publishes, the consumer consumes
          up,          \* the broker accepts connections
          links,       \* the connections this process has opened, each with its channel
          connection,  \* this.connection: a position in links, 0 when unset
          channel,     \* this.channel: likewise
          actors,      \* where onModuleInit and the callers are
          running,     \* the deliveries whose callback is running
          handled,     \* messages whose callback has completed
          acked,       \* messages the broker has forgotten
          faults       \* failures so far

fields == <<connection, channel>>
messages == <<running, handled, acked>>
vars == <<role, up, links, fields, actors, messages, faults>>

-----------------------------------------------------------------------------
Callers == IF role = "api" THEN Publishers ELSE Consumers

Actors == Consumers \cup Publishers \cup {Boot}

\* tags[t] is the message delivered with tag t that is not yet acknowledged.
Link ==
    [opener : Actors, connection : {"open", "closed"},
     channel : {"none", "open", "closed"}, tags : Seq(Messages \cup {Null})]

\* at is the connection an actor is opening or the channel a consumer is on.
Actor ==
    [step : {"idle", "wait", "connect", "channel", "ready", "consuming",
             "done", "failed"},
     tries : 0 .. MaxRetries, at : Nat]

Delivery == [tag : Nat \ {0}, message : Messages]

TypeOK ==
    /\ role \in {"api", "consumer"}
    /\ up \in BOOLEAN
    /\ links \in Seq(Link)
    /\ connection \in 0 .. Len(links)
    /\ channel \in 0 .. Len(links)
    /\ actors \in [Actors -> Actor]
    /\ running \subseteq Delivery
    /\ handled \subseteq Messages
    /\ acked \subseteq Messages
    /\ faults \in 0 .. MaxFaults

AtRest(step) == [step |-> step, tries |-> 0, at |-> 0]

Started == [a \in Actors |-> AtRest(IF a = Boot THEN "connect" ELSE "idle")]

Init ==
    /\ role \in {"api", "consumer"}
    /\ up \in BOOLEAN
    /\ links = <<>>
    /\ connection = 0
    /\ channel = 0
    /\ actors = Started
    /\ running = {}
    /\ handled = {}
    /\ acked = {}
    /\ faults = 0

Fault == faults < MaxFaults /\ faults' = faults + 1

\* The process ends and PM2 starts it again.  With its connections gone the
\* broker puts back what was not acknowledged.
Restart ==
    /\ links' = <<>>
    /\ connection' = 0
    /\ channel' = 0
    /\ actors' = Started
    /\ running' = {}

-----------------------------------------------------------------------------
(* attemptConnection, and onModuleInit, which does the same once.           *)

\* Success and failure of an attempt lead to the same place: the next turn of
\* the loop, or the end of onModuleInit.
AfterAttempt(a) ==
    actors' = [actors EXCEPT ![a] =
        IF a = Boot THEN [@ EXCEPT !.step = "done"]
        ELSE [@ EXCEPT !.step = "wait", !.tries = actors[a].tries + 1]]

Connect(a) ==
    /\ actors[a].step = "connect"
    /\ up
    /\ links' = Append(links, [opener |-> a, connection |-> "open",
                               channel |-> "none", tags |-> <<>>])
    /\ connection' = Len(links) + 1
    /\ actors' = [actors EXCEPT ![a] = [@ EXCEPT !.step = "channel",
                                                 !.at = Len(links) + 1]]
    /\ UNCHANGED <<role, up, channel, messages, faults>>

ConnectFails(a) ==
    /\ actors[a].step = "connect"
    /\ ~up
    /\ AfterAttempt(a)
    /\ UNCHANGED <<role, up, links, fields, messages, faults>>

CreateChannel(a) ==
    /\ actors[a].step = "channel"
    /\ links[actors[a].at].connection = "open"
    /\ links' = [links EXCEPT ![actors[a].at].channel = "open"]
    /\ channel' = actors[a].at
    /\ AfterAttempt(a)
    /\ UNCHANGED <<role, up, connection, messages, faults>>

CreateChannelFails(a) ==
    /\ actors[a].step = "channel"
    /\ links[actors[a].at].connection = "closed"
    /\ AfterAttempt(a)
    /\ UNCHANGED <<role, up, links, fields, messages, faults>>

-----------------------------------------------------------------------------
(* waitForConnection.  Callers exist once the modules are initialised.      *)

\* Mutant: a consumer that could not start is not started again.
StartOnce(a) ==
    /\ a \in Callers
    /\ actors[Boot].step = "done"
    /\ actors[a].step \in IF a \in Consumers THEN {"idle"} ELSE {"idle", "done", "failed"}
    /\ actors' = [actors EXCEPT ![a] = AtRest("wait")]
    /\ UNCHANGED <<role, up, links, fields, messages, faults>>

\* A request publishes, or the timer of a consumer's onModuleInit fires, the
\* first time or after a failure.
Start(a) ==
    /\ a \in Callers
    /\ actors[Boot].step = "done"
    /\ actors[a].step \in
          IF a \in Consumers THEN {"idle", "failed"} ELSE {"idle", "done", "failed"}
    /\ actors' = [actors EXCEPT ![a] = AtRest("wait")]
    /\ UNCHANGED <<role, up, links, fields, messages, faults>>

\* Mutant: a caller reconnects as long as there is no channel.
TurnWithoutConnectionTest(a) ==
    LET c == actors[a] IN
    /\ c.step = "wait"
    /\ actors' = [actors EXCEPT ![a] =
          IF c.tries = MaxRetries THEN [c EXCEPT !.step = "failed"]
          ELSE IF channel # 0 THEN [c EXCEPT !.step = "ready"]
          ELSE [c EXCEPT !.step = "connect"]]
    /\ UNCHANGED <<role, up, links, fields, messages, faults>>

\* Mutant: the loop makes one turn too many.
TurnOnceMore(a) ==
    LET c == actors[a] IN
    /\ c.step = "wait"
    /\ actors' = [actors EXCEPT ![a] =
          IF c.tries > MaxRetries THEN [c EXCEPT !.step = "failed"]
          ELSE IF channel # 0 THEN [c EXCEPT !.step = "ready"]
          ELSE IF connection = 0 THEN [c EXCEPT !.step = "connect"]
          ELSE [c EXCEPT !.tries = c.tries + 1]]
    /\ UNCHANGED <<role, up, links, fields, messages, faults>>

\* Mutant: the loop is left only by way of a channel.
TurnForEver(a) ==
    LET c == actors[a] IN
    /\ c.step = "wait"
    /\ actors' = [actors EXCEPT ![a] =
          IF channel # 0 THEN [c EXCEPT !.step = "ready"]
          ELSE IF connection = 0 THEN [c EXCEPT !.step = "connect", !.tries = 0]
          ELSE [c EXCEPT !.tries = 0]]
    /\ UNCHANGED <<role, up, links, fields, messages, faults>>

\* One turn of the loop.  The channel is looked at before an attempt only, so
\* one that the last attempt has opened does not save the call.
Turn(a) ==
    LET c == actors[a] IN
    /\ c.step = "wait"
    /\ actors' = [actors EXCEPT ![a] =
          IF c.tries = MaxRetries THEN [c EXCEPT !.step = "failed"]
          ELSE IF channel # 0 THEN [c EXCEPT !.step = "ready"]
          ELSE IF connection = 0 THEN [c EXCEPT !.step = "connect"]
          ELSE [c EXCEPT !.tries = c.tries + 1]]
    /\ UNCHANGED <<role, up, links, fields, messages, faults>>

Usable == links[channel].channel = "open"

\* channel.consume, or sendToQueue: a closed channel throws.
UseChannel(a) ==
    /\ actors[a].step = "ready"
    /\ actors' = [actors EXCEPT ![a] =
          [@ EXCEPT !.step = IF ~Usable THEN "failed"
                             ELSE IF a \in Consumers THEN "consuming" ELSE "done",
                    !.at = channel]]
    /\ UNCHANGED <<role, up, links, fields, messages, faults>>

-----------------------------------------------------------------------------
(* The consume callbacks.                                                   *)

Queued(m) == m \notin acked /\ \A i \in DOMAIN links : m \notin Range(links[i].tags)

Listening(c) ==
    actors[c].step = "consuming" /\ links[actors[c].at].channel = "open"

Deliver(m) ==
    LET i == actors[QueueOf[m]].at IN
    /\ Queued(m)
    /\ Listening(QueueOf[m])
    /\ links' = [links EXCEPT ![i].tags = Append(@, m)]
    /\ running' = running \cup {[tag |-> Len(links[i].tags) + 1, message |-> m]}
    /\ UNCHANGED <<role, up, fields, actors, handled, acked, faults>>

\* The tag is one the channel in the field has given out and not yet settled.
Known(tag) ==
    /\ Usable
    /\ tag \in DOMAIN links[channel].tags
    /\ links[channel].tags[tag] # Null

Settle(d) ==
    /\ links' = [links EXCEPT ![channel].tags[d.tag] = Null]
    /\ running' = running \ {d}
    /\ UNCHANGED <<fields, actors>>

\* Mutant: the callback is not awaited, and the message acknowledged meanwhile.
CompleteUnawaited(d) ==
    /\ d \in running
    /\ handled' = handled
    /\ IF Known(d.tag)
       THEN Settle(d) /\ acked' = acked \cup {links[channel].tags[d.tag]}
       ELSE Restart /\ UNCHANGED acked
    /\ UNCHANGED <<role, up, faults>>

\* The callback completes and this.channel.ack(msg) is called.  A closed channel
\* throws, and so does the nack in the catch clause; an unknown tag makes the
\* broker close the channel.  Both end the process.
Complete(d) ==
    /\ d \in running
    /\ handled' = handled \cup {d.message}
    /\ IF Known(d.tag)
       THEN Settle(d) /\ acked' = acked \cup {links[channel].tags[d.tag]}
       ELSE Restart /\ UNCHANGED acked
    /\ UNCHANGED <<role, up, faults>>

\* The callback throws: this.channel.nack(msg, false, true).
Reject(d) ==
    /\ d \in running
    /\ IF Known(d.tag) THEN Settle(d) ELSE Restart
    /\ Fault
    /\ UNCHANGED <<role, up, handled, acked>>

-----------------------------------------------------------------------------
(* Failures.                                                                *)

\* The process dies, or onModuleDestroy closes the connection at a SIGINT.
Stop ==
    /\ Restart
    /\ Fault
    /\ UNCHANGED <<role, up, handled, acked>>

\* The broker, or the way to it, fails: an open connection emits 'error'.
Break ==
    /\ up
    /\ up' = FALSE
    /\ Fault
    /\ IF \E i \in DOMAIN links : links[i].connection = "open"
       THEN Restart
       ELSE UNCHANGED <<links, fields, actors, running>>
    /\ UNCHANGED <<role, handled, acked>>

\* The broker is shut down: connections and channels close, callbacks run on.
ShutDown ==
    /\ up
    /\ up' = FALSE
    /\ Fault
    /\ links' = [i \in DOMAIN links |-> [links[i] EXCEPT
          !.connection = "closed",
          !.channel = IF links[i].channel = "none" THEN "none" ELSE "closed",
          !.tags = <<>>]]
    /\ UNCHANGED <<role, fields, actors, messages>>

BrokerStarts ==
    /\ ~up
    /\ up' = TRUE
    /\ UNCHANGED <<role, links, fields, actors, messages, faults>>

-----------------------------------------------------------------------------
Continues(a) ==
    \/ Connect(a) \/ ConnectFails(a) \/ CreateChannel(a) \/ CreateChannelFails(a)
    \/ Turn(a) \/ UseChannel(a)

Next ==
    \/ \E a \in Actors : Continues(a) \/ Start(a)
    \/ \E m \in Messages : Deliver(m)
    \/ \E d \in running : Complete(d) \/ Reject(d)
    \/ Stop \/ Break \/ ShutDown \/ BrokerStarts

Spec == Init /\ [][Next]_vars

\* Calls in progress are answered, consumers' timers fire, the broker delivers
\* what it can, callbacks end, and a broker that is away comes back.
FairSpec ==
    /\ Spec
    /\ \A a \in Actors : WF_vars(Continues(a))
    /\ \A c \in Consumers : WF_vars(Start(c))
    /\ \A m \in Messages :
          /\ WF_vars(Deliver(m))
          /\ WF_vars(\E d \in running : d.message = m /\ Complete(d))
    /\ WF_vars(BrokerStarts)

-----------------------------------------------------------------------------
(* What holds.                                                              *)

BootConnected == links # <<>> /\ links[1].opener = Boot

\* However many callers wait at once, each of them opens at most one connection
\* in the life of the process, and none does when onModuleInit has opened one:
\* the connections that are overwritten in the field and never closed are
\* bounded by the callers that were waiting for the first.
OneConnectionEach ==
    /\ IsInjective([i \in DOMAIN links |-> links[i].opener])
    /\ BootConnected => Len(links) = 1

\* A message leaves its queue only when its callback has completed, as long as
\* onModuleInit opened the connection.  Otherwise the channel may be replaced
\* while callbacks run, and an ack may hit the message of another delivery.
AckedWasHandled ==
    [][\A m \in acked' \ acked : BootConnected => m \in handled']_vars

\* A shutdown of the broker has closed the channel consumer c is on, or every
\* object the fields can hold, and nothing makes the process replace them.
Stranded(c) ==
    \/ actors[c].step = "consuming" /\ links[actors[c].at].channel = "closed"
    \/ connection # 0 /\ \A i \in DOMAIN links : links[i].connection = "closed"

\* In the consumer process every message is acknowledged in the end, whatever
\* broke on the way and although the broker may come up long after the process,
\* unless a shutdown of the broker strands the consumer of its queue for good.
MessagesSettle ==
    role = "consumer" =>
        \A m \in Messages : <>(m \in acked) \/ <>[]Stranded(QueueOf[m])

\* A publish that waits for a connection ends after its ten turns, with or
\* without the broker and also when a connection never got its channel.
PublishesSettle ==
    \A p \in Publishers :
        (actors[p].step = "wait") ~> (actors[p].step \in {"idle", "done", "failed"})

=============================================================================
