----------------------- MODULE BrokerConnectionProofs -----------------------
(***************************************************************************)
(* Theorems about BrokerConnection, for any consumers, publishers and      *)
(* messages and any number of retries and failures.                        *)
(***************************************************************************)
EXTENDS BrokerConnection, SequenceTheorems, TLAPS

-----------------------------------------------------------------------------
(* The inductive invariant.                                                 *)

\* The connection is in its field as soon as there is one.
FieldsSet ==
    /\ (connection = 0) <=> (links = <<>>)
    /\ running # {} => channel # 0

\* An actor opens a connection only as long as it has opened none; once it has
\* one, it is opening the channel of that one.
Opening(a) ==
    /\ actors[a].step = "connect" => \A i \in DOMAIN links : links[i].opener # a
    /\ actors[a].step = "channel" =>
          actors[a].at \in DOMAIN links /\ links[actors[a].at].opener = a
    /\ actors[a].step \in {"connect", "channel"} =>
          a = Boot \/ actors[a].tries < MaxRetries
    /\ actors[a].step = "ready" => channel # 0
    /\ actors[a].step = "consuming" => channel # 0 /\ actors[a].at \in DOMAIN links

\* Nobody calls before onModuleInit has made its attempt.
BootFirst ==
    /\ actors[Boot].step \in {"connect", "channel", "done"}
    /\ actors[Boot].step # "done" =>
          running = {} /\ \A a \in Actors \ {Boot} : actors[a].step = "idle"
    /\ actors[Boot].step = "connect" => links = <<>>

\* When that attempt succeeded there is one connection and no other attempt.
BootOnly ==
    BootConnected => Len(links) = 1 /\ \A a \in Actors : actors[a].step # "connect"

\* On that connection a callback's tag is the tag of its own message.
TagsMatch ==
    (BootConnected /\ links[1].channel = "open") =>
        \A d \in running :
            d.tag \in DOMAIN links[1].tags /\ links[1].tags[d.tag] = d.message

BrokerInv ==
    /\ TypeOK
    /\ FieldsSet
    /\ \A a \in Actors : Opening(a)
    /\ BootFirst
    /\ BootOnly
    /\ TagsMatch
    /\ OneConnectionEach

-----------------------------------------------------------------------------
(* Connections.                                                             *)

\* The connections of the process by their positions.
LEMMA LinkFacts ==
    ASSUME links \in Seq(Link)
    PROVE  /\ Len(links) \in Nat
           /\ DOMAIN links = 1 .. Len(links)
           /\ \A i \in 1 .. Len(links) :
                 /\ links[i] \in Link
                 /\ links[i].opener \in Actors
                 /\ links[i].tags \in Seq(Messages \cup {Null})
           /\ (links = <<>>) <=> (Len(links) = 0)
<1>1. Len(links) \in Nat /\ DOMAIN links = 1 .. Len(links)
  BY LenProperties
<1>2. \A i \in 1 .. Len(links) : links[i] \in Link
  BY ElementOfSeq
<1>3. (links = <<>>) <=> (Len(links) = 0)
  BY <1>1, EmptySeq
<1> QED
  BY <1>1, <1>2, <1>3 DEF Link

\* That every connection has an opener of its own, without the auxiliary function.
LEMMA OpenersDiffer ==
    ASSUME links \in Seq(Link)
    PROVE  IsInjective([i \in DOMAIN links |-> links[i].opener]) <=>
               \A i, j \in 1 .. Len(links) : links[i].opener = links[j].opener => i = j
  BY LinkFacts DEF IsInjective

\* A change of one connection that keeps its opener.
LEMMA LinkUpdate ==
    ASSUME links \in Seq(Link), NEW i \in 1 .. Len(links), NEW l \in Link,
           l.opener = links[i].opener, links' = [links EXCEPT ![i] = l]
    PROVE  /\ links' \in Seq(Link)
           /\ Len(links') = Len(links)
           /\ links'[i] = l
           /\ \A j \in 1 .. Len(links) : j # i => links'[j] = links[j]
           /\ \A j \in 1 .. Len(links) : links'[j].opener = links[j].opener
           /\ (links' = <<>>) <=> (links = <<>>)
           /\ BootConnected' <=> BootConnected
<1>1. /\ links' \in Seq(Link)
      /\ Len(links') = Len(links)
      /\ \A j \in 1 .. Len(links) : links'[j] = IF j = i THEN l ELSE links[j]
  BY ExceptSeq
<1>2. \A j \in 1 .. Len(links) : links'[j].opener = links[j].opener
  BY <1>1
<1>3. Len(links) \in Nat /\ ((links' = <<>>) <=> (links = <<>>))
  BY <1>1, LinkFacts, EmptySeq
<1>4. BootConnected' <=> BootConnected
  <2>1. links # <<>> => 1 \in 1 .. Len(links)
    BY LinkFacts
  <2> QED
    BY <1>2, <1>3, <2>1 DEF BootConnected
<1> QED
  BY <1>1, <1>2, <1>3, <1>4

-----------------------------------------------------------------------------
(* Steps.                                                                   *)

\* A restart of the process begins anew.
LEMMA RestartStep ==
    ASSUME BrokerInv, Restart, UNCHANGED role, up' \in BOOLEAN,
           handled' \subseteq Messages, acked' \subseteq Messages, faults' \in 0 .. MaxFaults
    PROVE  BrokerInv'
<1>1. /\ links' = <<>> /\ connection' = 0 /\ channel' = 0 /\ running' = {}
      /\ actors' = Started
  BY DEF Restart
<1>2. /\ links' \in Seq(Link) /\ Len(links') = 0
  BY <1>1
<1>3. /\ Started \in [Actors -> Actor]
      /\ Started[Boot].step = "connect"
      /\ \A a \in Actors \ {Boot} : Started[a].step = "idle"
  BY RetryAssumption DEF Started, AtRest, Actor, Actors
<1>4. TypeOK'
  BY <1>1, <1>2, <1>3 DEF BrokerInv, TypeOK, Actors
<1>5. FieldsSet' /\ BootFirst' /\ BootOnly' /\ TagsMatch'
  BY <1>1, <1>3 DEF FieldsSet, BootFirst, BootOnly, TagsMatch, BootConnected, Actors
<1>6. \A a \in Actors : Opening(a)'
  BY <1>1, <1>3 DEF Opening
<1>7. OneConnectionEach'
  BY <1>1 DEF OneConnectionEach, IsInjective, BootConnected
<1> QED
  BY <1>4, <1>5, <1>6, <1>7 DEF BrokerInv, Actors

\* A process that is about to make its first attempt satisfies the invariant.
LEMMA InitInv == Init => BrokerInv
<1> SUFFICES ASSUME Init PROVE BrokerInv
  OBVIOUS
<1>1. /\ links = <<>> /\ connection = 0 /\ channel = 0 /\ running = {}
      /\ actors = Started
  BY DEF Init
<1>2. /\ links \in Seq(Link) /\ Len(links) = 0
  BY <1>1
<1>3. /\ Started \in [Actors -> Actor]
      /\ Started[Boot].step = "connect"
      /\ \A a \in Actors \ {Boot} : Started[a].step = "idle"
  BY RetryAssumption DEF Started, AtRest, Actor, Actors
<1>4. TypeOK
  BY <1>1, <1>2, <1>3, RetryAssumption DEF Init, TypeOK
<1>5. FieldsSet /\ BootFirst /\ BootOnly /\ TagsMatch
  BY <1>1, <1>3 DEF FieldsSet, BootFirst, BootOnly, TagsMatch, BootConnected
<1>6. \A a \in Actors : Opening(a)
  BY <1>1, <1>3 DEF Opening
<1>7. OneConnectionEach
  BY <1>1 DEF OneConnectionEach, IsInjective, BootConnected
<1> QED
  BY <1>4, <1>5, <1>6, <1>7 DEF BrokerInv

\* One actor moves, and neither the connections nor the fields nor a delivery change.
\* It goes on to connect only when there is no connection.
LEMMA ActorStep ==
    ASSUME BrokerInv, NEW a \in Actors, NEW next \in Actor,
           actors' = [actors EXCEPT ![a] = next],
           UNCHANGED <<role, up, links, fields, messages, faults>>,
           a = Boot => next.step = "done",
           a # Boot => actors[Boot].step = "done",
           next.step = "connect" => links = <<>> /\ next.tries < MaxRetries,
           next.step # "channel",
           next.step = "ready" => channel # 0,
           next.step = "consuming" => channel # 0 /\ next.at \in DOMAIN links
    PROVE  BrokerInv'
<1>1. /\ UNCHANGED <<links, connection, channel, running, handled, acked>>
      /\ actors \in [Actors -> Actor]
      /\ Boot \in Actors
  BY DEF fields, messages, BrokerInv, TypeOK, Actors
<1>2. /\ actors' \in [Actors -> Actor]
      /\ actors'[a] = next
      /\ \A b \in Actors \ {a} : actors'[b] = actors[b]
  BY <1>1
<1>3. TypeOK'
  BY <1>1, <1>2 DEF BrokerInv, TypeOK, Actors
<1>4. FieldsSet' /\ TagsMatch' /\ OneConnectionEach'
  BY <1>1 DEF BrokerInv, FieldsSet, TagsMatch, OneConnectionEach, BootConnected
<1>5. ASSUME NEW b \in Actors PROVE Opening(b)'
  <2>1. CASE b = a
    BY <1>1, <1>2, <2>1 DEF Opening
  <2>2. CASE b # a
    BY <1>1, <1>2, <2>2 DEF BrokerInv, Opening
  <2> QED
    BY <2>1, <2>2
<1>6. BootFirst'
  <2>1. CASE a = Boot
    BY <1>1, <1>2, <2>1 DEF BootFirst
  <2>2. CASE a # Boot
    BY <1>1, <1>2, <2>2 DEF BootFirst
  <2> QED
    BY <2>1, <2>2
<1>7. BootOnly'
  BY <1>1, <1>2 DEF BrokerInv, BootOnly, BootConnected
<1> QED
  BY <1>3, <1>4, <1>5, <1>6, <1>7 DEF BrokerInv, Actors

\* After an attempt the actor is where its next turn, or the end of onModuleInit, is.
LEMMA AttemptEnds ==
    ASSUME BrokerInv, NEW a \in Actors, actors[a].step \in {"connect", "channel"},
           AfterAttempt(a)
    PROVE  \E next \in Actor :
               /\ actors' = [actors EXCEPT ![a] = next]
               /\ next.step = IF a = Boot THEN "done" ELSE "wait"
<1>1. actors[a] \in Actor
  BY DEF BrokerInv, TypeOK
<1>2. CASE a = Boot
  <2> DEFINE next == [actors[a] EXCEPT !.step = "done"]
  <2>1. actors' = [actors EXCEPT ![a] = next]
    BY <1>2 DEF AfterAttempt
  <2>2. next \in Actor /\ next.step = "done"
    BY <1>1 DEF Actor
  <2> QED
    BY <1>2, <2>1, <2>2
<1>3. CASE a # Boot
  <2> DEFINE next == [actors[a] EXCEPT !.step = "wait", !.tries = actors[a].tries + 1]
  <2>1. actors' = [actors EXCEPT ![a] = next]
    BY <1>3 DEF AfterAttempt
  <2>2. actors[a].tries \in 0 .. MaxRetries /\ actors[a].tries < MaxRetries
    BY <1>1, <1>3 DEF BrokerInv, Opening, Actor
  <2>3. actors[a].tries + 1 \in 0 .. MaxRetries
    BY <2>2, RetryAssumption
  <2>4. next \in Actor /\ next.step = "wait"
    BY <1>1, <2>3 DEF Actor
  <2> QED
    BY <1>3, <2>1, <2>4
<1> QED
  BY <1>2, <1>3

\* Nobody but onModuleInit is at work before it is done.
LEMMA OthersAfterBoot ==
    ASSUME BrokerInv, NEW a \in Actors, actors[a].step # "idle"
    PROVE  a # Boot => actors[Boot].step = "done"
  BY DEF BrokerInv, BootFirst

\* Attempts that fail, turns of the loop and calls on the channel.
LEMMA WaitingStep ==
    ASSUME BrokerInv, NEW a \in Actors,
           ConnectFails(a) \/ CreateChannelFails(a) \/ Start(a) \/ Turn(a) \/ UseChannel(a)
    PROVE  BrokerInv'
<1>1. /\ actors \in [Actors -> Actor] /\ actors[a] \in Actor
      /\ links \in Seq(Link) /\ DOMAIN links = 1 .. Len(links)
      /\ channel \in 0 .. Len(links)
      /\ actors[a].step # "idle" => (a # Boot => actors[Boot].step = "done")
      /\ actors[Boot].step \in {"connect", "channel", "done"}
      /\ Opening(a)
  BY OthersAfterBoot, LinkFacts DEF BrokerInv, TypeOK, BootFirst
<1>2. CASE ConnectFails(a) \/ CreateChannelFails(a)
  <2>1. /\ AfterAttempt(a)
        /\ actors[a].step \in {"connect", "channel"}
        /\ UNCHANGED <<role, up, links, fields, messages, faults>>
    BY <1>2 DEF ConnectFails, CreateChannelFails
  <2>2. PICK next \in Actor :
            /\ actors' = [actors EXCEPT ![a] = next]
            /\ next.step = IF a = Boot THEN "done" ELSE "wait"
    BY <2>1, AttemptEnds
  <2> QED
    BY <1>1, <2>1, <2>2, ActorStep
<1>3. CASE Start(a)
  <2>1. /\ a # Boot
        /\ actors[Boot].step = "done"
        /\ actors' = [actors EXCEPT ![a] = AtRest("wait")]
        /\ UNCHANGED <<role, up, links, fields, messages, faults>>
    BY <1>3, ActorAssumption DEF Start, Callers
  <2>2. AtRest("wait") \in Actor /\ AtRest("wait").step = "wait"
    BY RetryAssumption DEF AtRest, Actor
  <2> QED
    BY <2>1, <2>2, ActorStep
<1>4. CASE Turn(a)
  <2> DEFINE c == actors[a]
             next == IF c.tries = MaxRetries THEN [c EXCEPT !.step = "failed"]
                     ELSE IF channel # 0 THEN [c EXCEPT !.step = "ready"]
                     ELSE IF connection = 0 THEN [c EXCEPT !.step = "connect"]
                     ELSE [c EXCEPT !.tries = c.tries + 1]
  <2>1. /\ c.step = "wait" /\ a # Boot
        /\ actors' = [actors EXCEPT ![a] = next]
        /\ UNCHANGED <<role, up, links, fields, messages, faults>>
    BY <1>1, <1>4 DEF Turn
  <2>2. c.tries \in 0 .. MaxRetries /\ (c.tries # MaxRetries => c.tries + 1 \in 0 .. MaxRetries)
    BY <1>1, RetryAssumption DEF Actor
  <2>3. /\ [c EXCEPT !.step = "failed"] \in Actor
        /\ [c EXCEPT !.step = "ready"] \in Actor
        /\ [c EXCEPT !.step = "connect"] \in Actor
        /\ c.tries # MaxRetries => [c EXCEPT !.tries = c.tries + 1] \in Actor
    BY <1>1, <2>2 DEF Actor
  <2>4. next \in Actor
    BY <2>3
  <2>5. /\ next.step = "connect" => connection = 0 /\ next.tries < MaxRetries
        /\ next.step \in {"failed", "ready", "connect", "wait"}
        /\ next.step = "ready" => channel # 0
    BY <1>1, <2>1, <2>2, RetryAssumption DEF Actor
  <2> HIDE DEF next
  <2>6. connection = 0 => links = <<>>
    BY DEF BrokerInv, FieldsSet
  <2> QED
    BY <1>1, <2>1, <2>4, <2>5, <2>6, ActorStep
<1>5. CASE UseChannel(a)
  <2> DEFINE step == IF ~Usable THEN "failed"
                     ELSE IF a \in Consumers THEN "consuming" ELSE "done"
             next == [actors[a] EXCEPT !.step = step, !.at = channel]
  <2>1. /\ actors[a].step = "ready" /\ a # Boot
        /\ actors' = [actors EXCEPT ![a] = next]
        /\ UNCHANGED <<role, up, links, fields, messages, faults>>
    BY <1>1, <1>5 DEF UseChannel
  <2>2. step \in {"failed", "consuming", "done"}
    OBVIOUS
  <2>3. channel \in Nat /\ channel \in DOMAIN links
    BY <1>1, <2>1, LinkFacts DEF Opening
  <2> HIDE DEF step
  <2>4. next \in Actor /\ next.step = step /\ next.at = channel
    BY <1>1, <2>2, <2>3 DEF Actor
  <2> HIDE DEF next
  <2>5. channel # 0
    BY <1>1, <2>1 DEF Opening
  <2> QED
    BY <1>1, <2>1, <2>2, <2>3, <2>4, <2>5, ActorStep
<1> QED
  BY <1>2, <1>3, <1>4, <1>5

\* A connection is opened: by onModuleInit first, or by callers that found none.
LEMMA ConnectStep ==
    ASSUME BrokerInv, NEW a \in Actors, Connect(a)
    PROVE  BrokerInv'
<1> DEFINE l == [opener |-> a, connection |-> "open", channel |-> "none", tags |-> <<>>]
           n == Len(links)
           next == [actors[a] EXCEPT !.step = "channel", !.at = n + 1]
<1>1. /\ actors[a].step = "connect"
      /\ links' = Append(links, l)
      /\ connection' = n + 1
      /\ actors' = [actors EXCEPT ![a] = next]
      /\ UNCHANGED <<role, up, channel, running, handled, acked, faults>>
  BY DEF Connect, messages
<1>2. /\ actors \in [Actors -> Actor] /\ actors[a] \in Actor /\ Boot \in Actors
      /\ links \in Seq(Link) /\ n \in Nat /\ channel \in 0 .. n
      /\ Opening(a)
      /\ \A b \in Actors : Opening(b)
  BY LinkFacts DEF BrokerInv, TypeOK, Actors
<1>3. /\ next \in Actor /\ next.step = "channel" /\ next.at = n + 1
      /\ next.tries = actors[a].tries
  <2>1. actors[a] \in Actor /\ n + 1 \in Nat
    BY <1>2
  <2> HIDE DEF n
  <2> QED
    BY <2>1 DEF Actor
<1>4. l \in Link /\ l.opener = a
  BY DEF Link
<1> HIDE DEF l, next
<1>5. /\ links' \in Seq(Link) /\ Len(links') = n + 1
      /\ \A i \in 1 .. n : links'[i] = links[i]
      /\ links'[n + 1] = l
      /\ links' # <<>>
      /\ DOMAIN links' = 1 .. n + 1 /\ DOMAIN links = 1 .. n
  BY <1>1, <1>2, <1>4
<1>6. /\ actors' \in [Actors -> Actor]
      /\ actors'[a] = next
      /\ \A b \in Actors \ {a} : actors'[b] = actors[b]
  BY <1>1, <1>2, <1>3
<1>7. TypeOK'
  BY <1>1, <1>2, <1>5, <1>6 DEF BrokerInv, TypeOK, Actors
<1>8. FieldsSet'
  BY <1>1, <1>2, <1>5 DEF BrokerInv, FieldsSet
<1>9. ASSUME NEW b \in Actors PROVE Opening(b)'
  <2>1. CASE b = a
    BY <1>1, <1>2, <1>3, <1>4, <1>5, <1>6, <2>1 DEF Opening
  <2>2. CASE b # a
    <3>1. actors'[b] = actors[b]
      BY <1>6, <2>2
    <3>2. actors[b].step = "connect" => \A i \in 1 .. n + 1 : links'[i].opener # b
      BY <1>2, <1>4, <1>5, <2>2 DEF Opening
    <3>3. actors[b].step = "channel" =>
              actors[b].at \in 1 .. n + 1 /\ links'[actors[b].at].opener = b
      BY <1>2, <1>5 DEF Opening
    <3>4. actors[b].step = "consuming" => actors[b].at \in 1 .. n + 1
      BY <1>2, <1>5 DEF Opening
    <3> QED
      BY <1>1, <1>2, <1>5, <3>1, <3>2, <3>3, <3>4 DEF Opening
  <2> QED
    BY <2>1, <2>2
<1>10. BootFirst'
  <2>1. CASE a = Boot
    BY <1>1, <1>3, <1>6, <2>1 DEF BrokerInv, BootFirst
  <2>2. CASE a # Boot
    <3>1. actors[Boot].step = "done"
      BY <1>1, <2>2, OthersAfterBoot
    <3> QED
      BY <1>2, <1>6, <2>2, <3>1 DEF BootFirst
  <2> QED
    BY <2>1, <2>2
<1>11. BootConnected' => a = Boot /\ n = 0
  <2> SUFFICES ASSUME BootConnected' PROVE a = Boot /\ n = 0
    OBVIOUS
  <2>1. CASE n = 0
    BY <1>4, <1>5, <2>1 DEF BootConnected
  <2>2. CASE n # 0
    <3>1. BootConnected
      BY <1>2, <1>5, <2>2, LinkFacts DEF BootConnected
    <3> QED
      BY <1>1, <3>1 DEF BrokerInv, BootOnly
  <2> QED
    BY <2>1, <2>2
<1>12. BootConnected' => running = {} /\ \A b \in Actors : actors'[b].step # "connect"
  BY <1>1, <1>3, <1>6, <1>11 DEF BrokerInv, BootFirst
<1>13. BootOnly' /\ TagsMatch'
  BY <1>1, <1>5, <1>11, <1>12 DEF BootOnly, TagsMatch
<1>14. OneConnectionEach'
  <2>1. \A i, j \in 1 .. n : links[i].opener = links[j].opener => i = j
    BY <1>2, OpenersDiffer DEF BrokerInv, OneConnectionEach
  <2>2. \A i \in 1 .. n : links[i].opener # a
    BY <1>1, <1>2, <1>5 DEF Opening
  <2>3. \A i, j \in 1 .. n + 1 : links'[i].opener = links'[j].opener => i = j
    BY <1>2, <1>4, <1>5, <2>1, <2>2
  <2>4. IsInjective([i \in DOMAIN links' |-> links'[i].opener])
    BY <1>5, <2>3 DEF IsInjective
  <2> QED
    BY <1>5, <1>11, <2>4 DEF OneConnectionEach
<1> QED
  BY <1>7, <1>8, <1>9, <1>10, <1>13, <1>14 DEF BrokerInv, Actors

\* One connection changes, its opener apart, and at most an actor ends its attempt.
LEMMA LinkStep ==
    ASSUME BrokerInv, NEW i \in 1 .. Len(links), NEW l \in Link,
           l.opener = links[i].opener, links' = [links EXCEPT ![i] = l],
           UNCHANGED <<role, up, connection>>,
           channel' \in 0 .. Len(links), channel # 0 => channel' # 0,
           actors' \in [Actors -> Actor],
           \A b \in Actors : actors'[b] = actors[b] \/
               /\ actors[b].step = "channel"
               /\ actors'[b].step = IF b = Boot THEN "done" ELSE "wait",
           running' \subseteq Delivery,
           running' # {} => channel' # 0 /\ actors[Boot].step = "done",
           handled' \subseteq Messages, acked' \subseteq Messages, faults' \in 0 .. MaxFaults,
           TagsMatch'
    PROVE  BrokerInv'
<1>1. /\ links \in Seq(Link)
      /\ Boot \in Actors
      /\ \A b \in Actors : Opening(b)
  BY DEF BrokerInv, TypeOK, Actors
<1>2. /\ links' \in Seq(Link)
      /\ Len(links') = Len(links)
      /\ \A j \in 1 .. Len(links) : links'[j].opener = links[j].opener
      /\ (links' = <<>>) <=> (links = <<>>)
      /\ BootConnected' <=> BootConnected
  BY <1>1, LinkUpdate
<1>3. DOMAIN links = 1 .. Len(links) /\ DOMAIN links' = 1 .. Len(links)
  BY <1>1, <1>2, LenProperties
<1>4. TypeOK'
  BY <1>2 DEF BrokerInv, TypeOK, Actors
<1>5. FieldsSet'
  BY <1>2 DEF BrokerInv, FieldsSet
<1>6. ASSUME NEW b \in Actors PROVE Opening(b)'
  <2>1. CASE actors'[b] = actors[b]
    BY <1>1, <1>2, <1>3, <2>1 DEF Opening
  <2>2. CASE actors'[b].step \in {"done", "wait"}
    BY <2>2 DEF Opening
  <2> QED
    BY <2>1, <2>2
<1>7. BootFirst'
  <2>1. actors[Boot].step = "done" => actors'[Boot].step = "done"
    BY <1>1
  <2>2. CASE actors[Boot].step = "done"
    BY <2>1, <2>2 DEF BootFirst
  <2>3. CASE actors[Boot].step # "done"
    BY <1>1, <1>2, <2>3 DEF BrokerInv, BootFirst
  <2> QED
    BY <2>2, <2>3
<1>8. BootOnly'
  BY <1>2 DEF BrokerInv, BootOnly
<1>9. OneConnectionEach'
  <2>1. \A j, k \in 1 .. Len(links) : links'[j].opener = links'[k].opener => j = k
    BY <1>1, <1>2, OpenersDiffer DEF BrokerInv, OneConnectionEach
  <2>2. IsInjective([j \in DOMAIN links' |-> links'[j].opener])
    BY <1>3, <2>1 DEF IsInjective
  <2> QED
    BY <1>2, <2>2 DEF BrokerInv, OneConnectionEach
<1> QED
  BY <1>4, <1>5, <1>6, <1>7, <1>8, <1>9 DEF BrokerInv, Actors

\* A channel is created: on the connection of onModuleInit before any delivery.
LEMMA CreateChannelStep ==
    ASSUME BrokerInv, NEW a \in Actors, CreateChannel(a)
    PROVE  BrokerInv'
<1> DEFINE i == actors[a].at
           l == [links[i] EXCEPT !.channel = "open"]
<1>1. /\ actors[a].step = "channel"
      /\ links' = [links EXCEPT ![i] = l]
      /\ channel' = i
      /\ AfterAttempt(a)
      /\ UNCHANGED <<role, up, connection, running, handled, acked, faults>>
  BY DEF CreateChannel, messages
<1>2. /\ links \in Seq(Link)
      /\ actors \in [Actors -> Actor]
      /\ i \in 1 .. Len(links) /\ links[i].opener = a
  BY <1>1, LinkFacts DEF BrokerInv, TypeOK, Opening
<1>3. l \in Link /\ l.opener = links[i].opener
  <2>1. links[i] \in Link
    BY <1>2, LinkFacts
  <2> QED
    BY <2>1 DEF Link
<1>4. PICK next \in Actor :
          /\ actors' = [actors EXCEPT ![a] = next]
          /\ next.step = IF a = Boot THEN "done" ELSE "wait"
  BY <1>1, AttemptEnds
<1>5. /\ actors' \in [Actors -> Actor]
      /\ actors'[a].step = IF a = Boot THEN "done" ELSE "wait"
      /\ \A b \in Actors \ {a} : actors'[b] = actors[b]
  BY <1>2, <1>4
<1> HIDE DEF l
<1>6. /\ links'[i] = l /\ Len(links') = Len(links)
      /\ \A j \in 1 .. Len(links) : j # i => links'[j] = links[j]
      /\ BootConnected' <=> BootConnected
  BY <1>1, <1>2, <1>3, LinkUpdate
<1>7. BootConnected => running = {}
  <2> SUFFICES ASSUME BootConnected PROVE running = {}
    OBVIOUS
  <2>1. Len(links) = 1 /\ links[1].opener = Boot
    BY DEF BrokerInv, BootOnly, BootConnected
  <2>2. a = Boot
    BY <1>2, <2>1
  <2> QED
    BY <1>1, <2>2 DEF BrokerInv, BootFirst
<1>8. TagsMatch'
  BY <1>1, <1>6, <1>7 DEF TagsMatch
<1>9. running # {} => actors[Boot].step = "done"
  BY DEF BrokerInv, BootFirst
<1>10. i # 0 /\ i \in 0 .. Len(links)
  BY <1>2, LinkFacts
<1> HIDE DEF i
<1> QED
  BY <1>1, <1>2, <1>3, <1>5, <1>8, <1>9, <1>10, LinkStep DEF BrokerInv, TypeOK

\* What appending the next message does to the tags of a channel.
LEMMA AppendTag ==
    ASSUME NEW tags \in Seq(Messages \cup {Null}), NEW m \in Messages
    PROVE  /\ Len(tags) \in Nat
           /\ Append(tags, m) \in Seq(Messages \cup {Null})
           /\ DOMAIN Append(tags, m) = 1 .. Len(tags) + 1
           /\ DOMAIN tags = 1 .. Len(tags)
           /\ Append(tags, m)[Len(tags) + 1] = m
           /\ \A t \in 1 .. Len(tags) : Append(tags, m)[t] = tags[t]
<1> DEFINE S == Messages \cup {Null}
<1>1. tags \in Seq(S) /\ m \in S
  OBVIOUS
<1> HIDE DEF S
<1>2. Len(tags) \in Nat /\ DOMAIN tags = 1 .. Len(tags)
  BY <1>1, LenProperties
<1>3. /\ Append(tags, m) \in Seq(S) /\ Len(Append(tags, m)) = Len(tags) + 1
      /\ \A t \in 1 .. Len(tags) : Append(tags, m)[t] = tags[t]
      /\ Append(tags, m)[Len(tags) + 1] = m
  BY <1>1, AppendProperties
<1>4. DOMAIN Append(tags, m) = 1 .. Len(tags) + 1
  BY <1>3, LenProperties
<1> USE DEF S
<1> QED
  BY <1>2, <1>3, <1>4

\* A message is delivered on the channel its consumer is on.
LEMMA DeliverStep ==
    ASSUME BrokerInv, NEW m \in Messages, Deliver(m)
    PROVE  BrokerInv'
<1> DEFINE c == QueueOf[m]
           i == actors[c].at
           n == Len(links[i].tags)
           l == [links[i] EXCEPT !.tags = Append(links[i].tags, m)]
           d == [tag |-> n + 1, message |-> m]
<1>1. /\ c \in Actors /\ c # Boot
      /\ actors[c].step = "consuming"
      /\ links[i].channel = "open"
      /\ links' = [links EXCEPT ![i] = l]
      /\ running' = running \cup {d}
      /\ UNCHANGED <<role, up, connection, channel, actors, handled, acked, faults>>
  BY ActorAssumption DEF Deliver, Listening, fields, Actors
<1>2. /\ links \in Seq(Link)
      /\ i \in 1 .. Len(links) /\ channel # 0
      /\ links[i] \in Link /\ links[i].tags \in Seq(Messages \cup {Null})
      /\ actors[Boot].step = "done"
  BY <1>1, LinkFacts, OthersAfterBoot DEF BrokerInv, TypeOK, Opening
<1>3. /\ n \in Nat
      /\ Append(links[i].tags, m) \in Seq(Messages \cup {Null})
      /\ DOMAIN Append(links[i].tags, m) = 1 .. n + 1
      /\ DOMAIN links[i].tags = 1 .. n
      /\ Append(links[i].tags, m)[n + 1] = m
      /\ \A t \in 1 .. n : Append(links[i].tags, m)[t] = links[i].tags[t]
  BY <1>2, AppendTag
<1>4. /\ l \in Link /\ l.opener = links[i].opener
      /\ l.tags = Append(links[i].tags, m) /\ l.channel = links[i].channel
  BY <1>2, <1>3 DEF Link
<1>5. d \in Delivery /\ d.tag = n + 1 /\ d.message = m
  <2>1. n \in Nat
    BY <1>3
  <2> HIDE DEF n
  <2>2. n + 1 \in Nat \ {0}
    BY <2>1
  <2> QED
    BY <2>2 DEF Delivery
<1> HIDE DEF l, d
<1>6. /\ links'[i] = l /\ Len(links') = Len(links)
      /\ BootConnected' <=> BootConnected
  BY <1>1, <1>2, <1>4, LinkUpdate
<1>7. TagsMatch'
  <2> SUFFICES ASSUME BootConnected, links'[1].channel = "open", NEW e \in running'
               PROVE  e.tag \in DOMAIN links'[1].tags /\ links'[1].tags[e.tag] = e.message
    BY <1>6 DEF TagsMatch
  <2>1. i = 1
    <3>1. Len(links) = 1
      BY DEF BrokerInv, BootOnly
    <3> QED
      BY <1>2, <3>1
  <2>2. links'[1].tags = Append(links[1].tags, m)
    BY <1>4, <1>6, <2>1
  <2>3. CASE e = d
    BY <1>3, <1>5, <2>1, <2>2, <2>3
  <2>4. CASE e \in running
    <3>1. e.tag \in DOMAIN links[1].tags /\ links[1].tags[e.tag] = e.message
      BY <1>1, <2>1, <2>4 DEF BrokerInv, TagsMatch
    <3> QED
      BY <1>3, <2>1, <2>2, <3>1
  <2> QED
    BY <1>1, <2>3, <2>4
<1>8. running' \subseteq Delivery
  BY <1>1, <1>5 DEF BrokerInv, TypeOK
<1> HIDE DEF i
<1> QED
  BY <1>1, <1>2, <1>4, <1>7, <1>8, LinkStep DEF BrokerInv, TypeOK

\* An ack or nack that the channel in the field knows: when onModuleInit opened the
\* connection, the message it settles is the one the callback was called with.
LEMMA KnownTag ==
    ASSUME BrokerInv, NEW d \in running, Known(d.tag)
    PROVE  /\ channel \in 1 .. Len(links)
           /\ links[channel] \in Link
           /\ d.tag \in DOMAIN links[channel].tags
           /\ links[channel].tags[d.tag] \in Messages
           /\ BootConnected =>
                 channel = 1 /\ links[channel].tags[d.tag] = d.message
<1>1. channel # 0 /\ channel \in 0 .. Len(links) /\ links \in Seq(Link)
  BY DEF BrokerInv, FieldsSet, TypeOK
<1>2. channel \in 1 .. Len(links) /\ links[channel] \in Link
  BY <1>1, LinkFacts
<1>3. d.tag \in DOMAIN links[channel].tags /\ links[channel].tags[d.tag] # Null
  BY DEF Known
<1>4. links[channel].tags[d.tag] \in Messages
  <2>1. links[channel].tags \in Seq(Messages \cup {Null})
    BY <1>2 DEF Link
  <2>2. links[channel].tags[d.tag] \in Messages \cup {Null}
    BY <1>3, <2>1, ElementOfSeq, LenProperties
  <2> QED
    BY <1>3, <2>2
<1>5. ASSUME BootConnected PROVE channel = 1 /\ links[channel].tags[d.tag] = d.message
  <2>1. Len(links) = 1
    BY <1>5 DEF BrokerInv, BootOnly
  <2>2. channel = 1
    BY <1>2, <2>1
  <2>3. links[1].channel = "open"
    BY <2>2 DEF Known, Usable
  <2> QED
    BY <1>5, <2>2, <2>3 DEF BrokerInv, TagsMatch
<1> QED
  BY <1>2, <1>3, <1>4, <1>5

\* An acknowledgement or rejection with a tag the channel knows takes its callback away.
LEMMA SettleStep ==
    ASSUME BrokerInv, NEW d \in running, Known(d.tag), Settle(d), UNCHANGED <<role, up>>,
           handled' \subseteq Messages, acked' \subseteq Messages, faults' \in 0 .. MaxFaults
    PROVE  BrokerInv'
<1> DEFINE tags == [links[channel].tags EXCEPT ![d.tag] = Null]
           l == [links[channel] EXCEPT !.tags = tags]
<1>1. /\ links \in Seq(Link)
      /\ channel \in 1 .. Len(links)
      /\ links[channel] \in Link
      /\ d.tag \in DOMAIN links[channel].tags
      /\ BootConnected => channel = 1 /\ links[channel].tags[d.tag] = d.message
      /\ links[channel].channel = "open"
  BY KnownTag DEF BrokerInv, TypeOK, Known, Usable
<1>2. /\ links' = [links EXCEPT ![channel] = l]
      /\ running' = running \ {d}
      /\ UNCHANGED <<connection, channel, actors>>
  BY DEF Settle, fields
<1>3. /\ links[channel].tags \in Seq(Messages \cup {Null})
      /\ DOMAIN links[channel].tags = 1 .. Len(links[channel].tags)
  BY <1>1, LenProperties DEF Link
<1>4. /\ tags \in Seq(Messages \cup {Null})
      /\ DOMAIN tags = DOMAIN links[channel].tags
      /\ \A t \in DOMAIN tags : t # d.tag => tags[t] = links[channel].tags[t]
  BY <1>1, <1>3, ExceptSeq
<1> HIDE DEF tags
<1>5. /\ l \in Link /\ l.opener = links[channel].opener /\ l.tags = tags
      /\ l.channel = links[channel].channel
  BY <1>1, <1>4 DEF Link
<1> HIDE DEF l
<1>6. /\ links'[channel] = l
      /\ BootConnected' <=> BootConnected
  BY <1>1, <1>2, <1>5, LinkUpdate
<1>7. TagsMatch'
  <2> SUFFICES ASSUME BootConnected, NEW e \in running \ {d}
               PROVE  e.tag \in DOMAIN links'[1].tags /\ links'[1].tags[e.tag] = e.message
    BY <1>2, <1>6 DEF TagsMatch
  <2>1. channel = 1 /\ links[1].tags[d.tag] = d.message
    BY <1>1
  <2>2. e.tag \in DOMAIN links[1].tags /\ links[1].tags[e.tag] = e.message
    BY <1>1, <2>1 DEF BrokerInv, TagsMatch
  <2>3. e.tag # d.tag
    <3>1. e \in Delivery /\ d \in Delivery
      BY DEF BrokerInv, TypeOK
    <3> QED
      BY <2>1, <2>2, <3>1 DEF Delivery
  <2> QED
    BY <1>4, <1>5, <1>6, <2>1, <2>2, <2>3
<1>8. /\ actors[Boot].step = "done"
      /\ running' \subseteq Delivery
      /\ channel # 0 /\ channel \in 0 .. Len(links)
  BY <1>1, <1>2 DEF BrokerInv, BootFirst, TypeOK
<1> QED
  BY <1>1, <1>2, <1>5, <1>7, <1>8, LinkStep DEF BrokerInv, TypeOK

\* A shutdown of the broker closes every connection and channel.
LEMMA ShutDownStep ==
    ASSUME BrokerInv, ShutDown
    PROVE  BrokerInv'
<1> DEFINE Closed(l) == [l EXCEPT !.connection = "closed",
                                  !.channel = IF l.channel = "none" THEN "none" ELSE "closed",
                                  !.tags = <<>>]
           n == Len(links)
<1>1. /\ links \in Seq(Link) /\ n \in Nat /\ DOMAIN links = 1 .. n
      /\ \A i \in 1 .. n : links[i] \in Link
      /\ \A a \in Actors : Opening(a)
  BY LinkFacts DEF BrokerInv, TypeOK
<1>2. /\ links' = [i \in 1 .. n |-> Closed(links[i])]
      /\ UNCHANGED <<role, connection, channel, actors, running, handled, acked>>
      /\ up' = FALSE
      /\ faults' \in 0 .. MaxFaults
  <2>1. faults' \in 0 .. MaxFaults
    <3>1. Fault
      BY DEF ShutDown
    <3>2. faults \in 0 .. MaxFaults
      BY DEF BrokerInv, TypeOK
    <3> QED
      BY <3>1, <3>2, RetryAssumption DEF Fault
  <2>2. links' = [i \in 1 .. n |-> Closed(links[i])]
    BY <1>1 DEF ShutDown
  <2>3. UNCHANGED <<role, connection, channel, actors, running, handled, acked>> /\ up' = FALSE
    BY DEF ShutDown, fields, messages
  <2> QED
    BY <2>1, <2>2, <2>3
<1>3. \A l \in Link : Closed(l) \in Link /\ Closed(l).opener = l.opener /\ Closed(l).channel # "open"
  <2>1. <<>> \in Seq(Messages \cup {Null})
    BY EmptySeq
  <2> QED
    BY <2>1 DEF Link
<1> HIDE DEF Closed
<1>4. /\ links' \in Seq(Link) /\ Len(links') = n /\ DOMAIN links' = 1 .. n
      /\ \A i \in 1 .. n : links'[i].opener = links[i].opener /\ links'[i].channel # "open"
  BY <1>1, <1>2, <1>3
<1>5. /\ (links' = <<>>) <=> (links = <<>>)
      /\ BootConnected' <=> BootConnected
  <2>1. (links' = <<>>) <=> (links = <<>>)
    BY <1>1, <1>4, EmptySeq
  <2>2. links # <<>> => 1 \in 1 .. n
    BY <1>1, LinkFacts
  <2> QED
    BY <1>4, <2>1, <2>2 DEF BootConnected
<1>6. TypeOK'
  BY <1>2, <1>4 DEF BrokerInv, TypeOK, Actors
<1>7. FieldsSet' /\ BootFirst' /\ BootOnly'
  BY <1>2, <1>4, <1>5 DEF BrokerInv, FieldsSet, BootFirst, BootOnly
<1>8. \A a \in Actors : Opening(a)'
  BY <1>1, <1>2, <1>4 DEF Opening
<1>9. TagsMatch'
  <2>1. BootConnected => 1 \in 1 .. n
    BY <1>1, LinkFacts DEF BootConnected
  <2> QED
    BY <1>4, <1>5, <2>1 DEF TagsMatch
<1>10. OneConnectionEach'
  <2>1. \A j, k \in 1 .. n : links'[j].opener = links'[k].opener => j = k
    BY <1>1, <1>4, OpenersDiffer DEF BrokerInv, OneConnectionEach
  <2>2. IsInjective([j \in DOMAIN links' |-> links'[j].opener])
    BY <1>4, <2>1 DEF IsInjective
  <2> QED
    BY <1>4, <1>5, <2>2 DEF BrokerInv, OneConnectionEach
<1> QED
  BY <1>6, <1>7, <1>8, <1>9, <1>10 DEF BrokerInv, Actors

\* Every step preserves the invariant.
LEMMA StepInv == BrokerInv /\ [Next]_vars => BrokerInv'
<1> SUFFICES ASSUME BrokerInv, [Next]_vars PROVE BrokerInv'
  OBVIOUS
<1>1. /\ handled \subseteq Messages /\ acked \subseteq Messages
      /\ faults \in 0 .. MaxFaults /\ up \in BOOLEAN
      /\ \A d \in running : d.message \in Messages
  BY DEF BrokerInv, TypeOK, Delivery
<1>2. Fault => faults' \in 0 .. MaxFaults
  BY <1>1, RetryAssumption DEF Fault
<1>3. ASSUME NEW a \in Actors, Continues(a) \/ Start(a) PROVE BrokerInv'
  BY <1>3, ConnectStep, CreateChannelStep, WaitingStep DEF Continues
<1>4. ASSUME NEW m \in Messages, Deliver(m) PROVE BrokerInv'
  BY <1>4, DeliverStep
<1>5. ASSUME NEW d \in running, Complete(d) PROVE BrokerInv'
  <2>1. handled' \subseteq Messages /\ UNCHANGED <<role, up, faults>>
    BY <1>1, <1>5 DEF Complete
  <2>2. CASE Known(d.tag)
    <3>1. Settle(d) /\ acked' = acked \cup {links[channel].tags[d.tag]}
      BY <1>5, <2>2 DEF Complete
    <3>2. acked' \subseteq Messages
      BY <1>1, <2>2, <3>1, KnownTag
    <3> QED
      BY <1>1, <2>1, <2>2, <3>1, <3>2, SettleStep
  <2>3. CASE ~Known(d.tag)
    BY <1>1, <1>5, <2>1, <2>3, RestartStep DEF Complete
  <2> QED
    BY <2>2, <2>3
<1>6. ASSUME NEW d \in running, Reject(d) PROVE BrokerInv'
  <2>1. CASE Known(d.tag)
    BY <1>1, <1>2, <1>6, <2>1, SettleStep DEF Reject
  <2>2. CASE ~Known(d.tag)
    BY <1>1, <1>2, <1>6, <2>2, RestartStep DEF Reject
  <2> QED
    BY <2>1, <2>2
<1>7. ASSUME Stop PROVE BrokerInv'
  BY <1>1, <1>2, <1>7, RestartStep DEF Stop
<1>8. ASSUME UNCHANGED <<role, links, fields, actors, running, handled, acked>>,
             up' \in BOOLEAN, faults' \in 0 .. MaxFaults
      PROVE  BrokerInv'
  BY <1>8 DEF fields, BrokerInv, TypeOK, FieldsSet, Opening, BootFirst, BootOnly, BootConnected,
     TagsMatch, OneConnectionEach, Actors
<1>9. ASSUME Break PROVE BrokerInv'
  <2>1. up' \in BOOLEAN /\ faults' \in 0 .. MaxFaults /\ UNCHANGED <<role, handled, acked>>
    BY <1>2, <1>9 DEF Break
  <2>2. CASE Restart
    BY <1>1, <2>1, <2>2, RestartStep
  <2>3. CASE UNCHANGED <<links, fields, actors, running>>
    BY <1>8, <2>1, <2>3
  <2> QED
    BY <1>9, <2>2, <2>3 DEF Break
<1>10. ASSUME ShutDown PROVE BrokerInv'
  BY <1>10, ShutDownStep
<1>11. ASSUME BrokerStarts PROVE BrokerInv'
  BY <1>1, <1>8, <1>11 DEF BrokerStarts, messages
<1>12. ASSUME UNCHANGED vars PROVE BrokerInv'
  BY <1>1, <1>8, <1>12 DEF vars, messages
<1> QED
  BY <1>3, <1>4, <1>5, <1>6, <1>7, <1>9, <1>10, <1>11, <1>12 DEF Next

-----------------------------------------------------------------------------
(* The theorems.                                                            *)

\* BrokerInv holds throughout.
THEOREM BrokerInvariant == Spec => []BrokerInv
<1>1. Init => BrokerInv
  BY InitInv
<1>2. BrokerInv /\ [Next]_vars => BrokerInv'
  BY StepInv
<1> QED
  BY <1>1, <1>2, PTL DEF Spec

\* The variables keep their types: no loop of waitForConnection goes past maxRetries,
\* and the fields hold objects this process has opened (TypeOK).
THEOREM BrokerTyped == Spec => []TypeOK
<1>1. BrokerInv => TypeOK
  BY DEF BrokerInv
<1> QED
  BY <1>1, BrokerInvariant, PTL

\* Each caller of waitForConnection opens at most one connection in the life of the
\* process, and none when onModuleInit opened one (OneConnectionEach).
THEOREM BrokerOneConnectionEach == Spec => []OneConnectionEach
<1>1. BrokerInv => OneConnectionEach
  BY DEF BrokerInv
<1> QED
  BY <1>1, BrokerInvariant, PTL

\* When onModuleInit opened the connection, a message leaves its queue only after
\* its own callback has completed (AckedWasHandled).
THEOREM BrokerAckedWasHandled == Spec => AckedWasHandled
<1>1. BrokerInv /\ [Next]_vars =>
        [\A m \in acked' \ acked : BootConnected => m \in handled']_vars
  <2> SUFFICES ASSUME BrokerInv, Next, NEW m \in acked' \ acked, BootConnected
               PROVE  m \in handled'
    OBVIOUS
  <2>1. PICK d \in running : Complete(d)
    BY DEF Next, Continues, Connect, ConnectFails, CreateChannel, CreateChannelFails, Turn,
       UseChannel, Start, Deliver, Reject, Stop, Break, ShutDown, BrokerStarts, messages
  <2>2. Known(d.tag) /\ m = links[channel].tags[d.tag]
    BY <2>1 DEF Complete
  <2>3. m = d.message
    BY <2>2, KnownTag
  <2> QED
    BY <2>1, <2>3 DEF Complete
<1> QED
  BY <1>1, BrokerInvariant, PTL DEF Spec, AckedWasHandled

=============================================================================
