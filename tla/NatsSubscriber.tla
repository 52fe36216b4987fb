--------------------------- MODULE NatsSubscriber ---------------------------
(***************************************************************************)
(* The subscriber the end-to-end suite reads events with, e2e/natswire.go: *)
(* the handshake of SubscribeNATS, the goroutine that runs readLoop, the   *)
(* buffered channel between it and Next, and Close, against a broker that  *)
(* publishes, pings and may drop the connection.  The connection is two    *)
(* queues.  A message is its number in the order of publication.           *)
(***************************************************************************)
EXTENDS Naturals, Sequences

CONSTANTS
  Capacity,       \* of the channel: 64 in the code
  MaxMessages,    \* bound: messages published
  MaxPings        \* bound: pings of the broker

ASSUME WireAssumption ==
  /\ Capacity \in Nat \ {0}
  /\ MaxMessages \in Nat /\ MaxPings \in Nat

VARIABLES
  published,      \* how many messages were published
  pings,          \* how many pings the broker sent
  subscribed,     \* the broker has the subscription
  toBroker,       \* the commands on their way to the broker
  toClient,       \* the lines on their way to the client
  link,           \* the connection
  client,         \* where the scenario is, in SubscribeNATS and after it
  readyAt,        \* how many were published when SubscribeNATS returned
  received,       \* what Next has returned
  reader,         \* where readLoop is
  buffer,         \* the channel
  dropped         \* what readLoop dropped because the channel was full

source == <<published, pings>>
wire == <<toBroker, toClient, link>>
scenario == <<client, readyAt, received>>
loop == <<reader, buffer, dropped>>
vars == <<published, pings, subscribed, toBroker, toClient, link, client,
          readyAt, received, reader, buffer, dropped>>

Messages == 1 .. MaxMessages
Lines == [kind : {"MSG", "PING", "PONG", "ERR"}, id : {0} \cup Messages]
Commands == {"SUB", "PING", "PONG"}

TypeOK ==
  /\ published \in 0 .. MaxMessages
  /\ pings \in 0 .. MaxPings
  /\ subscribed \in BOOLEAN
  /\ toBroker \in Seq(Commands)
  /\ toClient \in Seq(Lines)
  /\ link \in {"none", "up", "cut", "closed"}
  /\ client \in {"new", "sub", "ping", "await", "ready", "failed", "told", "left"}
  /\ readyAt \in 0 .. MaxMessages
  /\ received \in Seq(Messages)
  /\ reader \in {"none", "reading", "gone"}
  /\ buffer \in Seq(Messages) /\ Len(buffer) <= Capacity
  /\ dropped \subseteq Messages

Init ==
  /\ published = 0 /\ pings = 0 /\ subscribed = FALSE
  /\ toBroker = <<>> /\ toClient = <<>> /\ link = "none"
  /\ client = "new" /\ readyAt = 0 /\ received = <<>>
  /\ reader = "none" /\ buffer = <<>> /\ dropped = {}
-----------------------------------------------------------------------------
(* The broker *)

Tell(kind, id) == toClient' = Append(toClient, [kind |-> kind, id |-> id])

\* Commands are handled in the order they were sent; a subscription may be
\* refused.
Handle ==
  /\ link = "up" /\ toBroker # <<>>
  /\ toBroker' = Tail(toBroker)
  /\ \/ Head(toBroker) = "SUB" /\ subscribed' = TRUE /\ UNCHANGED toClient
     \/ Head(toBroker) = "SUB" /\ Tell("ERR", 0) /\ UNCHANGED subscribed
     \/ Head(toBroker) = "PING" /\ Tell("PONG", 0) /\ UNCHANGED subscribed
     \/ Head(toBroker) = "PONG" /\ UNCHANGED <<toClient, subscribed>>
  /\ UNCHANGED <<source, link, scenario, loop>>

Publish ==
  /\ published < MaxMessages
  /\ published' = published + 1
  /\ IF subscribed /\ link = "up" THEN Tell("MSG", published + 1) ELSE UNCHANGED toClient
  /\ UNCHANGED <<pings, subscribed, toBroker, link, scenario, loop>>

Ping ==
  /\ link = "up" /\ pings < MaxPings
  /\ pings' = pings + 1
  /\ Tell("PING", 0)
  /\ UNCHANGED <<published, subscribed, toBroker, link, scenario, loop>>

\* The connection is lost.  What was on its way may still be read.
Cut ==
  /\ link = "up"
  /\ link' = "cut"
  /\ UNCHANGED <<source, subscribed, toBroker, toClient, scenario, loop>>
-----------------------------------------------------------------------------
(* SubscribeNATS *)

\* Any step of the handshake may fail or meet its deadline; the connection is
\* closed and the caller gets the error.
Abandon ==
  /\ client \in {"new", "sub", "ping", "await"}
  /\ client' = "failed"
  /\ link' = IF link = "none" THEN "none" ELSE "closed"
  /\ UNCHANGED <<source, subscribed, toBroker, toClient, readyAt, received, loop>>

\* Dial, and read the broker's greeting.
Dial ==
  /\ client = "new"
  /\ client' = "sub"
  /\ link' = "up"
  /\ UNCHANGED <<source, subscribed, toBroker, toClient, readyAt, received, loop>>

Send(command) ==
  /\ link \in {"up", "cut"}
  /\ toBroker' = Append(toBroker, command)

\* CONNECT and SUB.
SendSub ==
  /\ client = "sub"
  /\ Send("SUB")
  /\ client' = "ping"
  /\ UNCHANGED <<source, subscribed, toClient, link, readyAt, received, loop>>

SendPing ==
  /\ client = "ping"
  /\ Send("PING")
  /\ client' = "await"
  /\ UNCHANGED <<source, subscribed, toClient, link, readyAt, received, loop>>

\* Mistake: the subscription is taken for registered once it is sent.
AwaitNothing ==
  /\ client = "await"
  /\ client' = "ready" /\ readyAt' = published /\ reader' = "reading"
  /\ UNCHANGED <<source, subscribed, toBroker, toClient, link, received, buffer, dropped>>

\* The loop of the handshake reads up to the PONG, and past all else but a
\* rejection: a PING there is not answered, a message is lost.
Await ==
  /\ client = "await" /\ toClient # <<>>
  /\ toClient' = Tail(toClient)
  /\ \/ /\ Head(toClient).kind = "PONG"
        /\ client' = "ready" /\ readyAt' = published /\ reader' = "reading"
        /\ UNCHANGED link
     \/ /\ Head(toClient).kind = "ERR"
        /\ client' = "failed" /\ link' = "closed" /\ UNCHANGED <<readyAt, reader>>
     \/ /\ Head(toClient).kind \notin {"PONG", "ERR"}
        /\ UNCHANGED <<client, link, readyAt, reader>>
  /\ UNCHANGED <<source, subscribed, toBroker, received, buffer, dropped>>
-----------------------------------------------------------------------------
(* readLoop *)

\* Mistake: the reader waits for room in the channel.
ReadMessageBlocking ==
  /\ reader = "reading" /\ toClient # <<>> /\ Head(toClient).kind = "MSG"
  /\ Len(buffer) < Capacity
  /\ buffer' = Append(buffer, Head(toClient).id)
  /\ toClient' = Tail(toClient)
  /\ UNCHANGED <<source, subscribed, toBroker, link, scenario, reader, dropped>>

\* Mistake: the channel grows without a limit.
ReadMessageUnbounded ==
  /\ reader = "reading" /\ toClient # <<>> /\ Head(toClient).kind = "MSG"
  /\ buffer' = Append(buffer, Head(toClient).id)
  /\ toClient' = Tail(toClient)
  /\ UNCHANGED <<source, subscribed, toBroker, link, scenario, reader, dropped>>

\* Mistake: the reader gives up one place before the channel is full.
ReadMessageEarly ==
  /\ reader = "reading" /\ toClient # <<>> /\ Head(toClient).kind = "MSG"
  /\ \/ /\ Len(buffer) + 1 < Capacity
        /\ buffer' = Append(buffer, Head(toClient).id) /\ UNCHANGED dropped
     \/ /\ Len(buffer) + 1 >= Capacity
        /\ dropped' = dropped \cup {Head(toClient).id} /\ UNCHANGED buffer
  /\ toClient' = Tail(toClient)
  /\ UNCHANGED <<source, subscribed, toBroker, link, scenario, reader>>

\* A message goes to the channel, or nowhere when it is full.
ReadMessage ==
  /\ reader = "reading" /\ toClient # <<>> /\ Head(toClient).kind = "MSG"
  /\ \/ /\ Len(buffer) < Capacity
        /\ buffer' = Append(buffer, Head(toClient).id) /\ UNCHANGED dropped
     \/ /\ Len(buffer) = Capacity
        /\ dropped' = dropped \cup {Head(toClient).id} /\ UNCHANGED buffer
  /\ toClient' = Tail(toClient)
  /\ UNCHANGED <<source, subscribed, toBroker, link, scenario, reader>>

\* A PING is answered, unless the connection is gone; all else is passed over.
ReadControl ==
  /\ reader = "reading" /\ toClient # <<>> /\ Head(toClient).kind # "MSG"
  /\ toClient' = Tail(toClient)
  /\ \/ /\ Head(toClient).kind = "PING"
        /\ \/ Send("PONG") /\ UNCHANGED reader
           \/ link # "up" /\ reader' = "gone" /\ UNCHANGED toBroker
     \/ Head(toClient).kind # "PING" /\ UNCHANGED <<toBroker, reader>>
  /\ UNCHANGED <<source, subscribed, link, scenario, buffer, dropped>>

\* The connection is closed at either end: the loop ends and closes the channel.
ReadError ==
  /\ reader = "reading" /\ link \in {"cut", "closed"}
  /\ reader' = "gone"
  /\ UNCHANGED <<source, subscribed, wire, scenario, buffer, dropped>>
-----------------------------------------------------------------------------
(* The scenario, with a subscriber in hand *)

\* Next returns what is in the channel, in order.
Take ==
  /\ client = "ready" /\ buffer # <<>>
  /\ received' = Append(received, Head(buffer))
  /\ buffer' = Tail(buffer)
  /\ UNCHANGED <<source, subscribed, wire, client, readyAt, reader, dropped>>

\* Next reports that the channel is closed, once it is empty.
TellClosed ==
  /\ client = "ready" /\ buffer = <<>> /\ reader = "gone"
  /\ client' = "told"
  /\ UNCHANGED <<source, subscribed, wire, readyAt, received, loop>>

\* Next's timeout fires; with a message there too, select picks either.
TellTimeout ==
  /\ client = "ready"
  /\ client' = "told"
  /\ UNCHANGED <<source, subscribed, wire, readyAt, received, loop>>

Close ==
  /\ client \in {"ready", "told"}
  /\ client' = "left"
  /\ link' = "closed"
  /\ UNCHANGED <<source, subscribed, toBroker, toClient, readyAt, received, loop>>
-----------------------------------------------------------------------------
Broker == Handle \/ Publish \/ Ping \/ Cut

Handshake == Abandon \/ Dial \/ SendSub \/ SendPing \/ Await

ReadLoop == ReadMessage \/ ReadControl \/ ReadError

Scenario == Take \/ TellClosed \/ TellTimeout \/ Close

Next == Broker \/ Handshake \/ ReadLoop \/ Scenario

\* The goroutine of readLoop keeps running.  Nothing is assumed of the broker,
\* nor of the scenario: it may never call Next.
Spec == Init /\ [][Next]_vars /\ WF_vars(ReadLoop)
-----------------------------------------------------------------------------
\* The messages the loop has passed on, and those on their way to it.
Passed == received \o buffer
InFlight == {i \in DOMAIN toClient : toClient[i].kind = "MSG"}

Streamed ==
  {Passed[i] : i \in DOMAIN Passed} \cup {toClient[i].id : i \in InFlight}

\* Nothing comes twice, nor before what was published before it.
InOrder ==
  /\ \A i, j \in DOMAIN Passed : i < j => Passed[i] < Passed[j]
  /\ \A i, j \in InFlight : i < j => toClient[i].id < toClient[j].id
  /\ \A i \in DOMAIN Passed, j \in InFlight : Passed[i] < toClient[j].id

\* While the connection lasts, every message published after SubscribeNATS
\* returned is on its way, waits in the channel, was returned by Next, or was
\* dropped, one of these alone, and in the order of publication.  This is what
\* the PING of the handshake is for.
Delivery ==
  /\ InOrder
  /\ dropped \cap Streamed = {}
  /\ client = "ready" /\ link = "up" =>
       readyAt + 1 .. published \subseteq Streamed \cup dropped

\* A message is dropped only in a step that finds the channel full, and the
\* channel is left as it is; and from the moment the loop runs, nothing else
\* makes a message disappear, whatever becomes of the scenario and of the
\* connection.
DropsOnlyWhenFull ==
  [][/\ dropped' # dropped => Len(buffer) = Capacity /\ buffer' = buffer
     /\ reader # "none" => Streamed \ Streamed' = dropped' \ dropped]_vars

\* A scenario that does not read never stops the reader, which must go on to
\* answer the broker's pings: it always gets to the end of what was sent.
NeverBlocks ==
  reader = "reading" /\ toClient # <<>> ~> toClient = <<>> \/ reader = "gone"
=============================================================================
