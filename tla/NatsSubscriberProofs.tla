------------------------ MODULE NatsSubscriberProofs ------------------------
(* For any capacity of the channel and any number of messages and pings, the
   types of the subscriber, what a scenario may rely on (Delivery), and when
   the loop may drop a message (DropsOnlyWhenFull).  The
   handshake matters once, for Registration: commands are handled in order, so
   a PONG says that the subscription is there, or comes behind a rejection. *)
EXTENDS NatsSubscriber, SequenceTheorems, TLAPS

Asking == {"new", "sub", "ping", "await"}
Rejects(i) == toClient[i].kind = "ERR"
Answers(i) == toClient[i].kind = "PONG"

\* Where the two commands of the handshake are, and what their answers mean.
Registration ==
  /\ client \in Asking => reader = "none"
  /\ client \in {"new", "sub"} => toBroker = <<>>
  /\ client = "ping" => toBroker \in {<<"SUB">>, <<>>}
  /\ client = "await" => toBroker \in {<<"SUB", "PING">>, <<"PING">>, <<>>}
  /\ client \in Asking /\ toBroker # <<>> => \A i \in DOMAIN toClient : ~Answers(i)
  /\ client \in {"new", "sub", "ping"} => \A i \in DOMAIN toClient : ~Answers(i)
  /\ client \in {"ping", "await"} /\ toBroker \notin {<<"SUB">>, <<"SUB", "PING">>} =>
       subscribed \/ \E i \in DOMAIN toClient : Rejects(i)
  /\ client = "await" => \A i \in DOMAIN toClient :
       Answers(i) => subscribed \/ \E j \in 1 .. i - 1 : Rejects(j)
  /\ client = "ready" => subscribed

\* Only what was published is on its way, passed on or dropped.
Ledger ==
  /\ \A i \in InFlight : toClient[i].id \in 1 .. published
  /\ \A i \in DOMAIN Passed : Passed[i] \in 1 .. published
  /\ dropped \subseteq 1 .. published

IndInv == TypeOK /\ Ledger /\ Registration /\ Delivery

\* What DropsOnlyWhenFull says of one step.
Accounted ==
  /\ dropped' # dropped => Len(buffer) = Capacity /\ buffer' = buffer
  /\ reader # "none" => Streamed \ Streamed' = dropped' \ dropped
-----------------------------------------------------------------------------
(* The lines on their way to the client *)

LEMMA Told ==
  ASSUME TypeOK, NEW k \in {"MSG", "PING", "PONG", "ERR"}, NEW n \in {0} \cup Messages,
         Tell(k, n)
  PROVE  /\ toClient' \in Seq(Lines)
         /\ DOMAIN toClient' = 1 .. Len(toClient) + 1
         /\ DOMAIN toClient = 1 .. Len(toClient) /\ Len(toClient) \in Nat
         /\ \A i \in DOMAIN toClient : toClient'[i] = toClient[i]
         /\ toClient'[Len(toClient) + 1] = [kind |-> k, id |-> n]
<1>1. toClient \in Seq(Lines) /\ [kind |-> k, id |-> n] \in Lines
  BY DEF TypeOK, Lines
<1>2. toClient' = Append(toClient, [kind |-> k, id |-> n])
  BY DEF Tell
<1> HIDE DEF Lines
<1>3. QED
  BY <1>1, <1>2

LEMMA Read ==
  ASSUME TypeOK, toClient # <<>>, toClient' = Tail(toClient)
  PROVE  /\ toClient' \in Seq(Lines)
         /\ Len(toClient) \in Nat \ {0}
         /\ DOMAIN toClient = 1 .. Len(toClient)
         /\ DOMAIN toClient' = 1 .. Len(toClient) - 1
         /\ \A i \in DOMAIN toClient' : toClient'[i] = toClient[i + 1]
         /\ Head(toClient) = toClient[1] /\ Head(toClient) \in Lines
  BY DEF TypeOK

LEMMA PassedOn ==
  ASSUME TypeOK
  PROVE  /\ Passed \in Seq(Messages)
         /\ Len(Passed) = Len(received) + Len(buffer)
         /\ DOMAIN Passed = 1 .. Len(Passed)
  BY DEF TypeOK, Passed

LEMMA ShiftedBack ==
  ASSUME NEW j \in Nat, NEW shift \in {0, 1}
  PROVE  (j - shift) + shift = j
  OBVIOUS

\* Lines that come to an end, or are read, disturb no order: what is in flight
\* now was in flight before, shift places further on.
LEMMA StreamKept ==
  ASSUME TypeOK, Ledger, InOrder, dropped \cap Streamed = {}, NEW shift \in {0, 1},
         UNCHANGED <<published, dropped, Passed>>,
         InFlight \subseteq Nat, InFlight' \subseteq Nat,
         \A i \in InFlight' : i + shift \in InFlight
                              /\ toClient'[i].id = toClient[i + shift].id
  PROVE  /\ Ledger' /\ InOrder' /\ (dropped \cap Streamed = {})'
         /\ (\A j \in InFlight : j - shift \in InFlight') => Streamed' = Streamed
<1> DEFINE ids == {toClient[i].id : i \in InFlight}
<1>1. ids' \subseteq ids
  OBVIOUS
<1>2. Ledger'
  BY DEF Ledger
<1>3. InOrder'
  BY DEF InOrder
<1>4. Streamed' \subseteq Streamed
  BY <1>1 DEF Streamed
<1>5. ASSUME \A j \in InFlight : j - shift \in InFlight' PROVE ids \subseteq ids'
  <2> SUFFICES ASSUME NEW j \in InFlight PROVE toClient[j].id \in ids'
    OBVIOUS
  <2>0. j \in Nat /\ j - shift \in InFlight'
    BY <1>5, Zenon
  <2>1. j - shift \in InFlight' /\ (j - shift) + shift = j
    BY <2>0, ShiftedBack
  <2>2. toClient'[j - shift].id = toClient[j].id
    BY <2>1
  <2>3. QED
    BY <2>1, <2>2
<1>6. QED
  BY <1>2, <1>3, <1>4, <1>5 DEF Streamed

\* A step that leaves what is in flight alone.
LEMMA StreamAlone ==
  ASSUME IndInv, UNCHANGED <<published, dropped, Passed, toClient>>
  PROVE  Ledger' /\ InOrder' /\ (dropped \cap Streamed = {})' /\ Streamed' = Streamed
<1>1. InFlight' = InFlight /\ Streamed' = Streamed
  BY DEF InFlight, Streamed
<1>2. QED
  BY <1>1 DEF IndInv, Ledger, Delivery, InOrder

\* The broker says something that is no message.
LEMMA StreamTold ==
  ASSUME IndInv, NEW k \in {"PING", "PONG", "ERR"}, Tell(k, 0),
         UNCHANGED <<published, dropped, Passed>>
  PROVE  Ledger' /\ InOrder' /\ (dropped \cap Streamed = {})' /\ Streamed' = Streamed
<1>0. k \in {"MSG", "PING", "PONG", "ERR"} /\ 0 \in {0} \cup Messages /\ TypeOK
  BY DEF IndInv
<1>1. /\ DOMAIN toClient' = 1 .. Len(toClient) + 1
      /\ DOMAIN toClient = 1 .. Len(toClient) /\ Len(toClient) \in Nat
      /\ \A i \in DOMAIN toClient : toClient'[i] = toClient[i]
      /\ toClient'[Len(toClient) + 1] = [kind |-> k, id |-> 0]
  BY <1>0, Told
<1>2. InFlight' = InFlight /\ InFlight \subseteq Nat
  <2>1. toClient'[Len(toClient) + 1].kind # "MSG"
    BY <1>1
  <2>2. QED
    BY <1>1, <2>1 DEF InFlight
<1>3. \A i \in InFlight : i + 0 = i /\ i - 0 = i /\ toClient'[i].id = toClient[i].id
  BY <1>1, <1>2 DEF InFlight
<1>4. QED
  BY <1>2, <1>3, StreamKept DEF IndInv, Delivery

\* A line is read, and no message is passed on.
LEMMA StreamRead ==
  ASSUME IndInv, toClient # <<>>, toClient' = Tail(toClient),
         UNCHANGED <<published, dropped, Passed>>
  PROVE  /\ Ledger' /\ InOrder' /\ (dropped \cap Streamed = {})'
         /\ Head(toClient).kind # "MSG" => Streamed' = Streamed
<1>1. /\ Len(toClient) \in Nat \ {0} /\ DOMAIN toClient = 1 .. Len(toClient)
      /\ DOMAIN toClient' = 1 .. Len(toClient) - 1
      /\ \A i \in DOMAIN toClient' : toClient'[i] = toClient[i + 1]
      /\ Head(toClient) = toClient[1]
  BY Read DEF IndInv
<1>2. InFlight \subseteq Nat /\ InFlight' \subseteq Nat
  BY <1>1 DEF InFlight
<1>3. \A i \in InFlight' : i + 1 \in InFlight /\ toClient'[i].id = toClient[i + 1].id
  BY <1>1 DEF InFlight
<1>4. ASSUME Head(toClient).kind # "MSG", NEW j \in InFlight PROVE j - 1 \in InFlight'
  <2>1. j \in 2 .. Len(toClient) /\ toClient[j].kind = "MSG"
    BY <1>1, <1>4 DEF InFlight
  <2>2. j - 1 \in DOMAIN toClient' /\ (j - 1) + 1 = j
    BY <1>1, <2>1
  <2>3. QED
    BY <1>1, <2>1, <2>2 DEF InFlight
<1>5. QED
  BY <1>2, <1>3, <1>4, StreamKept DEF IndInv, Delivery
-----------------------------------------------------------------------------
(* The channel *)

LEMMA TakenInOrder ==
  ASSUME NEW S, NEW a \in Seq(S), NEW b \in Seq(S), b # <<>>
  PROVE  Append(a, Head(b)) \o Tail(b) = a \o b
<1> DEFINE h == Head(b)
<1>1. h \in S /\ Tail(b) \in Seq(S) /\ <<h>> \in Seq(S)
  BY HeadTailProperties
<1>2. Append(a, h) = a \o <<h>>
  BY <1>1, AppendIsConcat
<1>3. (a \o <<h>>) \o Tail(b) = a \o (<<h>> \o Tail(b))
  BY <1>1, ConcatAssociative
<1>4. <<h>> \o Tail(b) = b
  BY HeadTailProperties
<1>5. QED
  BY <1>2, <1>3, <1>4

LEMMA PutInOrder ==
  ASSUME NEW S, NEW a \in Seq(S), NEW b \in Seq(S), NEW x \in S
  PROVE  a \o Append(b, x) = Append(a \o b, x)
<1>1. <<x>> \in Seq(S) /\ a \o b \in Seq(S)
  BY ConcatProperties
<1>2. a \o Append(b, x) = a \o (b \o <<x>>)
  BY AppendIsConcat
<1>3. Append(a \o b, x) = (a \o b) \o <<x>>
  BY <1>1, AppendIsConcat
<1>4. QED
  BY <1>1, <1>2, <1>3, ConcatAssociative
-----------------------------------------------------------------------------
(* The handshake *)

\* The lines on the way change, the handshake does not, and neither an answer
\* comes nor a rejection goes.
LEMMA RegistrationKept ==
  ASSUME Registration, UNCHANGED <<client, reader, toBroker, subscribed>>,
         DOMAIN toClient \subseteq Nat, DOMAIN toClient \subseteq DOMAIN toClient',
         \A i \in DOMAIN toClient : toClient'[i] = toClient[i],
         \A i \in DOMAIN toClient' : toClient'[i].kind = "PONG" => i \in DOMAIN toClient,
         \A i \in DOMAIN toClient : 1 .. i - 1 \subseteq DOMAIN toClient
  PROVE  Registration'
<1>1. \A i \in DOMAIN toClient' : Answers(i)' => i \in DOMAIN toClient /\ Answers(i)
  BY DEF Answers
<1>2. \A i \in DOMAIN toClient : Rejects(i) => i \in DOMAIN toClient' /\ Rejects(i)'
  BY DEF Rejects
<1>3. ASSUME client = "await", NEW i \in DOMAIN toClient', Answers(i)', ~subscribed
      PROVE  \E j \in 1 .. i - 1 : Rejects(j)'
  <2>1. i \in DOMAIN toClient /\ Answers(i)
    BY <1>1, <1>3
  <2>2. PICK j \in 1 .. i - 1 : Rejects(j)
    BY <1>3, <2>1 DEF Registration
  <2>3. QED
    BY <1>2, <2>1, <2>2
<1>4. QED
  BY <1>1, <1>2, <1>3 DEF Registration

LEMMA RegistrationTold ==
  ASSUME TypeOK, Registration, UNCHANGED <<client, reader, toBroker, subscribed>>,
         NEW k \in {"MSG", "PING"}, NEW n \in {0} \cup Messages, Tell(k, n)
  PROVE  Registration'
<1>0. k \in {"MSG", "PING", "PONG", "ERR"}
  OBVIOUS
<1>1. /\ DOMAIN toClient' = 1 .. Len(toClient) + 1
      /\ DOMAIN toClient = 1 .. Len(toClient) /\ Len(toClient) \in Nat
      /\ \A i \in DOMAIN toClient : toClient'[i] = toClient[i]
      /\ toClient'[Len(toClient) + 1] = [kind |-> k, id |-> n]
  BY <1>0, Told
<1>2. \A i \in DOMAIN toClient' : toClient'[i].kind = "PONG" => i \in DOMAIN toClient
  <2>1. toClient'[Len(toClient) + 1].kind # "PONG"
    BY <1>1
  <2>2. QED
    BY <1>1, <2>1
<1>3. QED
  BY <1>1, <1>2, RegistrationKept

\* The handshake is over: all that is left to say is that it succeeded.
LEMMA RegistrationPast ==
  ASSUME client' \notin Asking, client' = "ready" => subscribed'
  PROVE  Registration'
BY DEF Registration, Asking

LEMMA RegistrationAlone ==
  ASSUME TypeOK, Registration, UNCHANGED <<client, reader, toBroker, subscribed, toClient>>
  PROVE  Registration'
BY DEF Registration, Answers, Rejects

LEMMA TwoCommands == Append(<<"SUB">>, "PING") = <<"SUB", "PING">>
<1> DEFINE s == Append(<<"SUB">>, "PING")
           t == <<"SUB", "PING">>
<1>1. <<"SUB">> \in Seq(Commands) /\ t \in Seq(Commands) /\ "PING" \in Commands
  BY DEF Commands
<1>2. s \in Seq(Commands) /\ Len(s) = 2 /\ s[1] = "SUB" /\ s[2] = "PING"
  BY <1>1
<1>3. Len(t) = 2 /\ t[1] = "SUB" /\ t[2] = "PING"
  OBVIOUS
<1> HIDE DEF s, t
<1>4. Len(s) = Len(t) /\ \A i \in 1 .. Len(s) : s[i] = t[i]
  BY <1>2, <1>3
<1>5. s = t
  BY <1>1, <1>2, <1>4, SeqEqual
<1>6. QED
  BY <1>5 DEF s, t

LEMMA CommandFacts ==
  /\ Head(<<"SUB">>) = "SUB" /\ Tail(<<"SUB">>) = <<>>
  /\ Head(<<"PING">>) = "PING" /\ Tail(<<"PING">>) = <<>>
  /\ Head(<<"SUB", "PING">>) = "SUB" /\ Tail(<<"SUB", "PING">>) = <<"PING">>
  /\ Append(<<>>, "SUB") = <<"SUB">> /\ Append(<<>>, "PING") = <<"PING">>
  /\ Append(<<"SUB">>, "PING") = <<"SUB", "PING">>
  /\ <<>> # <<"SUB">> /\ <<>> # <<"SUB", "PING">> /\ <<>> # <<"PING">>
  /\ <<"PING">> # <<"SUB">> /\ <<"PING">> # <<"SUB", "PING">>
  /\ <<"SUB">> # <<"SUB", "PING">>
BY TwoCommands
-----------------------------------------------------------------------------
(* The steps that leave the stream alone, but for what is read past *)

\* With the stream as it was, Delivery is kept while the scenario has the
\* subscriber; whoever comes to have it starts from what is published by then.
LEMMA DeliveryKept ==
  ASSUME IndInv, InOrder', (dropped \cap Streamed = {})',
         UNCHANGED <<published, received, buffer, dropped>>,
         client' = "ready" /\ link' = "up" =>
           \/ readyAt' = published
           \/ client = "ready" /\ link = "up" /\ readyAt' = readyAt
              /\ Streamed' = Streamed
  PROVE  Delivery'
<1>1. published \in Nat /\ (published + 1 .. published) = {}
  BY DEF IndInv, TypeOK
<1>2. QED
  BY <1>1 DEF IndInv, Delivery

LEMMA HandleKeeps == IndInv /\ Handle => IndInv'
<1> SUFFICES ASSUME IndInv, Handle PROVE IndInv'
  OBVIOUS
<1>0. /\ TypeOK /\ Registration /\ Passed' = Passed
      /\ link = "up" /\ toBroker # <<>> /\ toBroker' = Tail(toBroker)
      /\ toBroker' \in Seq(Commands)
      /\ UNCHANGED <<published, pings, link, client, readyAt, received, reader,
                     buffer, dropped>>
  BY DEF Handle, source, scenario, loop, IndInv, TypeOK, Passed
<1>1. ASSUME UNCHANGED toClient,
             \/ Head(toBroker) = "SUB" /\ subscribed' = TRUE
             \/ Head(toBroker) = "PONG" /\ subscribed' = subscribed
      PROVE  IndInv'
  <2>2. TypeOK'
    BY <1>0, <1>1 DEF IndInv, TypeOK
  <2>3. Ledger' /\ InOrder' /\ (dropped \cap Streamed = {})' /\ Streamed' = Streamed
    BY <1>0, <1>1, StreamAlone
  <2>4. Registration'
    <3>1. CASE client \notin Asking
      BY <1>0, <1>1, <3>1, RegistrationPast DEF Registration
    <3>2. CASE client \in Asking
      <4>1. /\ client \in {"ping", "await"}
            /\ toBroker \in {<<"SUB">>, <<"SUB", "PING">>, <<"PING">>}
            /\ reader = "none" /\ \A i \in DOMAIN toClient : ~Answers(i)
        BY <1>0, <3>2 DEF Asking, Registration
      <4>2. Head(toBroker) # "PONG"
        BY <4>1, CommandFacts
      <4>3. subscribed' = TRUE /\ toBroker' = Tail(toBroker) /\ Head(toBroker) = "SUB"
        BY <1>0, <1>1, <4>2
      <4>4. (client = "ping" => toBroker' = <<>>) /\ (client = "await" => toBroker' = <<"PING">>)
        BY <1>0, <4>3, CommandFacts DEF Registration
      <4>5. \A i \in DOMAIN toClient' : ~Answers(i)'
        BY <1>1, <4>1 DEF Answers
      <4>6. QED
        BY <1>0, <4>1, <4>3, <4>4, <4>5 DEF Registration, Asking
    <3>3. QED
      BY <3>1, <3>2
  <2>5. Delivery'
    BY <1>0, <2>3, DeliveryKept
  <2>6. QED
    BY <2>2, <2>3, <2>4, <2>5 DEF IndInv
<1>2. ASSUME NEW k \in {"ERR", "PONG"}, Tell(k, 0), subscribed' = subscribed,
             Head(toBroker) = IF k = "ERR" THEN "SUB" ELSE "PING"
      PROVE  IndInv'
  <2>1. k \in {"MSG", "PING", "PONG", "ERR"} /\ 0 \in {0} \cup Messages
    OBVIOUS
  <2>2. /\ toClient' \in Seq(Lines)
        /\ DOMAIN toClient' = 1 .. Len(toClient) + 1
        /\ DOMAIN toClient = 1 .. Len(toClient) /\ Len(toClient) \in Nat
        /\ \A i \in DOMAIN toClient : toClient'[i] = toClient[i]
        /\ toClient'[Len(toClient) + 1] = [kind |-> k, id |-> 0]
    BY <1>0, <1>2, <2>1, Told
  <2>3. TypeOK'
    BY <1>0, <1>2, <2>2 DEF IndInv, TypeOK
  <2>4. Ledger' /\ InOrder' /\ (dropped \cap Streamed = {})' /\ Streamed' = Streamed
    BY <1>0, <1>2, StreamTold
  <2>5. Delivery'
    BY <1>0, <2>4, DeliveryKept
  <2>6. Registration'
    <3>1. CASE client \notin Asking
      BY <1>0, <1>2, <3>1, RegistrationPast DEF Registration
    <3>2. CASE client \in Asking
      <4>0. PICK last \in Nat : last = Len(toClient) + 1
        BY <2>2
      <4>1. /\ client \in {"ping", "await"} /\ reader = "none"
            /\ client = "ping" => toBroker = <<"SUB">>
            /\ client = "await" => toBroker \in {<<"SUB", "PING">>, <<"PING">>}
            /\ \A i \in DOMAIN toClient : ~Answers(i)
        BY <1>0, <3>2 DEF Asking, Registration
      <4>2. last \in DOMAIN toClient' /\ toClient'[last].kind = k
        BY <2>2, <4>0
      <4>3. \A i \in DOMAIN toClient' : i # last => i \in DOMAIN toClient /\ ~Answers(i)'
        BY <2>2, <4>0, <4>1 DEF Answers
      <4>4. \A i \in DOMAIN toClient : Rejects(i) => Rejects(i)' /\ i \in 1 .. last - 1
        BY <2>2, <4>0 DEF Rejects
      <4>5. CASE k = "ERR"
        <5>1. Rejects(last)' /\ ~Answers(last)'
          BY <4>2, <4>5 DEF Rejects, Answers
        <5>2. (client = "ping" => toBroker' = <<>>) /\ (client = "await" => toBroker' = <<"PING">>)
          BY <1>0, <1>2, <4>1, <4>5, CommandFacts
        <5>3. QED
          BY <1>0, <4>1, <4>2, <4>3, <5>1, <5>2 DEF Registration, Asking
      <4>6. CASE k = "PONG"
        <5>1. client = "await" /\ toBroker = <<"PING">> /\ toBroker' = <<>>
          BY <1>0, <1>2, <4>1, <4>6, CommandFacts
        <5>2. subscribed \/ \E i \in DOMAIN toClient : Rejects(i)
          BY <1>0, <5>1, CommandFacts DEF Registration
        <5>3. subscribed' \/ \E i \in 1 .. last - 1 : Rejects(i)'
          BY <1>2, <4>4, <5>2
        <5>4. subscribed' \/ \E i \in DOMAIN toClient' : Rejects(i)'
          BY <2>2, <4>0, <5>3
        <5>5. \A i \in DOMAIN toClient' : Answers(i)' => i = last
          BY <4>3
        <5>6. QED
          BY <1>0, <4>1, <5>1, <5>3, <5>4, <5>5 DEF Registration, Asking
      <4>7. QED
        BY <4>5, <4>6
    <3>3. QED
      BY <3>1, <3>2
  <2>7. QED
    BY <2>3, <2>4, <2>5, <2>6 DEF IndInv
<1>3. QED
  BY <1>1, <1>2 DEF Handle

LEMMA PublishKeeps == IndInv /\ Publish => IndInv'
<1> SUFFICES ASSUME IndInv, Publish PROVE IndInv'
  OBVIOUS
<1>0. /\ TypeOK /\ Registration /\ Passed' = Passed
      /\ published \in Nat /\ published < MaxMessages /\ published' = published + 1
      /\ UNCHANGED <<pings, subscribed, toBroker, link, client, readyAt, received,
                     reader, buffer, dropped>>
  BY WireAssumption DEF Publish, scenario, loop, IndInv, TypeOK, Passed
<1>1. CASE ~(subscribed /\ link = "up")
  <2>1. toClient' = toClient
    BY <1>1 DEF Publish
  <2>2. InFlight' = InFlight /\ Streamed' = Streamed
    BY <1>0, <2>1 DEF InFlight, Streamed
  <2>3. TypeOK' /\ Registration'
    BY <1>0, <2>1, RegistrationAlone, WireAssumption DEF TypeOK
  <2>4. Ledger'
    BY <1>0, <2>1, <2>2 DEF IndInv, Ledger
  <2>5. InOrder'
    BY <1>0, <2>1, <2>2 DEF IndInv, Delivery, InOrder
  <2>6. ~(client' = "ready" /\ link' = "up")
    BY <1>0, <1>1 DEF Registration
  <2>7. QED
    BY <1>0, <2>2, <2>3, <2>4, <2>5, <2>6 DEF IndInv, Delivery
<1>2. CASE subscribed /\ link = "up"
  <2>1. /\ Tell("MSG", published + 1) /\ published + 1 \in {0} \cup Messages
        /\ "MSG" \in {"MSG", "PING", "PONG", "ERR"} /\ "MSG" \in {"MSG", "PING"}
    BY <1>0, <1>2, WireAssumption DEF Publish, Messages
  <2>2. /\ toClient' \in Seq(Lines)
        /\ DOMAIN toClient' = 1 .. Len(toClient) + 1
        /\ DOMAIN toClient = 1 .. Len(toClient) /\ Len(toClient) \in Nat
        /\ \A i \in DOMAIN toClient : toClient'[i] = toClient[i]
        /\ toClient'[Len(toClient) + 1] = [kind |-> "MSG", id |-> published + 1]
    BY <1>0, <2>1, Told
  <2>3. TypeOK' /\ Registration'
    BY <1>0, <2>1, <2>2, RegistrationTold, WireAssumption DEF TypeOK
  <2>4. PICK last \in Nat : last = Len(toClient) + 1
    BY <2>2
  <2>5. /\ InFlight' = InFlight \cup {last} /\ InFlight \subseteq 1 .. last - 1
        /\ toClient'[last].id = published + 1
        /\ \A i \in InFlight : toClient'[i].id = toClient[i].id
    BY <2>2, <2>4 DEF InFlight
  <2>6. Streamed' = Streamed \cup {published + 1}
    BY <1>0, <2>5 DEF Streamed
  <2>7. /\ \A i \in InFlight : toClient[i].id \in 1 .. published
        /\ \A i \in DOMAIN Passed : Passed[i] \in 1 .. published
        /\ dropped \subseteq 1 .. published
    BY DEF IndInv, Ledger
  <2>8. Ledger'
    BY <1>0, <2>5, <2>7 DEF Ledger
  <2>9. InOrder'
    BY <1>0, <2>5, <2>7 DEF InOrder, IndInv, Delivery
  <2>10. (dropped \cap Streamed)' = {}
    BY <1>0, <2>6, <2>7 DEF IndInv, Delivery
  <2>11. readyAt + 1 .. published + 1 \subseteq (readyAt + 1 .. published) \cup {published + 1}
    BY <1>0 DEF TypeOK
  <2>12. QED
    BY <1>0, <2>3, <2>6, <2>8, <2>9, <2>10, <2>11 DEF IndInv, Delivery
<1>3. QED
  BY <1>1, <1>2

LEMMA PingKeeps == IndInv /\ Ping => IndInv'
<1> SUFFICES ASSUME IndInv, Ping PROVE IndInv'
  OBVIOUS
<1>1. /\ TypeOK /\ Registration /\ Passed' = Passed
      /\ pings' \in 0 .. MaxPings
      /\ UNCHANGED <<published, subscribed, toBroker, link, client, readyAt, received,
                     reader, buffer, dropped>>
  BY WireAssumption DEF Ping, scenario, loop, IndInv, TypeOK, Passed
<1>2. /\ Tell("PING", 0) /\ 0 \in {0} \cup Messages
      /\ "PING" \in {"MSG", "PING", "PONG", "ERR"} /\ "PING" \in {"MSG", "PING"}
      /\ "PING" \in {"PING", "PONG", "ERR"}
  BY DEF Ping
<1>3. toClient' \in Seq(Lines)
  BY <1>1, <1>2, Told
<1>4. TypeOK' /\ Registration'
  BY <1>1, <1>2, <1>3, RegistrationTold DEF TypeOK
<1>5. Ledger' /\ InOrder' /\ (dropped \cap Streamed = {})' /\ Streamed' = Streamed
  BY <1>1, <1>2, StreamTold
<1>6. Delivery'
  BY <1>1, <1>5, DeliveryKept
<1>7. QED
  BY <1>4, <1>5, <1>6 DEF IndInv

\* A step that neither sends to the client nor reads, and gives nobody a
\* subscriber.
LEMMA QuietKeeps ==
  ASSUME IndInv, TypeOK', Registration',
         UNCHANGED <<published, toClient, readyAt, received, buffer, dropped>>,
         client' = "ready" => client = "ready", link' = "up" => link = "up" \/ client' # "ready"
  PROVE  IndInv'
<1>1. Passed' = Passed
  BY DEF Passed
<1>2. Ledger' /\ InOrder' /\ (dropped \cap Streamed = {})' /\ Streamed' = Streamed
  BY <1>1, StreamAlone
<1>3. Delivery'
  BY <1>2, DeliveryKept
<1>4. QED
  BY <1>2, <1>3 DEF IndInv

LEMMA SendKeeps == IndInv /\ (SendSub \/ SendPing) => IndInv'
<1> SUFFICES ASSUME IndInv, SendSub \/ SendPing PROVE IndInv'
  OBVIOUS
<1>0. TypeOK /\ Registration /\ toBroker \in Seq(Commands)
  BY DEF IndInv, TypeOK
<1>1. CASE SendSub
  <2>1. /\ client = "sub" /\ client' = "ping" /\ toBroker' = Append(toBroker, "SUB")
        /\ UNCHANGED <<published, pings, subscribed, toClient, link, readyAt, received,
                       reader, buffer, dropped>>
    BY <1>1 DEF SendSub, Send, source, loop
  <2>2. TypeOK'
    BY <1>0, <2>1 DEF TypeOK, Commands
  <2>3. toBroker' = <<"SUB">> /\ reader = "none" /\ \A i \in DOMAIN toClient : ~Answers(i)
    BY <1>0, <2>1, CommandFacts DEF Registration, Asking
  <2>4. Registration'
    BY <2>1, <2>3 DEF Registration, Answers, Rejects, Asking
  <2>5. QED
    BY <2>1, <2>2, <2>4, QuietKeeps
<1>2. CASE SendPing
  <2>1. /\ client = "ping" /\ client' = "await" /\ toBroker' = Append(toBroker, "PING")
        /\ UNCHANGED <<published, pings, subscribed, toClient, link, readyAt, received,
                       reader, buffer, dropped>>
    BY <1>2 DEF SendPing, Send, source, loop
  <2>2. TypeOK'
    BY <1>0, <2>1 DEF TypeOK, Commands
  <2>3. /\ reader = "none" /\ \A i \in DOMAIN toClient : ~Answers(i)
        /\ toBroker \in {<<"SUB">>, <<>>}
    BY <1>0, <2>1 DEF Registration, Asking
  <2>4. \/ toBroker' = <<"SUB", "PING">>
        \/ toBroker' = <<"PING">> /\ (subscribed \/ \E i \in DOMAIN toClient : Rejects(i))
    BY <1>0, <2>1, <2>3, CommandFacts DEF Registration
  <2>5. Registration'
    BY <2>1, <2>3, <2>4 DEF Registration, Answers, Rejects, Asking
  <2>6. QED
    BY <2>1, <2>2, <2>5, QuietKeeps
<1>3. QED
  BY <1>1, <1>2

LEMMA RestKeeps ==
  IndInv /\ (Cut \/ Abandon \/ Dial \/ ReadError \/ TellClosed \/ TellTimeout \/ Close
             \/ UNCHANGED vars) => IndInv'
<1> SUFFICES ASSUME IndInv, Cut \/ Abandon \/ Dial \/ ReadError \/ TellClosed
                              \/ TellTimeout \/ Close \/ UNCHANGED vars
             PROVE  IndInv'
  OBVIOUS
<1>1. TypeOK /\ Registration
  BY DEF IndInv
<1>2. UNCHANGED <<published, pings, subscribed, toBroker, toClient, readyAt, received,
                  buffer, dropped>>
  BY DEF Cut, Abandon, Dial, ReadError, TellClosed, TellTimeout, Close, vars, source,
         wire, scenario, loop
<1>3. TypeOK'
  BY <1>1, <1>2 DEF TypeOK, Cut, Abandon, Dial, ReadError, TellClosed, TellTimeout,
                    Close, vars, wire, scenario, loop
<1>4. CASE Cut \/ UNCHANGED vars
  <2>1. UNCHANGED <<client, reader, toBroker, subscribed, toClient>> /\ (link' = "up" => link = "up")
    BY <1>4 DEF Cut, source, scenario, loop, vars
  <2>2. QED
    BY <1>1, <1>2, <1>3, <2>1, RegistrationAlone, QuietKeeps
<1>5. CASE Dial
  <2>1. client = "new" /\ client' = "sub" /\ reader' = reader
    BY <1>5 DEF Dial, loop
  <2>2. Registration'
    BY <1>1, <1>2, <2>1 DEF Registration, Asking, Answers, Rejects
  <2>3. QED
    BY <1>2, <1>3, <2>1, <2>2, QuietKeeps
<1>6. CASE Abandon \/ ReadError \/ TellClosed \/ TellTimeout \/ Close
  <2>1. /\ client' \notin Asking /\ (client' = "ready" => client = "ready" /\ link' = link)
    BY <1>1, <1>6 DEF Abandon, ReadError, TellClosed, TellTimeout, Close, wire, scenario,
                      Asking, Registration, TypeOK
  <2>2. Registration'
    BY <1>1, <1>2, <2>1, RegistrationPast DEF Registration
  <2>3. QED
    BY <1>2, <1>3, <2>1, <2>2, QuietKeeps
<1>7. QED
  BY <1>4, <1>5, <1>6
-----------------------------------------------------------------------------
(* The steps that read *)

LEMMA AwaitKeeps == IndInv /\ Await => IndInv'
<1> SUFFICES ASSUME IndInv, Await PROVE IndInv'
  OBVIOUS
<1>0. /\ TypeOK /\ Registration /\ Passed' = Passed
      /\ client = "await" /\ toClient # <<>> /\ toClient' = Tail(toClient)
      /\ UNCHANGED <<published, pings, subscribed, toBroker, received, buffer, dropped>>
  BY DEF Await, source, IndInv, Passed
<1>1. /\ toClient' \in Seq(Lines)
      /\ Len(toClient) \in Nat \ {0} /\ DOMAIN toClient = 1 .. Len(toClient)
      /\ DOMAIN toClient' = 1 .. Len(toClient) - 1
      /\ \A i \in DOMAIN toClient' : toClient'[i] = toClient[i + 1]
      /\ Head(toClient) = toClient[1]
  BY <1>0, Read
<1>2. TypeOK'
  BY <1>0, <1>1 DEF Await, TypeOK
<1>3. Ledger' /\ InOrder' /\ (dropped \cap Streamed = {})'
  BY <1>0, StreamRead
<1>4. Delivery'
  <2>1. client' = "ready" => readyAt' = published
    BY <1>0 DEF Await
  <2>2. QED
    BY <1>0, <1>3, <2>1, DeliveryKept
<1>5. Registration'
  <2>1. CASE Rejects(1)
    <3>1. client' = "failed"
      BY <1>1, <2>1 DEF Await, Rejects
    <3>2. QED
      BY <3>1, RegistrationPast DEF Asking
  <2>2. CASE Answers(1)
    <3>1. client' = "ready"
      BY <1>1, <2>2 DEF Await, Answers
    <3>2. subscribed
      BY <1>0, <1>1, <2>2 DEF Registration
    <3>3. QED
      BY <1>0, <3>1, <3>2, RegistrationPast DEF Asking
  <2>3. CASE ~Rejects(1) /\ ~Answers(1)
    <3>1. UNCHANGED <<client, reader>>
      BY <1>1, <2>3 DEF Await, Rejects, Answers
    <3>2. \A i \in DOMAIN toClient' : /\ i + 1 \in DOMAIN toClient
                                      /\ Answers(i)' => Answers(i + 1)
      BY <1>1 DEF Answers
    <3>3. \A i \in DOMAIN toClient :
            Rejects(i) => i - 1 \in DOMAIN toClient' /\ Rejects(i - 1)'
      <4> SUFFICES ASSUME NEW i \in DOMAIN toClient, Rejects(i)
                   PROVE  i - 1 \in DOMAIN toClient' /\ Rejects(i - 1)'
        OBVIOUS
      <4>1. i \in 2 .. Len(toClient)
        BY <1>1, <2>3
      <4>2. i - 1 \in DOMAIN toClient' /\ (i - 1) + 1 = i
        BY <1>1, <4>1
      <4>3. toClient'[i - 1] = toClient[i]
        BY <1>1, <4>2
      <4>4. QED
        BY <4>2, <4>3 DEF Rejects
    <3>4. ASSUME NEW i \in DOMAIN toClient', Answers(i)', ~subscribed
          PROVE  \E j \in 1 .. i - 1 : Rejects(j)'
      <4>1. i + 1 \in DOMAIN toClient /\ Answers(i + 1) /\ i \in Nat
        BY <1>1, <3>2, <3>4
      <4>2. PICK j \in 1 .. (i + 1) - 1 : Rejects(j)
        BY <1>0, <3>4, <4>1 DEF Registration
      <4>3. j \in DOMAIN toClient /\ j \in 1 .. i
        BY <1>1, <4>1, <4>2
      <4>4. j - 1 \in DOMAIN toClient' /\ Rejects(j - 1)'
        BY <3>3, <4>2, <4>3
      <4>5. j - 1 \in 1 .. i - 1
        BY <1>1, <4>1, <4>3, <4>4
      <4>6. QED
        BY <4>4, <4>5
    <3>5. toBroker # <<>> => \A i \in DOMAIN toClient' : ~Answers(i)'
      BY <1>0, <3>2 DEF Registration, Asking
    <3>6. toBroker \notin {<<"SUB">>, <<"SUB", "PING">>} =>
            subscribed \/ \E i \in DOMAIN toClient' : Rejects(i)'
      BY <1>0, <3>3 DEF Registration
    <3>7. QED
      BY <1>0, <3>1, <3>4, <3>5, <3>6 DEF Registration, Asking
  <2>4. QED
    BY <2>1, <2>2, <2>3
<1>6. QED
  BY <1>2, <1>3, <1>4, <1>5 DEF IndInv

LEMMA ReadControlKeeps == IndInv /\ ReadControl => IndInv'
<1> SUFFICES ASSUME IndInv, ReadControl PROVE IndInv'
  OBVIOUS
<1>0. /\ TypeOK /\ Registration /\ Passed' = Passed /\ reader = "reading"
      /\ toClient # <<>> /\ toClient' = Tail(toClient) /\ Head(toClient).kind # "MSG"
      /\ UNCHANGED <<published, pings, subscribed, link, client, readyAt, received,
                     buffer, dropped>>
  BY DEF ReadControl, source, scenario, IndInv, Passed
<1>1. toClient' \in Seq(Lines)
  BY <1>0, Read
<1>2. TypeOK'
  <2>1. toBroker' \in Seq(Commands) /\ reader' \in {"none", "reading", "gone"}
    <3>1. toBroker \in Seq(Commands) /\ "PONG" \in Commands
      BY <1>0 DEF TypeOK, Commands
    <3>2. Append(toBroker, "PONG") \in Seq(Commands)
      BY <3>1
    <3>3. toBroker' = toBroker \/ toBroker' = Append(toBroker, "PONG")
      BY DEF ReadControl, Send
    <3>4. reader' = "gone" \/ reader' = reader
      BY DEF ReadControl
    <3>5. QED
      BY <1>0, <3>1, <3>2, <3>3, <3>4
  <2>2. QED
    BY <1>0, <1>1, <2>1 DEF TypeOK
<1>3. Ledger' /\ InOrder' /\ (dropped \cap Streamed = {})' /\ Streamed' = Streamed
  BY <1>0, StreamRead
<1>4. Delivery'
  BY <1>0, <1>3, DeliveryKept
<1>5. Registration'
  BY <1>0, RegistrationPast DEF Registration
<1>6. QED
  BY <1>2, <1>3, <1>4, <1>5 DEF IndInv

LEMMA TakeKeeps == IndInv /\ Take => IndInv'
<1> SUFFICES ASSUME IndInv, Take PROVE IndInv'
  OBVIOUS
<1>0. /\ TypeOK /\ Registration /\ buffer # <<>> /\ client = "ready"
      /\ received \in Seq(Messages) /\ buffer \in Seq(Messages)
      /\ received' = Append(received, Head(buffer)) /\ buffer' = Tail(buffer)
      /\ UNCHANGED <<published, pings, subscribed, toBroker, toClient, link, client,
                     readyAt, reader, dropped>>
  BY DEF Take, source, wire, IndInv, TypeOK
<1>1. /\ received' \in Seq(Messages) /\ buffer' \in Seq(Messages)
      /\ Len(received') = Len(received) + 1 /\ Len(buffer') = Len(buffer) - 1
      /\ Len(received) \in Nat /\ Len(buffer) \in Nat
  BY <1>0
<1>2. Passed' = Passed
  BY <1>0, TakenInOrder DEF Passed
<1>3. TypeOK' /\ Registration'
  BY <1>0, <1>1, RegistrationAlone, WireAssumption DEF TypeOK
<1>4. Ledger' /\ InOrder' /\ (dropped \cap Streamed = {})' /\ Streamed' = Streamed
  BY <1>0, <1>2, StreamAlone
<1>5. Delivery'
  BY <1>0, <1>4 DEF IndInv, Delivery
<1>6. QED
  BY <1>3, <1>4, <1>5 DEF IndInv

LEMMA ReadMessageKeeps == IndInv /\ ReadMessage => IndInv' /\ Accounted
<1> SUFFICES ASSUME IndInv, ReadMessage PROVE IndInv' /\ Accounted
  OBVIOUS
<1> DEFINE id == Head(toClient).id
<1>0. /\ TypeOK /\ Registration /\ reader = "reading" /\ toClient # <<>>
      /\ toClient' = Tail(toClient) /\ Head(toClient).kind = "MSG"
      /\ received \in Seq(Messages) /\ buffer \in Seq(Messages)
      /\ published \in 0 .. MaxMessages
      /\ UNCHANGED <<published, pings, subscribed, toBroker, link, client, readyAt,
                     received, reader>>
  BY DEF ReadMessage, source, scenario, IndInv, TypeOK
<1>1. /\ toClient' \in Seq(Lines)
      /\ Len(toClient) \in Nat \ {0} /\ DOMAIN toClient = 1 .. Len(toClient)
      /\ DOMAIN toClient' = 1 .. Len(toClient) - 1
      /\ \A i \in DOMAIN toClient' : toClient'[i] = toClient[i + 1]
      /\ Head(toClient) = toClient[1]
  BY <1>0, Read
<1>2. 1 \in InFlight /\ InFlight \subseteq Nat /\ id = toClient[1].id
  BY <1>0, <1>1 DEF InFlight
<1>3. id \in 1 .. published /\ id \in Messages
  BY <1>0, <1>2, WireAssumption DEF IndInv, Ledger, Messages
<1>4. \A i \in InFlight' : /\ i + 1 \in InFlight /\ toClient'[i].id = toClient[i + 1].id
                           /\ id < toClient'[i].id
  <2>1. \A i \in InFlight' : i + 1 \in InFlight /\ toClient'[i].id = toClient[i + 1].id
                             /\ 1 < i + 1
    BY <1>1 DEF InFlight
  <2>2. QED
    BY <1>2, <2>1 DEF IndInv, Delivery, InOrder
<1>5. \A j \in InFlight : j # 1 => j - 1 \in InFlight' /\ toClient'[j - 1].id = toClient[j].id
  <2> SUFFICES ASSUME NEW j \in InFlight, j # 1
               PROVE  j - 1 \in InFlight' /\ toClient'[j - 1].id = toClient[j].id
    OBVIOUS
  <2>1. j \in 2 .. Len(toClient) /\ toClient[j].kind = "MSG"
    BY <1>1 DEF InFlight
  <2>2. j - 1 \in DOMAIN toClient' /\ (j - 1) + 1 = j
    BY <1>1, <2>1
  <2>3. toClient'[j - 1] = toClient[j]
    BY <1>1, <2>2
  <2>4. QED
    BY <2>1, <2>2, <2>3 DEF InFlight
<1>6. /\ Passed \in Seq(Messages) /\ DOMAIN Passed = 1 .. Len(Passed) /\ Len(Passed) \in Nat
      /\ \A i \in DOMAIN Passed : Passed[i] < id
  BY <1>0, <1>2, PassedOn DEF IndInv, Delivery, InOrder
<1>7. Registration'
  BY <1>0, RegistrationPast DEF Registration
<1> DEFINE before == {toClient[i].id : i \in InFlight}
           after == {toClient'[i].id : i \in InFlight'}
<1>10. id \in before /\ before \subseteq after \cup {id} /\ after \subseteq before
  <2>1. id \in before
    BY <1>2
  <2>2. ASSUME NEW j \in InFlight PROVE toClient[j].id \in after \cup {id}
    <3>1. CASE j = 1
      BY <1>2, <3>1
    <3>2. CASE j # 1
      BY <1>5, <3>2
    <3>3. QED
      BY <3>1, <3>2
  <2>3. ASSUME NEW i \in InFlight' PROVE toClient'[i].id \in before
    BY <1>4
  <2>4. QED
    BY <2>1, <2>2, <2>3
<1>11. Streamed = {Passed[i] : i \in DOMAIN Passed} \cup before
  BY DEF Streamed
<1>12. Streamed' = {Passed'[i] : i \in DOMAIN Passed'} \cup after
  BY DEF Streamed
<1>13. \A x \in after : x \in Nat /\ id < x
  <2>1. \A x \in before : x \in Nat
    BY <1>0 DEF IndInv, Ledger
  <2>2. QED
    BY <1>4, <1>10, <2>1
<1> HIDE DEF id, before, after
<1>8. CASE Len(buffer) < Capacity /\ buffer' = Append(buffer, id) /\ dropped' = dropped
  <2>1. /\ buffer' \in Seq(Messages) /\ Len(buffer') = Len(buffer) + 1
        /\ Len(buffer) \in Nat /\ Len(received) \in Nat
    BY <1>0, <1>3, <1>8
  <2>2. TypeOK'
    BY <1>0, <1>1, <1>8, <2>1, WireAssumption DEF TypeOK
  <2>3. Passed' = Append(Passed, id)
    BY <1>0, <1>3, <1>8, PutInOrder DEF Passed
  <2>4. PICK last \in Nat \ {0} : last = Len(Passed) + 1
    BY <1>6
  <2>5. /\ DOMAIN Passed' = DOMAIN Passed \cup {last} /\ DOMAIN Passed = 1 .. last - 1
        /\ Passed'[last] = id /\ \A i \in DOMAIN Passed : Passed'[i] = Passed[i]
    BY <1>3, <1>6, <2>3, <2>4
  <2>6. Streamed' = Streamed
    <3>1. {Passed'[i] : i \in DOMAIN Passed'} = {Passed[i] : i \in DOMAIN Passed} \cup {id}
      BY <2>5
    <3>2. QED
      BY <1>10, <1>11, <1>12, <3>1
  <2>7. Ledger'
    BY <1>0, <1>3, <1>4, <1>8, <2>5 DEF IndInv, Ledger
  <2>8. InOrder'
    <3>1. \A i, j \in DOMAIN Passed' : i < j => Passed'[i] < Passed'[j]
      BY <1>6, <2>5 DEF IndInv, Delivery, InOrder
    <3>2. \A i, j \in InFlight' : i < j => toClient'[i].id < toClient'[j].id
      BY <1>1, <1>2, <1>4 DEF IndInv, Delivery, InOrder, InFlight
    <3>3. \A i \in DOMAIN Passed', j \in InFlight' : Passed'[i] < toClient'[j].id
      BY <1>4, <2>5 DEF IndInv, Delivery, InOrder
    <3>4. QED
      BY <3>1, <3>2, <3>3 DEF InOrder
  <2>9. Delivery'
    BY <1>0, <1>8, <2>6, <2>8 DEF IndInv, Delivery
  <2>10. Accounted
    BY <1>8, <2>6 DEF Accounted
  <2>11. QED
    BY <1>7, <2>2, <2>7, <2>9, <2>10 DEF IndInv
<1>9. CASE Len(buffer) = Capacity /\ dropped' = dropped \cup {id} /\ buffer' = buffer
  <2>1. TypeOK' /\ Passed' = Passed
    BY <1>0, <1>1, <1>3, <1>9 DEF TypeOK, Passed
  <2>2. /\ id \in Streamed /\ Streamed \subseteq Streamed' \cup {id}
        /\ Streamed' \subseteq Streamed /\ id \notin Streamed'
    <3>1. id \in Nat /\ \A i \in DOMAIN Passed : Passed[i] # id
      BY <1>3, <1>6 DEF IndInv, Ledger
    <3>2. id \notin after
      BY <1>13, <3>1
    <3>3. QED
      BY <1>10, <1>11, <1>12, <2>1, <3>1, <3>2
  <2>3. Ledger'
    BY <1>0, <1>3, <1>4, <1>9, <2>1 DEF IndInv, Ledger
  <2>4. InOrder'
    <3>1. \A i, j \in InFlight' : i < j => toClient'[i].id < toClient'[j].id
      BY <1>1, <1>2, <1>4 DEF IndInv, Delivery, InOrder, InFlight
    <3>2. QED
      BY <1>4, <2>1, <3>1 DEF IndInv, Delivery, InOrder
  <2>5. Delivery'
    <3>1. (dropped \cap Streamed)' = {}
      BY <1>9, <2>2 DEF IndInv, Delivery
    <3>2. QED
      BY <1>0, <1>9, <2>2, <2>4, <3>1 DEF IndInv, Delivery
  <2>6. Accounted
    <3>1. dropped' \ dropped = {id} /\ Streamed \ Streamed' = {id}
      BY <1>9, <2>2 DEF IndInv, Delivery
    <3>2. QED
      BY <1>9, <3>1 DEF Accounted
  <2>7. QED
    BY <1>7, <2>1, <2>3, <2>5, <2>6 DEF IndInv
<1>14. QED
  BY <1>8, <1>9 DEF ReadMessage, id
-----------------------------------------------------------------------------
(* What is dropped *)

\* Nothing that was on its way or passed on disappears.
LEMMA NothingLost ==
  ASSUME UNCHANGED <<dropped, Passed>>, DOMAIN toClient \subseteq DOMAIN toClient',
         \A i \in DOMAIN toClient : toClient'[i] = toClient[i]
  PROVE  Accounted
<1> DEFINE ids == {toClient[i].id : i \in InFlight}
<1>1. \A i \in InFlight : i \in InFlight' /\ toClient'[i].id = toClient[i].id
  BY DEF InFlight
<1>2. ids \subseteq ids'
  BY <1>1
<1>3. Streamed \subseteq Streamed'
  BY <1>2 DEF Streamed
<1>4. QED
  BY <1>3 DEF Accounted

LEMMA BrokerLosesNothing == IndInv /\ (Handle \/ Publish \/ Ping) => Accounted
<1> SUFFICES ASSUME IndInv, Handle \/ Publish \/ Ping PROVE Accounted
  OBVIOUS
<1>1. TypeOK /\ UNCHANGED <<dropped, Passed>>
  BY DEF Handle, Publish, Ping, scenario, loop, IndInv, Passed
<1>2. CASE UNCHANGED toClient
  BY <1>1, <1>2, NothingLost
<1>3. ASSUME NEW k \in {"MSG", "PING", "PONG", "ERR"}, NEW n \in {0} \cup Messages, Tell(k, n)
      PROVE  Accounted
  <2>1. /\ DOMAIN toClient' = 1 .. Len(toClient) + 1
        /\ DOMAIN toClient = 1 .. Len(toClient) /\ Len(toClient) \in Nat
        /\ \A i \in DOMAIN toClient : toClient'[i] = toClient[i]
    BY <1>1, <1>3, Told
  <2>2. DOMAIN toClient \subseteq DOMAIN toClient'
    BY <2>1
  <2>3. QED
    BY <1>1, <2>1, <2>2, NothingLost
<1>4. \/ UNCHANGED toClient
      \/ Tell("ERR", 0) \/ Tell("PONG", 0) \/ Tell("PING", 0)
      \/ Tell("MSG", published + 1) /\ published + 1 \in Messages
  BY <1>1, WireAssumption DEF Handle, Publish, Ping, TypeOK, Messages
<1>5. QED
  BY <1>2, <1>3, <1>4

LEMMA StepAccounts == IndInv /\ [Next]_vars => Accounted
<1> SUFFICES ASSUME IndInv, [Next]_vars PROVE Accounted
  OBVIOUS
<1>1. CASE Handle \/ Publish \/ Ping
  BY <1>1, BrokerLosesNothing
<1>2. CASE \/ Cut \/ Abandon \/ Dial \/ SendSub \/ SendPing \/ ReadError
           \/ TellClosed \/ TellTimeout \/ Close \/ UNCHANGED vars
  <2>1. UNCHANGED <<dropped, toClient, received, buffer>>
    BY <1>2 DEF Cut, Abandon, Dial, SendSub, SendPing, ReadError, TellClosed, TellTimeout,
                Close, vars, wire, scenario, loop
  <2>2. QED
    BY <2>1, NothingLost DEF Passed
<1>3. CASE Await
  <2>1. reader = "none"
    BY <1>3 DEF Await, IndInv, Registration, Asking
  <2>2. QED
    BY <1>3, <2>1 DEF Await, Accounted
<1>4. CASE ReadMessage
  BY <1>4, ReadMessageKeeps
<1>5. CASE ReadControl
  <2>1. /\ UNCHANGED <<published, dropped, Passed>> /\ toClient # <<>>
        /\ toClient' = Tail(toClient) /\ Head(toClient).kind # "MSG"
    BY <1>5 DEF ReadControl, source, scenario, Passed
  <2>2. Streamed' = Streamed
    BY <2>1, StreamRead
  <2>3. QED
    BY <2>1, <2>2 DEF Accounted
<1>6. CASE Take
  <2>1. /\ UNCHANGED <<dropped, toClient>> /\ buffer # <<>>
        /\ received' = Append(received, Head(buffer)) /\ buffer' = Tail(buffer)
        /\ received \in Seq(Messages) /\ buffer \in Seq(Messages)
    BY <1>6 DEF Take, wire, IndInv, TypeOK
  <2>2. Passed' = Passed
    BY <2>1, TakenInOrder DEF Passed
  <2>3. QED
    BY <2>1, <2>2, NothingLost
<1>7. QED
  BY <1>1, <1>2, <1>3, <1>4, <1>5, <1>6 DEF Next, Broker, Handshake, ReadLoop, Scenario
-----------------------------------------------------------------------------
LEMMA Initial == Init => IndInv
<1> SUFFICES ASSUME Init PROVE IndInv
  OBVIOUS
<1>1. Passed = <<>> /\ InFlight = {} /\ Len(<<>>) = 0 /\ DOMAIN <<>> = {}
  BY ConcatEmptySeq, EmptySeq DEF Init, Passed, InFlight
<1>2. Streamed = {}
  BY <1>1 DEF Streamed
<1>3. TypeOK
  <2>1. <<>> \in Seq(Commands) /\ <<>> \in Seq(Lines) /\ <<>> \in Seq(Messages)
    BY EmptySeq
  <2>2. 0 \in 0 .. MaxMessages /\ 0 \in 0 .. MaxPings /\ 0 <= Capacity
    BY WireAssumption
  <2>3. QED
    BY <1>1, <2>1, <2>2 DEF Init, TypeOK
<1>4. Ledger /\ Delivery
  BY <1>1, <1>2 DEF Init, Ledger, Delivery, InOrder
<1>5. Registration
  BY <1>1 DEF Init, Registration, Asking
<1>6. QED
  BY <1>3, <1>4, <1>5 DEF IndInv

LEMMA Step == IndInv /\ [Next]_vars => IndInv'
BY HandleKeeps, PublishKeeps, PingKeeps, SendKeeps, RestKeeps, AwaitKeeps,
   ReadControlKeeps, TakeKeeps, ReadMessageKeeps
   DEF Next, Broker, Handshake, ReadLoop, Scenario

\* The inductive invariant holds, whatever the broker, the reader and the
\* scenario do between each other's steps.
THEOREM Inductive == Spec => []IndInv
  BY Initial, Step, PTL DEF Spec

\* The channel never holds more than its capacity, and every variable keeps
\* its type.
THEOREM TypeCorrect == Spec => []TypeOK
<1>1. IndInv => TypeOK
  BY DEF IndInv
<1>2. QED
  BY <1>1, Inductive, PTL

\* While the connection lasts, what was published once SubscribeNATS had
\* returned is on its way to the scenario or has reached it, once and in order,
\* or was dropped, for any channel and any number of messages.
THEOREM Delivered == Spec => []Delivery
<1>1. IndInv => Delivery
  BY DEF IndInv
<1>2. QED
  BY <1>1, Inductive, PTL

\* Whatever the broker, the reader and the scenario do between each other's
\* steps: the loop drops a message in no other state than with a full channel,
\* and once it runs no message disappears that it did not drop so.
THEOREM DroppedOnlyWhenFull == Spec => DropsOnlyWhenFull
<1>1. IndInv /\ [Next]_vars =>
        [/\ dropped' # dropped => Len(buffer) = Capacity /\ buffer' = buffer
         /\ reader # "none" => Streamed \ Streamed' = dropped' \ dropped]_vars
  BY StepAccounts DEF Accounted
<1>2. QED
  BY <1>1, Inductive, PTL DEF Spec, DropsOnlyWhenFull
=============================================================================
