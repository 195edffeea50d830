--------------------------------- MODULE Hub ---------------------------------
(***************************************************************************)
(* The publish/subscribe service of src/net/hub: HubServer and its Topics  *)
(* (hub.cc), the protocol (codec.cc), PubSubClient (pubsub.cc) and what    *)
(* its users do with it (pub.cc, sub.cc).                                  *)
(*                                                                         *)
(* TCP delivers bytes in parts that know nothing of messages.  The parser  *)
(* waits for whole lines, so the least part that matters is a line.  The   *)
(* hub is one thread; the callback onMessage() is a step for the read and  *)
(* one for each turn of its loop, between which clients go on.             *)
(***************************************************************************)
EXTENDS Naturals, Sequences

CONSTANTS Clients,    \* PubSubClients; each connects once
          NoClient,
          Topics,
          MaxCalls    \* bound: the requests of each client, a function

ASSUME ClientAssumption == /\ NoClient \notin Clients /\ "hub" \notin Clients
                           /\ MaxCalls \in [Clients -> Nat]

VARIABLES
  conn,        \* the client's connection: "new", "up", "closed" (to writing)
  calls,       \* requests made so far
  wants,       \* history: the topics last subscribed to, not unsubscribed
  accepted,    \* has the hub a connection in kConnected for the client?
  toHub, toClient,     \* lines in the sockets
  hubBuffer,   \* inputBuffer_ of the hub's connections
  handling,    \* the client whose onMessage() the hub is in, or NoClient
  audiences,   \* audiences_ of each topic
  content,     \* content_, or None while lastPubTime_ is not valid
  published,   \* history: the publications of each topic, in order
  joined,      \* history: how many there were when a client subscribed
  heard,       \* history: what subscribeCallback_ got, in order
  crashed      \* the processes that died: clients, or "hub"

clientVars == <<conn, calls, wants>>
hubVars == <<accepted, handling, audiences, content, published, joined>>
wires == <<toHub, toClient>>
vars == <<clientVars, hubVars, wires, hubBuffer, heard, crashed>>

None == <<>>

\* A publication is named by who made it and the number of the call.
Contents == UNION {{c} \X (1..MaxCalls[c]) : c \in Clients}

Requests == [cmd : {"sub", "unsub", "pub"}, topic : Topics]
Lines == Requests \cup [cmd : {"text"}, text : Contents]

Request(cmd, t) == [cmd |-> cmd, topic |-> t]
Text(m) == [cmd |-> "text", text |-> m]

\* publish() and Topic::makeMessage().
Publication(t, m) == <<Request("pub", t), Text(m)>>

TypeOK ==
  /\ conn \in [Clients -> {"new", "up", "closed"}]
  /\ calls \in [Clients -> Nat] /\ \A c \in Clients : calls[c] <= MaxCalls[c]
  /\ wants \in [Clients -> SUBSET Topics]
  /\ accepted \subseteq Clients
  /\ {toHub, toClient, hubBuffer} \subseteq [Clients -> Seq(Lines)]
  /\ handling \in Clients \cup {NoClient}
  /\ audiences \in [Topics -> SUBSET Clients]
  /\ content \in [Topics -> Contents \cup {None}]
  /\ published \in [Topics -> Seq(Contents)]
  /\ joined \in [Clients \X Topics -> Nat]
  /\ heard \in [Clients -> Seq(Topics \X Contents)]
  /\ crashed \subseteq Clients \cup {"hub"}

Init ==
  /\ conn = [c \in Clients |-> "new"]
  /\ calls = [c \in Clients |-> 0]
  /\ wants = [c \in Clients |-> {}]
  /\ accepted = {} /\ crashed = {}
  /\ toHub = [c \in Clients |-> <<>>] /\ toClient = toHub
  /\ hubBuffer = toHub /\ heard = toHub
  /\ handling = NoClient
  /\ audiences = [t \in Topics |-> {}]
  /\ content = [t \in Topics |-> None]
  /\ published = [t \in Topics |-> <<>>]
  /\ joined = [x \in Clients \X Topics |-> 0]

------------------------------------------------------------------------------
(* codec.cc.                                                               *)

\* What parseMessage() makes of the complete lines at the head of a buffer.  It
\* asks whether there is a first CRLF where it means the second: the content of
\* a publication that has not arrived is taken from a null pointer, which ends
\* the process.
ParseResult(lines) ==
  CASE lines = <<>>                -> "kContinue"
    [] Head(lines).cmd = "text"    -> "kError"
    [] lines = <<Head(lines)>> /\ Head(lines).cmd = "pub" -> "undefined"
    [] OTHER                       -> "kSuccess"

\* Faulty form of GoesOn: one message is parsed, not all that have arrived.
OnlyOnce(lines) == FALSE

\* The lines of the message at the head of a buffer, after kSuccess.
Consumed(lines) == IF Head(lines).cmd = "pub" THEN 2 ELSE 1

\* The loops of both callbacks: what a read has brought is parsed until it is
\* used up (or an error is met).
GoesOn(lines) == ParseResult(lines) \in {"kSuccess", "undefined"}

\* The part of a buffer behind the message at its head.
Behind(lines) == SubSeq(lines, Consumed(lines) + 1, Len(lines))

------------------------------------------------------------------------------
(* Faulty forms, for the mutants of PROJECT.json.                          *)

\* A new subscriber is not told the last publication.
AddSilently(t, c) == toClient

\* doUnSubscribe() changes nothing but a copy.
RemoveNobody(t, c) == audiences

\* publish() keeps the content of the first publication.
FirstContent(t, m) == IF content[t] = None THEN m ELSE content[t]

\* A message is put in front of what waits.
SentFirst(S, lines) == [c \in Clients |-> IF c \in S \cap accepted THEN lines \o toClient[c]
                                                                  ELSE toClient[c]]

------------------------------------------------------------------------------
(* PubSubClient.                                                           *)

\* The connection is made; onConnection() on both sides.  (The hub gives the
\* connection an empty set of topics as its context; doSubscribe() and
\* doUnSubscribe() change copies of it, so it stays empty and is left out.)
Connect(c) ==
  /\ conn[c] = "new"
  /\ conn' = [conn EXCEPT ![c] = "up"]
  /\ accepted' = accepted \cup {c}
  /\ UNCHANGED <<calls, wants, handling, audiences, content, published, joined,
                 wires, hubBuffer, heard>>

\* subscribe(), unSubscribe() and publish() of a client that is connected; of
\* one that is not, send() returns false and the message is gone.
Call(c, lines, want) ==
  /\ conn[c] = "up" /\ calls[c] < MaxCalls[c]
  /\ calls' = [calls EXCEPT ![c] = @ + 1]
  /\ wants' = [wants EXCEPT ![c] = want]
  /\ toHub' = [toHub EXCEPT ![c] = @ \o lines]
  /\ UNCHANGED <<conn, hubVars, toClient, hubBuffer, heard>>

ClientCall(c, t) ==
  \/ Call(c, <<Request("sub", t)>>, wants[c] \cup {t})
  \/ Call(c, <<Request("unsub", t)>>, wants[c] \ {t})
  \/ Call(c, Publication(t, <<c, calls[c] + 1>>), wants[c])

\* disconnect(): the write side is closed.
Disconnect(c) ==
  /\ conn[c] = "up"
  /\ conn' = [conn EXCEPT ![c] = "closed"]
  /\ UNCHANGED <<calls, wants, hubVars, wires, hubBuffer, heard>>

\* Publications in lines: "pub" and the text behind it.
Publications(lines) ==
  [i \in 1..(Len(lines) \div 2) |-> <<lines[2 * i - 1].topic, lines[2 * i].text>>]

\* PubSubClient::onMessage() with the first n lines of what has arrived, which
\* are publications: the loop of the parser, which touches nothing of others,
\* is one step.  A cut publication ends the process.
ClientMessage(c, n) ==
  LET lines == SubSeq(toClient[c], 1, n)
  IN  /\ heard' = [heard EXCEPT ![c] = @ \o Publications(lines)]
      /\ toClient' = [toClient EXCEPT ![c] = SubSeq(@, n + 1, Len(@))]
      /\ crashed' = IF ParseResult(<<lines[n]>>) = "undefined" THEN crashed \cup {c} ELSE crashed
      /\ UNCHANGED <<clientVars, hubVars, toHub, hubBuffer>>

------------------------------------------------------------------------------
(* HubServer.                                                              *)

\* TcpConnection::send() to the clients of S: nothing unless kConnected.
SentTo(S, lines) == [c \in Clients |-> IF c \in S \cap accepted THEN toClient[c] \o lines
                                                               ELSE toClient[c]]

\* Faulty form of AddSends: lastPubTime_ is not looked at.
AddAlways(t, c) == SentTo({c}, Publication(t, content[t]))

\* Topic::add(), remove(): what is sent, who is left.
AddSends(t, c) ==
  IF content[t] = None THEN toClient ELSE SentTo({c}, Publication(t, content[t]))

Removed(t, c) == [audiences EXCEPT ![t] = @ \ {c}]

\* content_ after publish().
NewContent(t, m) == m

HubRead(c, n) ==
  /\ handling = NoClient
  /\ c \in accepted
  /\ handling' = c
  /\ hubBuffer' = [hubBuffer EXCEPT ![c] = @ \o SubSeq(toHub[c], 1, n)]
  /\ toHub' = [toHub EXCEPT ![c] = SubSeq(@, n + 1, Len(@))]
  /\ UNCHANGED <<clientVars, accepted, audiences, content, published, joined,
                 toClient, heard>>

\* A turn of the loop in HubServer::onMessage().
HubMessage(c, cmd, t) ==
  /\ handling = c
  /\ ParseResult(hubBuffer[c]) = "kSuccess"
  /\ hubBuffer[c][1] = Request(cmd, t)
  /\ hubBuffer' = [hubBuffer EXCEPT ![c] = Behind(@)]
  /\ handling' = IF GoesOn(Behind(hubBuffer[c])) THEN c ELSE NoClient
  /\ UNCHANGED <<clientVars, accepted, toHub, heard>>

\* doSubscribe(): Topic::add().
DoSubscribe(c, t) ==
  /\ HubMessage(c, "sub", t)
  /\ audiences' = [audiences EXCEPT ![t] = @ \cup {c}]
  /\ joined' = IF c \in audiences[t] THEN joined
               ELSE [joined EXCEPT ![<<c, t>>] = Len(published[t])]
  /\ toClient' = AddSends(t, c)
  /\ UNCHANGED <<content, published>>

\* doUnSubscribe(): Topic::remove().
DoUnSubscribe(c, t) ==
  /\ HubMessage(c, "unsub", t)
  /\ audiences' = Removed(t, c)
  /\ UNCHANGED <<content, published, joined, toClient>>

\* doPublish(): Topic::publish().
DoPublish(c, t) ==
  LET m == hubBuffer[c][2].text
  IN  /\ HubMessage(c, "pub", t)
      /\ content' = [content EXCEPT ![t] = NewContent(t, m)]
      /\ published' = [published EXCEPT ![t] = Append(@, m)]
      /\ toClient' = SentTo(audiences[t], Publication(t, NewContent(t, m)))
      /\ UNCHANGED <<audiences, joined>>

\* The end of the stream: handleClose().  No callback tells the hub (module
\* TcpServer, UpThenDown), whose topics keep the connection.
HubClose(c) ==
  /\ handling = NoClient
  /\ c \in accepted
  /\ conn[c] = "closed" \/ c \in crashed
  /\ toHub[c] = <<>>
  /\ accepted' = accepted \ {c}
  /\ UNCHANGED <<clientVars, handling, audiences, content, published, joined,
                 wires, hubBuffer, heard>>

------------------------------------------------------------------------------

\* A publication is cut in two: the parser's undefined behaviour.
HubDies(c) ==
  /\ handling = c /\ ParseResult(hubBuffer[c]) = "undefined"
  /\ crashed' = crashed \cup {"hub"}
  /\ UNCHANGED <<clientVars, hubVars, wires, hubBuffer, heard>>

\* What the user of a client does, and what its loop does.
ClientUser(c) ==
  /\ c \notin crashed
  /\ Connect(c) \/ (\E t \in Topics : ClientCall(c, t)) \/ Disconnect(c)
  /\ UNCHANGED crashed

ClientLoop(c) == c \notin crashed /\ \E n \in 1..Len(toClient[c]) : ClientMessage(c, n)

HubStep(c) ==
  /\ "hub" \notin crashed
  /\ \/ /\ \/ \E n \in 1..Len(toHub[c]) : HubRead(c, n)
           \/ \E t \in Topics : DoSubscribe(c, t) \/ DoUnSubscribe(c, t) \/ DoPublish(c, t)
           \/ HubClose(c)
        /\ UNCHANGED crashed
     \/ HubDies(c)

Next == \E c \in Clients : ClientUser(c) \/ ClientLoop(c) \/ HubStep(c)

Spec == Init /\ [][Next]_vars

\* The hub is scheduled and every client reads what it is sent; no one has to
\* make requests.
FairSpec == /\ Spec
            /\ WF_vars(\E c \in Clients : HubStep(c))
            /\ \A c \in Clients : WF_vars(ClientLoop(c))

------------------------------------------------------------------------------
(* Properties.                                                             *)

\* What a client heard and, while it lives, will hear.
Delivered(c) ==
  IF c \in crashed THEN heard[c] ELSE heard[c] \o Publications(toClient[c])

\* The place of a publication in the order of the hub.
Number(t, m) == CHOOSE i \in DOMAIN published[t] : published[t][i] = m

\* A connection of the audience that the hub has not seen closed, of a client
\* that lives.
Listens(c, t) == c \in (audiences[t] \cap accepted) \ crashed

\* Hazard: a client subscribes between two publications.  The last thing that a
\* subscriber hears of a topic is its last publication, whether it was made
\* before or after the subscription.
SubscribersAreUpToDate ==
  \A c \in Clients, t \in Topics :
    Listens(c, t) /\ published[t] # <<>> =>
      \E i \in DOMAIN Delivered(c) :
        /\ Delivered(c)[i] = <<t, published[t][Len(published[t])]>>
        /\ \A j \in i + 1 .. Len(Delivered(c)) : Delivered(c)[j][1] # t

\* Nothing published while a client is subscribed escapes it, and it hears the
\* publications of a topic in the order of the hub (the last one perhaps again).
SubscribersMissNothing ==
  \A c \in Clients, t \in Topics :
    /\ Listens(c, t) =>
         \A k \in joined[<<c, t>>] + 1 .. Len(published[t]) :
           \E i \in DOMAIN Delivered(c) : Delivered(c)[i] = <<t, published[t][k]>>
    /\ \A i, j \in DOMAIN Delivered(c) :
         i < j /\ Delivered(c)[i][1] = t /\ Delivered(c)[j][1] = t =>
           Number(t, Delivered(c)[i][2]) <= Number(t, Delivered(c)[j][2])

\* Hazard: the hub and a client disagree on what the client subscribed to.  When
\* no request of a connected client is on its way, the topics that have it in
\* their audience are those it asked for.
AudiencesAreAsWanted ==
  \A c \in accepted :
    toHub[c] = <<>> /\ hubBuffer[c] = <<>> =>
      {t \in Topics : c \in audiences[t]} = wants[c]

\* Hazard: several requests arrive in one read, or one in two reads.  What a
\* client sent, and what it is sent, is used up in the end, unless the process
\* that reads it dies.
EverythingIsRead ==
  \A c \in Clients :
    /\ (toHub[c] \o hubBuffer[c] # <<>>)
         ~> (toHub[c] \o hubBuffer[c] = <<>> \/ "hub" \in crashed)
    /\ (toClient[c] # <<>>) ~> (toClient[c] = <<>> \/ c \in crashed)
==============================================================================
