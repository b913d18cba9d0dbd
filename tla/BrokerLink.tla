----------------------------- MODULE BrokerLink -----------------------------
(***************************************************************************)
(* The socket between the broker and one of its subscribers, GameCard or   *)
(* Team: at one end the threads of the process, which all use it, at the   *)
(* other the descriptor thread that serves it and the threads that deliver *)
(* messages on it.  What goes over it are words; nothing in an answer says *)
(* whose it is, so that a thread takes whatever word comes next.  What one *)
(* thread does on the socket is its script, the sends and receives of the  *)
(* library's functions in their order.                                     *)
(***************************************************************************)
EXTENDS Integers, Sequences

CONSTANTS
  Listener,    (* the thread of broker_server_function, which connects        *)
  Others,      (* the other threads of the process that use the socket        *)
  Broker,      (* who sends the words that answer nobody                      *)
  MaxLosses    (* bound: how often the broker dies                            *)

ASSUME LinkAssumption ==
  MaxLosses \in Nat /\ Listener \notin Others /\ Broker \notin Others \cup {Listener}

Threads == Others \cup {Listener}
Nothing == <<"nothing">>

VARIABLES
  connected,         \* is the broker at the other end of CONFIG.broker_socket?
  connection,        \* how many sockets have been connected to it: the last is in use
  to_broker,         \* the words on the way to the broker, each with its sender
  to_process,        \* the words on the way back, each with whom it is meant for
  script,            \* the steps each thread of the process has yet to take
  socket,            \* the connection it takes them on
  got,               \* the value each thread read last
  serving,           \* the steps the descriptor thread has yet to take for a header
  access_mutex,      \* client->access_mutex: is it locked?
  access_answering,  \* client->access_answering: is it locked?
  ready,             \* client->ready_to_recieve
  outgoing,          \* the messages the broker has for the process, in order
  pushing,           \* the one whose header is on the socket and whose body is not
  last_message_id,
  published,         \* <<thread, id>> of the messages the broker has got whole
  out_of_step,       \* a word was taken for another: nothing read after it makes sense,
                     \* and what the two ends do from then on is not followed
  dead,              \* the process died of a null pointer or of SIGPIPE
  losses

stream == <<to_broker, to_process>>
ends   == <<script, socket, got>>
broker == <<serving, access_mutex, access_answering, ready, outgoing, pushing,
            last_message_id, published>>
link   == <<connected, connection, stream, ends, broker, out_of_step, dead, losses>>

LinkInit ==
  /\ connected = FALSE /\ connection = 0
  /\ to_broker = <<>> /\ to_process = <<>>
  /\ script = [t \in Threads |-> <<>>]
  /\ socket = [t \in Threads |-> 0]
  /\ got = [t \in Threads |-> Nothing]
  /\ serving = <<>>
  /\ access_mutex = FALSE /\ access_answering = FALSE /\ ready = FALSE
  /\ outgoing = <<>> /\ pushing = Nothing
  /\ last_message_id = 0
  /\ published = {}
  /\ out_of_step = FALSE /\ dead = FALSE /\ losses = 0

-----------------------------------------------------------------------------
(* The library's functions, as scripts of the thread that calls them *)

send(kind) == [op |-> "send", kind |-> kind]
recv(kind) == [op |-> "recv", kind |-> kind]

subscribe_to_queue       == <<send("NEW_SUBSCRIPTION"), send("queue"), recv("OK")>>
ready_to_recieve         == <<send("READY_TO_RECIEVE"), recv("ready")>>
send_pokemon_message     == <<send("NEW_MESSAGE"), recv("id"), send("message")>>
receive_pokemon_message  == <<recv("header"), recv("body")>>
send_message_acknowledge == <<send("MESSAGE_ACK"), send("acknowledged")>>
already_processed        == <<send("PROCESSED")>>

Running == ~out_of_step /\ ~dead
Idle(t) == script[t] = <<>>

\* CONFIG.broker_socket is read when the function is called.
Start(t, s) ==
  /\ script' = [script EXCEPT ![t] = s]
  /\ socket' = [socket EXCEPT ![t] = connection]

Reaches(t) == connected /\ socket[t] = connection

\* The message carries the id that the thread was given for it.
Word(t) ==
  LET kind == Head(script[t]).kind
  IN  [kind |-> kind, by |-> t, value |-> IF kind = "message" THEN got[t] ELSE Nothing]

\* A word sent after the broker died is lost, or its SIGPIPE is the process's death.
SendWord(t) ==
  /\ Running /\ ~Idle(t) /\ Head(script[t]).op = "send"
  /\ script' = [script EXCEPT ![t] = Tail(@)]
  /\ IF Reaches(t)
     THEN /\ to_broker' = Append(to_broker, Word(t))
          /\ UNCHANGED dead
     ELSE /\ dead' \in BOOLEAN
          /\ UNCHANGED to_broker
  /\ UNCHANGED <<connected, connection, to_process, socket, got, broker, out_of_step, losses>>

\* Is the word what the thread takes it for?
Meant(word, t) ==
  word.kind = Head(script[t]).kind /\ word.to \in {t, Broker}

\* The next word, whoever it is for; at the end of a dead socket, a null pointer.  A
\* word taken for another is a length or a pointer of its own, and may kill at once.
ReceiveWord(t) ==
  /\ Running /\ ~Idle(t) /\ Head(script[t]).op = "recv"
  /\ IF socket[t] = connection /\ to_process # <<>>
     THEN /\ to_process' = Tail(to_process)
          /\ IF Meant(Head(to_process), t)
             THEN /\ script' = [script EXCEPT ![t] = Tail(@)]
                  /\ got' = [got EXCEPT ![t] = Head(to_process).value]
                  /\ UNCHANGED <<out_of_step, dead>>
             ELSE /\ out_of_step' = TRUE
                  /\ dead' \in BOOLEAN
                  /\ UNCHANGED <<script, got>>
     ELSE /\ ~Reaches(t)
          /\ dead' = TRUE
          /\ UNCHANGED <<to_process, script, got, out_of_step>>
  /\ UNCHANGED <<connected, connection, to_broker, socket, broker, losses>>

\* recv with MSG_PEEK: there is a word, or there will be none.
DataToPeek == to_process # <<>>
EndToPeek  == to_process = <<>> /\ ~connected

\* create_socket and connect_socket, once the broker accepts.
LinkConnect ==
  /\ Running /\ ~connected
  /\ connected' = TRUE
  /\ connection' = connection + 1
  /\ to_process' = <<>>
  /\ UNCHANGED <<to_broker, ends, broker, out_of_step, dead, losses>>

-----------------------------------------------------------------------------
(* The descriptor thread of the broker *)

Reply(kind, t, value) == [kind |-> kind, to |-> t, value |-> value]

\* handle_incoming, by the type of the header.
Handler(kind) ==
  CASE kind = "NEW_SUBSCRIPTION" -> <<recv("queue"), send("OK")>>
    [] kind = "READY_TO_RECIEVE" -> <<send("ready"), [op |-> "ready"]>>
    [] kind = "NEW_MESSAGE"      -> <<send("id"), recv("message")>>
    [] kind = "MESSAGE_ACK"      -> <<recv("acknowledged")>>
    [] kind = "PROCESSED"        -> <<[op |-> "processed"]>>

Headers ==
  {"NEW_SUBSCRIPTION", "READY_TO_RECIEVE", "NEW_MESSAGE", "MESSAGE_ACK", "PROCESSED"}

\* The header is read under access_mutex, and handle_incoming unlocks it at once.
ReadHeader ==
  /\ Running /\ serving = <<>> /\ to_broker # <<>> /\ ~access_mutex
  /\ to_broker' = Tail(to_broker)
  /\ IF Head(to_broker).kind \in Headers
     THEN /\ serving' = [i \in DOMAIN Handler(Head(to_broker).kind) |->
                           <<Head(to_broker).by, Handler(Head(to_broker).kind)[i]>>]
          /\ UNCHANGED out_of_step
     ELSE out_of_step' = TRUE /\ UNCHANGED serving
  /\ UNCHANGED <<connected, connection, to_process, ends, access_mutex, access_answering, ready,
                 outgoing, pushing, last_message_id, published, dead, losses>>

Serving(op) == Running /\ serving # <<>> /\ Head(serving)[2].op = op

\* After the last step handle_incoming unlocks access_mutex, which it no longer holds.
ServeNext ==
  /\ serving' = Tail(serving)
  /\ access_mutex' = (access_mutex /\ Tail(serving) # <<>>)

\* A message is published with the id that is in it.
ReadRest ==
  /\ Serving("recv") /\ to_broker # <<>>
  /\ to_broker' = Tail(to_broker)
  /\ LET word == Head(to_broker)
     IN  IF word.kind = Head(serving)[2].kind /\ word.by = Head(serving)[1]
         THEN /\ ServeNext
              /\ published' = IF word.kind = "message"
                              THEN published \cup {<<word.by, word.value>>} ELSE published
              /\ UNCHANGED out_of_step
         ELSE /\ out_of_step' = TRUE
              /\ UNCHANGED <<serving, access_mutex, published>>
  /\ UNCHANGED <<connected, connection, to_process, ends, access_answering, ready, outgoing,
                 pushing, last_message_id, dead, losses>>

generate_message_id == last_message_id + 1

\* OPT_OK, 1, or the id of the message to come: not under access_mutex.
Answer ==
  /\ Serving("send")
  /\ LET kind == Head(serving)[2].kind
         t == Head(serving)[1]
     IN  IF kind = "id"
         THEN /\ last_message_id' = generate_message_id
              /\ to_process' = Append(to_process, Reply(kind, t, last_message_id))
         ELSE /\ to_process' = Append(to_process, Reply(kind, t, Nothing))
              /\ UNCHANGED last_message_id
  /\ ServeNext
  /\ UNCHANGED <<connected, connection, to_broker, ends, access_answering, ready, outgoing,
                 pushing, published, out_of_step, dead, losses>>

BecomeReady ==
  /\ Serving("ready")
  /\ ready' = TRUE
  /\ ServeNext
  /\ UNCHANGED <<connected, connection, stream, ends, access_answering, outgoing, pushing,
                 last_message_id, published, out_of_step, dead, losses>>

Processed ==
  /\ Serving("processed")
  /\ access_answering' = FALSE
  /\ ServeNext
  /\ UNCHANGED <<connected, connection, stream, ends, ready, outgoing, pushing,
                 last_message_id, published, out_of_step, dead, losses>>

-----------------------------------------------------------------------------
(* The threads that deliver; ready_to_recieve_mutex lets one at a time through *)

\* Fault: the delivery does not wait for the PROCESSED of the one before.
NoTurn == TRUE

PushTurn == ~access_answering

\* send_message_to_client, up to the header.
PushHeader ==
  /\ Running /\ connected /\ ready /\ outgoing # <<>>
  /\ PushTurn /\ ~access_mutex /\ pushing = Nothing
  /\ access_answering' = TRUE
  /\ access_mutex' = TRUE
  /\ pushing' = Head(outgoing)
  /\ outgoing' = Tail(outgoing)
  /\ to_process' = Append(to_process, Reply("header", Broker, Nothing))
  /\ UNCHANGED <<connected, connection, to_broker, ends, serving, ready, last_message_id,
                 published, out_of_step, dead, losses>>

PushBody ==
  /\ Running /\ pushing # Nothing
  /\ to_process' = Append(to_process, Reply("body", Broker, pushing))
  /\ pushing' = Nothing
  /\ access_mutex' = FALSE
  /\ UNCHANGED <<connected, connection, to_broker, ends, serving, access_answering, ready,
                 outgoing, last_message_id, published, out_of_step, dead, losses>>

\* A message for one of the process's queues; its broadcast waits in outgoing.  It
\* answers those of the messages published that are in answered.
Enqueue(m, answered) ==
  /\ Running /\ connected
  /\ outgoing' = Append(outgoing, m)
  /\ published' = published \ answered
  /\ UNCHANGED <<connected, connection, stream, ends, serving, access_mutex, access_answering,
                 ready, pushing, last_message_id, out_of_step, dead, losses>>

\* The broker dies, and starts again with nothing: what it sent can still be read.
LoseBroker ==
  /\ Running /\ connected /\ losses < MaxLosses
  /\ losses' = losses + 1
  /\ connected' = FALSE
  /\ to_broker' = <<>>
  /\ serving' = <<>> /\ outgoing' = <<>> /\ pushing' = Nothing
  /\ access_mutex' = FALSE /\ access_answering' = FALSE /\ ready' = FALSE
  /\ last_message_id' = 0
  /\ published' = {}
  /\ UNCHANGED <<connection, to_process, ends, out_of_step, dead>>

BrokerStep ==
  \/ ReadHeader \/ ReadRest \/ Answer \/ BecomeReady \/ Processed
  \/ PushHeader \/ PushBody

SocketStep(t) == SendWord(t) \/ ReceiveWord(t)

\* The state predicates that enable them.
BrokerCanStep ==
  /\ Running
  /\ \/ serving = <<>> /\ to_broker # <<>> /\ ~access_mutex
     \/ serving # <<>> /\ (Serving("recv") => to_broker # <<>>)
     \/ pushing # Nothing
     \/ connected /\ ready /\ outgoing # <<>> /\ PushTurn /\ ~access_mutex

SocketCanStep(t) ==
  Head(script[t]).op = "recv" =>
    ~Reaches(t) \/ to_process # <<>>

\* The thread has words to send, to read, or on their way to the broker.
Using(t) ==
  \/ ~Idle(t)
  \/ \E i \in DOMAIN to_broker : to_broker[i].by = t
  \/ serving # <<>> /\ Head(serving)[1] = t
=============================================================================
