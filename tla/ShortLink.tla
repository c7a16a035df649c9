------------------------------ MODULE ShortLink ------------------------------
(***************************************************************************)
(* The short link: MmtlsClientShort calling MmtlsServer over HTTP, one TCP *)
(* connection per message exchange (mmtls_short.rs, server.rs).            *)
(*                                                                         *)
(* Clients run one API call at a time (the methods take &mut self); every  *)
(* connection the server accepts is a task of its own.  A connection is a  *)
(* number, and stands for the random bytes drawn on it: the client's       *)
(* ephemeral key and hello random, the server's random, the ticket id.     *)
(* Connections break, calls are cancelled at an await, client and server   *)
(* processes restart.  A client may save its session to a file and a fresh *)
(* client may load it (session.rs).                                        *)
(***************************************************************************)
EXTENDS MmtlsCrypto

CONSTANTS Clients,      \* client processes
          Verifying,    \* those that leave verify_ecdsa at its default, true
          MaxConns,     \* bound: TCP connections opened in a behaviour
          MaxEpochs     \* bound: server processes started in a behaviour

ASSUME ShortLinkAssumption ==
  /\ Verifying \subseteq Clients
  /\ MaxConns \in Nat
  /\ MaxEpochs \in Nat \ {0}

VARIABLES
  \* MmtlsClientShort and the locals of its call in progress
  call,      \* the API call running: "none", "handshake" or "request"
  pc,        \* where that call stands
  status,    \* 1 once a handshake completed
  session,   \* the session: its ticket and psk_access
  hasher,    \* handshake_hasher
  sseq,      \* server_seq_num
  secret,    \* com_key, while a handshake runs
  key,       \* the traffic key responses are opened with
  reader,    \* packet_reader: which record of the response comes next
  at,        \* the connection of the latest exchange, 0 before the first
  reply,     \* the data record a request has read
  outcome,   \* how the latest call returned
  disk,      \* the session file
  \* MmtlsServer
  epoch,     \* which server process is running; names its key pair
  sessions,  \* the sessions map: ticket id to psk_access
  \* connections and the server tasks that own them
  opened,    \* connections opened so far
  stage,     \* where each connection stands
  request,   \* records written by the client
  response,  \* records built by the server
  served     \* the epoch of the server that took the request, 0 if none did

callVars   == <<call, pc, outcome>>
clientVars == <<status, session, hasher, sseq, secret, key, reader, at, reply>>
serverVars == <<epoch, sessions>>
connVars   == <<opened, stage, request, response, served>>
vars       == <<callVars, clientVars, disk, serverVars, connVars>>

Conns  == 1..MaxConns
Epochs == 1..MaxEpochs

Sessions == [ticket: Conns, psk: Psks]

\* What the next connection is called.
Fresh == opened + 1

-----------------------------------------------------------------------------
Init ==
  /\ call = [k \in Clients |-> "none"]
  /\ pc = [k \in Clients |-> "idle"]
  /\ outcome = [k \in Clients |-> "none"]
  /\ status = [k \in Clients |-> 0]
  /\ session = [k \in Clients |-> None]
  /\ hasher = [k \in Clients |-> <<>>]
  /\ sseq = [k \in Clients |-> 0]
  /\ secret = [k \in Clients |-> None]
  /\ key = [k \in Clients |-> None]
  /\ reader = [k \in Clients |-> 0]
  /\ at = [k \in Clients |-> 0]
  /\ reply = [k \in Clients |-> None]
  /\ disk = None
  /\ epoch = 1
  /\ sessions = [t \in Conns |-> None]
  /\ opened = 0
  /\ stage = [c \in Conns |-> "unused"]
  /\ request = [c \in Conns |-> <<>>]
  /\ response = [c \in Conns |-> <<>>]
  /\ served = [c \in Conns |-> 0]

-----------------------------------------------------------------------------
(* How a call ends.  Its locals go out of scope; the struct's fields stay.  *)

Return(k, result) ==
  /\ pc' = [pc EXCEPT ![k] = "idle"]
  /\ call' = [call EXCEPT ![k] = "none"]
  /\ outcome' = [outcome EXCEPT ![k] = result]

DropLocals(k) ==
  /\ secret' = [secret EXCEPT ![k] = None]
  /\ key' = [key EXCEPT ![k] = None]
  /\ reader' = [reader EXCEPT ![k] = 0]

Goto(k, place) ==
  /\ pc' = [pc EXCEPT ![k] = place]
  /\ UNCHANGED <<call, outcome>>

\* An early return with an error: nothing else of the struct changes.
Fail(k, why) ==
  /\ Return(k, why)
  /\ DropLocals(k)
  /\ UNCHANGED <<status, session, hasher, sseq, at, reply>>

\* A client writes its request on a fresh connection.
OpenConnection(k, records) ==
  /\ opened' = Fresh
  /\ at' = [at EXCEPT ![k] = Fresh]
  /\ stage' = [stage EXCEPT ![Fresh] = "sent"]
  /\ request' = [request EXCEPT ![Fresh] = records]
  /\ UNCHANGED <<response, served>>

-----------------------------------------------------------------------------
(***************************************************************************)
(* MmtlsClientShort::handshake, up to the response.  request() runs it     *)
(* first when it has no session.  A refused connection is a connection     *)
(* lost before the server read it (Lose).                                  *)
(***************************************************************************)
HandshakeAgain(k) ==
  /\ pc[k] = "idle"
  /\ status[k] = 1
  /\ Return(k, "handshaken")
  /\ UNCHANGED <<clientVars, disk, serverVars, connVars>>

\* Variant: handshake() without its early return.
StartHandshakeEachTime(k, api) ==
  /\ pc[k] = "idle"
  /\ api = "request" => session[k] = None
  /\ opened < MaxConns
  /\ call' = [call EXCEPT ![k] = api]
  /\ pc' = [pc EXCEPT ![k] = "helloSent"]
  /\ hasher' = [hasher EXCEPT ![k] = <<EcdheHello(Fresh)>>]
  /\ sseq' = [sseq EXCEPT ![k] = 0]
  /\ OpenConnection(k, <<Clear(EcdheHello(Fresh))>>)
  /\ UNCHANGED <<outcome, status, session, secret, key, reader, reply, disk,
                 serverVars>>

StartHandshake(k, api) ==
  /\ pc[k] = "idle"
  /\ status[k] = 0
  /\ api = "request" => session[k] = None
  /\ opened < MaxConns
  /\ call' = [call EXCEPT ![k] = api]
  /\ pc' = [pc EXCEPT ![k] = "helloSent"]
  /\ hasher' = [hasher EXCEPT ![k] = <<EcdheHello(Fresh)>>]
  /\ sseq' = [sseq EXCEPT ![k] = 0]
  /\ OpenConnection(k, <<Clear(EcdheHello(Fresh))>>)
  /\ UNCHANGED <<outcome, status, session, secret, key, reader, reply, disk,
                 serverVars>>

\* Variant: request() without the test for a session.
StartRequestUnchecked(k) ==
  /\ pc[k] = "idle"
  /\ call' = [call EXCEPT ![k] = "request"]
  /\ pc' = [pc EXCEPT ![k] = "connecting"]
  /\ UNCHANGED <<outcome, clientVars, disk, serverVars, connVars>>

\* MmtlsClientShort::request with a session at hand.
StartRequest(k) ==
  /\ pc[k] = "idle"
  /\ session[k] # None
  /\ call' = [call EXCEPT ![k] = "request"]
  /\ pc' = [pc EXCEPT ![k] = "connecting"]
  /\ UNCHANGED <<outcome, clientVars, disk, serverVars, connVars>>

ConnectRefused(k) ==
  /\ pc[k] = "connecting"
  /\ Fail(k, "io")
  /\ UNCHANGED <<disk, serverVars, connVars>>

\* Variant: one increment of client_seq_num forgotten.
RequestRecordsSameSeq(n, s) ==
  LET hello == PskHello(n, s.ticket)
      early == TrafficKey28(s.psk, "early data key expansion", <<hello>>).client
  IN  << Clear(hello),
         Seal(Extensions(n), early, 1),
         Seal(Message("request", n, 0), early, 2),
         Seal(Abort, early, 2) >>

\* pack_http: hello in the clear, then three records under the early key.
RequestRecords(n, s) ==
  LET hello == PskHello(n, s.ticket)
      early == TrafficKey28(s.psk, "early data key expansion", <<hello>>).client
  IN  << Clear(hello),
         Seal(Extensions(n), early, 1),
         Seal(Message("request", n, 0), early, 2),
         Seal(Abort, early, 3) >>

\* Variant: request() keeps server_seq_num from the previous call.
SendRequestKeepingSeq(k) ==
  /\ pc[k] = "connecting"
  /\ session[k] # None
  /\ opened < MaxConns
  /\ Goto(k, "requestSent")
  /\ hasher' = [hasher EXCEPT
                  ![k] = Append(<<PskHello(Fresh, session[k].ticket)>>,
                                Extensions(Fresh))]
  /\ OpenConnection(k, RequestRecords(Fresh, session[k]))
  /\ UNCHANGED <<status, session, sseq, secret, key, reader, reply, disk,
                 serverVars>>

SendRequest(k) ==
  /\ pc[k] = "connecting"
  /\ session[k] # None
  /\ opened < MaxConns
  /\ Goto(k, "requestSent")
  /\ hasher' = [hasher EXCEPT
                  ![k] = Append(<<PskHello(Fresh, session[k].ticket)>>,
                                Extensions(Fresh))]
  /\ sseq' = [sseq EXCEPT ![k] = 0]
  /\ OpenConnection(k, RequestRecords(Fresh, session[k]))
  /\ UNCHANGED <<status, session, secret, key, reader, reply, disk, serverVars>>

\* parse_response hands over the whole response or fails.
ReceiveResponse(k) ==
  /\ pc[k] \in {"helloSent", "requestSent"}
  /\ stage[at[k]] = "replied"
  /\ Goto(k, IF pc[k] = "helloSent" THEN "serverHello" ELSE "pskHello")
  /\ reader' = [reader EXCEPT ![k] = 1]
  /\ stage' = [stage EXCEPT ![at[k]] = "done"]
  /\ UNCHANGED <<status, session, hasher, sseq, secret, key, at, reply, disk,
                 serverVars, opened, request, response, served>>

\* Variant: the end of the stream taken for the end of the response.
ReceiveFailsQuietly(k) ==
  /\ pc[k] \in {"helloSent", "requestSent"}
  /\ stage[at[k]] \in {"lost", "refused"}
  /\ Fail(k, "answered")
  /\ UNCHANGED <<disk, serverVars, connVars>>

ReceiveFails(k) ==
  /\ pc[k] \in {"helloSent", "requestSent"}
  /\ stage[at[k]] \in {"lost", "refused"}
  /\ Fail(k, "io")
  /\ UNCHANGED <<disk, serverVars, connVars>>

-----------------------------------------------------------------------------
(***************************************************************************)
(* The rest of handshake(): one action per record of the response.  No     *)
(* await separates them.                                                   *)
(***************************************************************************)
\* packet_reader is a cursor over the response received.
HasNext(k) == reader[k] \in DOMAIN response[at[k]]
Body(k) == response[at[k]][reader[k]].body

\* The record packet_reader yields next opens under the current key.
NextOpens(k) ==
  /\ HasNext(k)
  /\ key[k] # None
  /\ Opens(response[at[k]][reader[k]], key[k].server, sseq[k])

\* Consume a record that was accepted.
Consume(k) ==
  /\ reader' = [reader EXCEPT ![k] = @ + 1]
  /\ sseq' = [sseq EXCEPT ![k] = @ + 1]

ReadServerHello(k) ==
  /\ pc[k] = "serverHello"
  /\ IF HasNext(k) /\ Body(k).msg = "serverHello"
     THEN LET h   == Append(hasher[k], Body(k))
              com == Ecdh(at[k], Body(k).ref)
          IN  /\ Goto(k, "signature")
              /\ Consume(k)
              /\ hasher' = [hasher EXCEPT ![k] = h]
              /\ secret' = [secret EXCEPT ![k] = com]
              /\ key' = [key EXCEPT
                           ![k] = TrafficKey56(com, "handshake key expansion", h)]
              /\ UNCHANGED <<status, session, at, reply>>
     ELSE Fail(k, "protocol")
  /\ UNCHANGED <<disk, serverVars, connVars>>

ReadSignature(k) ==
  /\ pc[k] = "signature"
  /\ IF NextOpens(k) /\ (k \in Verifying => VerifyEcdsa(Body(k)))
     THEN /\ Goto(k, "ticket")
          /\ Consume(k)
          /\ hasher' = [hasher EXCEPT ![k] = Append(@, Body(k))]
          /\ UNCHANGED <<status, session, secret, key, at, reply>>
     ELSE Fail(k, IF NextOpens(k) THEN "unverified" ELSE "protocol")
  /\ UNCHANGED <<disk, serverVars, connVars>>

\* The session is replaced here, before ServerFinish is checked.
ReadTicket(k) ==
  /\ pc[k] = "ticket"
  /\ IF NextOpens(k)
     THEN /\ Goto(k, "finish")
          /\ Consume(k)
          /\ session' = [session EXCEPT
               ![k] = [ticket |-> Body(k).fresh,
                       psk |-> HkdfExpand(secret[k], "PSK_ACCESS", hasher[k])]]
          /\ hasher' = [hasher EXCEPT ![k] = Append(@, Body(k))]
          /\ UNCHANGED <<status, secret, key, at, reply>>
     ELSE Fail(k, "protocol")
  /\ UNCHANGED <<disk, serverVars, connVars>>

ReadFinish(k) ==
  /\ pc[k] = "finish"
  /\ IF NextOpens(k) /\ Body(k) = Finish("server finished", secret[k], hasher[k])
     THEN /\ status' = [status EXCEPT ![k] = 1]
          /\ sseq' = [sseq EXCEPT ![k] = @ + 1]
          /\ DropLocals(k)
          /\ IF call[k] = "request"
             THEN Goto(k, "connecting")
             ELSE Return(k, "handshaken")
          /\ UNCHANGED <<session, hasher, at, reply>>
     ELSE Fail(k, "protocol")
  /\ UNCHANGED <<disk, serverVars, connVars>>

-----------------------------------------------------------------------------
(***************************************************************************)
(* The rest of request().  ServerFinish is decrypted and not compared.     *)
(***************************************************************************)
ReadPskHello(k) ==
  /\ pc[k] = "pskHello"
  /\ IF HasNext(k)
     THEN LET h == Append(hasher[k], Body(k))
          IN  /\ Goto(k, "pskFinish")
              /\ Consume(k)
              /\ hasher' = [hasher EXCEPT ![k] = h]
              /\ key' = [key EXCEPT
                   ![k] = ToServerHalf(
                       TrafficKey28(session[k].psk, "handshake key expansion", h))]
              /\ UNCHANGED <<status, session, secret, at, reply>>
     ELSE Fail(k, "protocol")
  /\ UNCHANGED <<disk, serverVars, connVars>>

ReadPskFinish(k) ==
  /\ pc[k] = "pskFinish"
  /\ IF NextOpens(k)
     THEN /\ Goto(k, "data")
          /\ Consume(k)
          /\ UNCHANGED <<status, session, hasher, secret, key, at, reply>>
     ELSE Fail(k, "protocol")
  /\ UNCHANGED <<disk, serverVars, connVars>>

ReadData(k) ==
  /\ pc[k] = "data"
  /\ IF NextOpens(k)
     THEN /\ Goto(k, "abort")
          /\ Consume(k)
          /\ reply' = [reply EXCEPT ![k] = Body(k)]
          /\ UNCHANGED <<status, session, hasher, secret, key, at>>
     ELSE Fail(k, "protocol")
  /\ UNCHANGED <<disk, serverVars, connVars>>

ReadAbort(k) ==
  /\ pc[k] = "abort"
  /\ IF NextOpens(k)
     THEN /\ Return(k, "answered")
          /\ sseq' = [sseq EXCEPT ![k] = @ + 1]
          /\ DropLocals(k)
          /\ UNCHANGED <<status, session, hasher, at, reply>>
     ELSE Fail(k, "protocol")
  /\ UNCHANGED <<disk, serverVars, connVars>>

-----------------------------------------------------------------------------
(* The session file, and what happens to a client from outside.             *)

SaveSession(k) ==
  /\ pc[k] = "idle"
  /\ session[k] # None
  /\ disk' = session[k]
  /\ UNCHANGED <<callVars, clientVars, serverVars, connVars>>

\* A fresh client takes the saved session, as the tests do.
LoadSession(k) ==
  /\ pc[k] = "idle"
  /\ status[k] = 0
  /\ session[k] = None
  /\ disk # None
  /\ session' = [session EXCEPT ![k] = disk]
  /\ UNCHANGED <<callVars, status, hasher, sseq, secret, key, reader, at, reply,
                 disk, serverVars, connVars>>

\* The caller drops the call's future at an await.
Cancel(k) ==
  /\ pc[k] \in {"helloSent", "connecting", "requestSent"}
  /\ Fail(k, "cancelled")
  /\ UNCHANGED <<disk, serverVars, connVars>>

\* The client process dies at any point; the next one starts from Default.
ClientRestart(k) ==
  /\ Return(k, "none")
  /\ DropLocals(k)
  /\ status' = [status EXCEPT ![k] = 0]
  /\ session' = [session EXCEPT ![k] = None]
  /\ hasher' = [hasher EXCEPT ![k] = <<>>]
  /\ sseq' = [sseq EXCEPT ![k] = 0]
  /\ at' = [at EXCEPT ![k] = 0]
  /\ reply' = [reply EXCEPT ![k] = None]
  /\ UNCHANGED <<disk, serverVars, connVars>>

-----------------------------------------------------------------------------
(***************************************************************************)
(* MmtlsServer::handle_http_connection: what the task of connection c does *)
(* with a request it has read.  The map is locked once in each handler, so *)
(* building a response and touching the map is one step; writing the       *)
(* response is another.                                                    *)
(***************************************************************************)
Hello(c) == Head(request[c]).body

\* handle_ecdhe_short_link feeds its hasher the hello and then what it sends.
HashToServerHello(hello, n, e) == Append(<<hello>>, ServerHello(n, e))
HashToSignature(hello, n, e) ==
  Append(HashToServerHello(hello, n, e), Signature(n, e))
HashToTicket(hello, n, e) ==
  Append(HashToSignature(hello, n, e), NewSessionTicket(n))

\* Variant: the server derives the PSK after hashing the ticket.
IssuedPskAfterTicket(hello, n, e) ==
  HkdfExpand(Ecdh(hello.fresh, e), "PSK_ACCESS", HashToTicket(hello, n, e))

IssuedPsk(hello, n, e) ==
  HkdfExpand(Ecdh(hello.fresh, e), "PSK_ACCESS", HashToSignature(hello, n, e))

\* The four records of its response.
EcdheRecords(hello, n, e) ==
  LET com == Ecdh(hello.fresh, e)
      out == TrafficKey56(com, "handshake key expansion",
                          HashToServerHello(hello, n, e)).server
  IN  << Clear(ServerHello(n, e)),
         Seal(Signature(n, e), out, 1),
         Seal(NewSessionTicket(n), out, 2),
         Seal(Finish("server finished", com, HashToTicket(hello, n, e)), out, 3) >>

IssueTicket(c) ==
  /\ stage[c] = "sent"
  /\ Hello(c).msg = "ecdheHello"
  /\ stage' = [stage EXCEPT ![c] = "built"]
  /\ served' = [served EXCEPT ![c] = epoch]
  /\ response' = [response EXCEPT ![c] = EcdheRecords(Hello(c), c, epoch)]
  /\ sessions' = [sessions EXCEPT ![c] = IssuedPsk(Hello(c), c, epoch)]
  /\ UNCHANGED <<callVars, clientVars, disk, epoch, opened, request>>

\* handle_psk_short_link: the session is known and every record opens.
Acceptable(records, psk) ==
  LET early == TrafficKey28(psk, "early data key expansion",
                            <<records[1].body>>).client
  IN  /\ psk # None
      /\ Len(records) = 4
      /\ \A i \in 2..4 : Opens(records[i], early, i - 1)

\* Variant: the response key derived before ServerHello is hashed.
PskRecordsTooEarly(records, psk, n, e) ==
  LET h   == Append(<<records[1].body>>, records[2].body)
      out == ToServerHalf(TrafficKey28(psk, "handshake key expansion", h)).server
      echo == [records[3].body EXCEPT !.msg = "response"]
  IN  << Clear(ServerHello(n, e)),
         Seal(Finish("server finished", psk, Append(h, ServerHello(n, e))), out, 1),
         Seal(echo, out, 2),
         Seal(Abort, out, 3) >>

PskRecords(records, psk, n, e) ==
  LET h   == Append(Append(<<records[1].body>>, records[2].body),
                    ServerHello(n, e))
      out == ToServerHalf(TrafficKey28(psk, "handshake key expansion", h)).server
      echo == [records[3].body EXCEPT !.msg = "response"]
  IN  << Clear(ServerHello(n, e)),
         Seal(Finish("server finished", psk, h), out, 1),
         Seal(echo, out, 2),
         Seal(Abort, out, 3) >>

\* Variant: a ticket is taken out of the map by its first use.
AnswerRequestOnce(c) ==
  /\ stage[c] = "sent"
  /\ Hello(c).msg = "pskHello"
  /\ Acceptable(request[c], sessions[Hello(c).ref])
  /\ stage' = [stage EXCEPT ![c] = "built"]
  /\ served' = [served EXCEPT ![c] = epoch]
  /\ response' = [response EXCEPT
       ![c] = PskRecords(request[c], sessions[Hello(c).ref], c, epoch)]
  /\ sessions' = [sessions EXCEPT ![Hello(c).ref] = None]
  /\ UNCHANGED <<callVars, clientVars, disk, epoch, opened, request>>

AnswerRequest(c) ==
  /\ stage[c] = "sent"
  /\ Hello(c).msg = "pskHello"
  /\ Acceptable(request[c], sessions[Hello(c).ref])
  /\ stage' = [stage EXCEPT ![c] = "built"]
  /\ served' = [served EXCEPT ![c] = epoch]
  /\ response' = [response EXCEPT
       ![c] = PskRecords(request[c], sessions[Hello(c).ref], c, epoch)]
  /\ UNCHANGED <<callVars, clientVars, disk, serverVars, opened, request>>

\* Variant: an error leaves the connection open.
RefuseRequestSilently(c) ==
  /\ stage[c] = "sent"
  /\ Hello(c).msg = "pskHello"
  /\ ~ Acceptable(request[c], sessions[Hello(c).ref])
  /\ served' = [served EXCEPT ![c] = epoch]
  /\ UNCHANGED <<callVars, clientVars, disk, serverVars, opened, stage, request,
                 response>>

\* An error drops the connection.
RefuseRequest(c) ==
  /\ stage[c] = "sent"
  /\ Hello(c).msg = "pskHello"
  /\ ~ Acceptable(request[c], sessions[Hello(c).ref])
  /\ stage' = [stage EXCEPT ![c] = "refused"]
  /\ served' = [served EXCEPT ![c] = epoch]
  /\ UNCHANGED <<callVars, clientVars, disk, serverVars, opened, request, response>>

Respond(c) ==
  /\ stage[c] = "built"
  /\ stage' = [stage EXCEPT ![c] = "replied"]
  /\ UNCHANGED <<callVars, clientVars, disk, serverVars, opened, request, response,
                 served>>

\* The connection breaks before the client has read the response.
Lose(c) ==
  /\ stage[c] \in {"sent", "built", "replied"}
  /\ stage' = [stage EXCEPT ![c] = "lost"]
  /\ UNCHANGED <<callVars, clientVars, disk, serverVars, opened, request, response,
                 served>>

\* The server process dies with its tasks; the next one has new keys and an
\* empty map.
ServerRestart ==
  /\ epoch < MaxEpochs
  /\ epoch' = epoch + 1
  /\ sessions' = [t \in Conns |-> None]
  /\ stage' = [c \in Conns |->
                 IF stage[c] \in {"sent", "built"} THEN "lost" ELSE stage[c]]
  /\ UNCHANGED <<callVars, clientVars, disk, opened, request, response, served>>

-----------------------------------------------------------------------------
ClientStep(k) ==
  \/ SendRequest(k) \/ ReceiveResponse(k) \/ ReceiveFails(k)
  \/ ReadServerHello(k) \/ ReadSignature(k) \/ ReadTicket(k) \/ ReadFinish(k)
  \/ ReadPskHello(k) \/ ReadPskFinish(k) \/ ReadData(k) \/ ReadAbort(k)

CallerStep(k) ==
  \/ HandshakeAgain(k)
  \/ \E api \in {"handshake", "request"} : StartHandshake(k, api)
  \/ StartRequest(k)
  \/ SaveSession(k) \/ LoadSession(k)

ClientFault(k) == ConnectRefused(k) \/ Cancel(k) \/ ClientRestart(k)

ServerStep(c) ==
  IssueTicket(c) \/ AnswerRequest(c) \/ RefuseRequest(c) \/ Respond(c)

Next ==
  \/ \E k \in Clients : ClientStep(k) \/ CallerStep(k) \/ ClientFault(k)
  \/ \E c \in Conns : ServerStep(c) \/ Lose(c)
  \/ ServerRestart

\* The runtime polls every task that can make progress; connecting ends one
\* way or the other.  Nothing says that a caller calls or that a fault occurs.
Fairness ==
  /\ \A k \in Clients : WF_vars(ClientStep(k) \/ ConnectRefused(k))
  /\ \A c \in Conns : WF_vars(ServerStep(c))

Spec == Init /\ [][Next]_vars /\ Fairness

-----------------------------------------------------------------------------
(* Types.                                                                   *)

Places == {"idle", "helloSent", "serverHello", "signature", "ticket", "finish",
           "connecting", "requestSent", "pskHello", "pskFinish", "data", "abort"}

TypeOK ==
  /\ call \in [Clients -> {"none", "handshake", "request"}]
  /\ pc \in [Clients -> Places]
  /\ outcome \in [Clients -> {"none", "handshaken", "answered", "io", "protocol",
                             "unverified", "cancelled"}]
  /\ status \in [Clients -> {0, 1}]
  /\ session \in [Clients -> Sessions \cup {None}]
  /\ hasher \in [Clients -> Transcripts]
  /\ sseq \in [Clients -> 0..4]
  /\ secret \in [Clients -> ComKeys \cup {None}]
  /\ key \in [Clients -> KeyPairs \cup {None}]
  /\ reader \in [Clients -> 0..4]
  /\ at \in [Clients -> 0..MaxConns]
  /\ reply \in [Clients -> Messages \cup {None}]
  /\ disk \in Sessions \cup {None}
  /\ epoch \in Epochs
  /\ sessions \in [Conns -> Psks \cup {None}]
  /\ opened \in 0..MaxConns
  /\ stage \in [Conns -> {"unused", "sent", "built", "replied", "refused", "lost",
                         "done"}]
  /\ request \in [Conns -> Seq(Records)]
  /\ response \in [Conns -> Seq(Records)]
  /\ served \in [Conns -> 0..MaxEpochs]

-----------------------------------------------------------------------------
(* Safety.                                                                  *)

\* The sessions somebody can present a ticket of.
Held == ({session[k] : k \in Clients} \cup {disk}) \ {None}

\* A ticket a client or the session file holds is honoured, with the very key
\* that goes with it, for as long as the server process that issued it lives,
\* and is unknown to any later one: handle_ecdhe_short_link stores a session
\* before it hands the ticket out, and both sides derive psk_access over the
\* same transcript, whatever is saved, loaded, lost or restarted in between.
TicketHonoured ==
  \A s \in Held :
    sessions[s.ticket] = IF s.psk.secret.server = epoch THEN s.psk ELSE None

\* handle_psk_short_link turns an honest request away only because the ticket
\* was issued by an earlier server process: never because a record fails to
\* open, and never because the ticket was used before or by somebody else.
RefusedOnlyAfterRestart ==
  \A c \in Conns :
    stage[c] = "refused" => served[Hello(c).ref] < served[c]

\* Neither handshake() nor request() ever fails on what an honest server sent:
\* every record opens in order and ServerFinish matches, however calls were
\* cancelled, repeated or interleaved before (reset() and the two sequence
\* numbers, the three orders of hashing and deriving).
HonestPeersAgree == \A k \in Clients : outcome[k] # "protocol"

\* Sealed records, by connection, who wrote them and where.
Written(p) == IF p[2] = "request" THEN request[p[1]] ELSE response[p[1]]
RecordAt(p) == Written(p)[p[3]]

Sealed ==
  {p \in Conns \X {"request", "response"} \X (1..4) :
     p[3] \in DOMAIN Written(p) /\ RecordAt(p).key # None}

\* No AES-GCM key and nonce ever seal two records, over all connections, both
\* directions, repeated use of one ticket and server restarts.
NoNonceReuse ==
  \A p, q \in Sealed :
    /\ RecordAt(p).seq = RecordAt(q).seq
    /\ RecordAt(p).key = RecordAt(q).key
    => p = q

\* A client past StartRequest holds a session, so neither pack_http nor the
\* unwraps of request() can find none; completing a handshake leaves one.
SessionAtHand ==
  \A k \in Clients :
    /\ status[k] = 1 => session[k] # None
    /\ pc[k] \in {"connecting", "requestSent", "pskHello", "pskFinish", "data",
                  "abort"} => session[k] # None

-----------------------------------------------------------------------------
(* Steps.                                                                   *)

\* A client that completed a handshake keeps that session until its process
\* ends: handshake() returns early, so nothing can swap the session under a
\* request or replace one a server still honours.
SessionFixedAfterHandshake ==
  [][\A k \in Clients :
       status[k] = 1 /\ status'[k] = 1 => session'[k] = session[k]]_vars

-----------------------------------------------------------------------------
(* Liveness.                                                                *)

\* Every call returns: the server answers or drops each connection it reads,
\* and a client waiting on a connection sees either.
CallsReturn == \A k \in Clients : pc[k] # "idle" ~> pc[k] = "idle"

-----------------------------------------------------------------------------
(* The short link is a request-reply service.                               *)

IsRequest(c) == request[c] # <<>> /\ Hello(c).msg = "pskHello"

\* The request a reply echoes; a call that returns no data echoes one that
\* nobody made.
EchoOf(m) == IF m = None THEN Fresh ELSE m.fresh

Asked == {c \in Conns : IsRequest(c)}
Handled == {c \in Conns : IsRequest(c) /\ response[c] # <<>>}

AskingPlaces == {"requestSent", "pskHello", "pskFinish", "data", "abort"}
Question == [k \in Clients |-> IF pc[k] \in AskingPlaces THEN at[k] ELSE 0]

Answer == [k \in Clients |-> IF pc[k] = "idle" /\ outcome[k] = "answered"
                            THEN EchoOf(reply[k]) ELSE 0]

Service == INSTANCE RequestReply WITH
  Callers <- Clients, Questions <- Conns,
  asked <- Asked, handled <- Handled, question <- Question, answer <- Answer

\* request() returns the echo of the request made in that very call, once the
\* server has handled it and at most once per request, or an error; and it
\* returns.
ImplementsRequestReply == Service!Spec
=============================================================================
