------------------------------ MODULE LongLink ------------------------------
(***************************************************************************)
(* The long link: MmtlsClient keeping one TCP connection to MmtlsServer's  *)
(* handle_raw_connection, for a handshake and a noop (mmtls.rs,            *)
(* server.rs).                                                             *)
(*                                                                         *)
(* A client runs one API call at a time.  Its TcpStream outlives a call    *)
(* that fails or is dropped at an await: the next handshake() takes it up  *)
(* again.  The task of a connection runs on its own; the two ends see each *)
(* other through two byte streams, read record by record.  The records the *)
(* client writes fit a socket buffer, so a write ends at once: all of it   *)
(* is sent or it fails.  The server hands out one ticket, so               *)
(* handshake()'s branch for a session with a second one is not taken.      *)
(***************************************************************************)
EXTENDS MmtlsCrypto

CONSTANTS Clients,      \* client processes
          Verifying,    \* those that leave verify_ecdsa at its default, true
          MaxConns,     \* bound: TCP connections opened in a behaviour
          MaxHellos,    \* bound: ClientHellos drawn in a behaviour
          MaxSeq,       \* bound: noops are sent while client_seq_num, 2 at first, is below
          MaxEpochs     \* bound: server processes started in a behaviour

ASSUME LongLinkAssumption ==
  /\ Verifying \subseteq Clients
  /\ MaxConns \in Nat
  /\ MaxHellos \in Nat
  /\ MaxSeq \in Nat \ {0}
  /\ MaxEpochs \in Nat \ {0}

VARIABLES
  \* MmtlsClient and the locals of its call in progress
  pc,        \* "idle", or what the call in progress waits for or does next
  outcome,   \* how the latest call returned
  conn,      \* the connection held, 0 for None
  status,    \* 1 once a handshake completed
  session,   \* the session: its ticket, psk_access and app_key
  hasher,    \* handshake_hasher
  cseq,      \* client_seq_num
  sseq,      \* server_seq_num
  secret,    \* com_key, while a handshake runs
  key,       \* traffic_key, while a handshake runs
  \* the streams
  opened,    \* connections opened so far
  hellos,    \* ClientHellos drawn so far
  up,        \* records the client wrote on each connection
  down,      \* records the server wrote on each connection
  upRead,    \* how many of them the server has read
  downRead,  \* how many of them the client has read
  broken,    \* connections the network has cut
  torn,      \* connections a dropped call left in the middle of a record
  \* MmtlsServer
  epoch,     \* which server process is running; names its key pair
  sessions,  \* the sessions map: ticket id to psk_access
  task,      \* where the task of each connection stands
  thash      \* the hasher of each task

callVars   == <<pc, outcome>>
clientVars == <<conn, status, session, hasher, cseq, sseq, secret, key>>
drawn      == <<opened, hellos>>
streams    == <<up, down, upRead, downRead, broken, torn>>
serverVars == <<epoch, sessions>>
taskVars   == <<task, thash>>
vars == <<callVars, clientVars, drawn, streams, serverVars, taskVars>>

Conns  == 1..MaxConns
Epochs == 1..MaxEpochs

Sessions == [ticket: Conns, psk: Psks, app: KeyPairs \cup {None}]

-----------------------------------------------------------------------------
Init ==
  /\ pc = [k \in Clients |-> "idle"]
  /\ outcome = [k \in Clients |-> "none"]
  /\ conn = [k \in Clients |-> 0]
  /\ status = [k \in Clients |-> 0]
  /\ session = [k \in Clients |-> None]
  /\ hasher = [k \in Clients |-> <<>>]
  /\ cseq = [k \in Clients |-> 0]
  /\ sseq = [k \in Clients |-> 0]
  /\ secret = [k \in Clients |-> None]
  /\ key = [k \in Clients |-> None]
  /\ opened = 0
  /\ hellos = 0
  /\ up = [c \in Conns |-> <<>>]
  /\ down = [c \in Conns |-> <<>>]
  /\ upRead = [c \in Conns |-> 0]
  /\ downRead = [c \in Conns |-> 0]
  /\ broken = {}
  /\ torn = {}
  /\ epoch = 1
  /\ sessions = [t \in Conns |-> None]
  /\ task = [c \in Conns |-> "none"]
  /\ thash = [c \in Conns |-> <<>>]

-----------------------------------------------------------------------------
(* Connections.                                                             *)

Held(c) == \E k \in Clients : conn[k] = c
Running(c) == task[c] \notin {"none", "done", "rejected", "failed"}

\* A record waits for its reader.
UpHasNext(c)   == upRead[c] < Len(up[c])
DownHasNext(c) == downRead[c] < Len(down[c])

UpNext(c)   == up[c][upRead[c] + 1]
DownNext(c) == down[c][downRead[c] + 1]

ReadUp(c)   == upRead' = [upRead EXCEPT ![c] = @ + 1]
ReadDown(c) == downRead' = [downRead EXCEPT ![c] = @ + 1]

\* The connection a handshake runs on: the one held, or else a new one.
Link(k) == IF conn[k] = 0 THEN opened + 1 ELSE conn[k]

Connect(k) ==
  /\ Link(k) \in Conns
  /\ conn' = [conn EXCEPT ![k] = Link(k)]
  /\ opened' = IF conn[k] = 0 THEN opened + 1 ELSE opened
  /\ task' = IF conn[k] = 0 THEN [task EXCEPT ![Link(k)] = "hello"] ELSE task

-----------------------------------------------------------------------------
(* How a call ends.  Its locals go out of scope; the struct's fields stay.  *)

Return(k, result) ==
  /\ pc' = [pc EXCEPT ![k] = "idle"]
  /\ outcome' = [outcome EXCEPT ![k] = result]

DropLocals(k) ==
  /\ secret' = [secret EXCEPT ![k] = None]
  /\ key' = [key EXCEPT ![k] = None]

Goto(k, place) ==
  /\ pc' = [pc EXCEPT ![k] = place]
  /\ UNCHANGED outcome

\* An early return with an error: nothing else of the struct changes.
Fail(k, why) ==
  /\ Return(k, why)
  /\ DropLocals(k)
  /\ UNCHANGED <<conn, status, session, hasher, cseq, sseq>>

-----------------------------------------------------------------------------
(***************************************************************************)
(* MmtlsClient::handshake.                                                 *)
(***************************************************************************)
HandshakeAgain(k) ==
  /\ pc[k] = "idle"
  /\ conn[k] # 0
  /\ status[k] = 1
  /\ Return(k, "handshaken")
  /\ UNCHANGED <<clientVars, drawn, streams, serverVars, taskVars>>

\* The connection is replaced before the early return.
Reconnect(k) ==
  /\ pc[k] = "idle"
  /\ conn[k] = 0
  /\ status[k] = 1
  /\ Connect(k)
  /\ Return(k, "handshaken")
  /\ UNCHANGED <<status, session, hasher, cseq, sseq, secret, key, hellos,
                 streams, serverVars, thash>>

\* Variant: the ephemeral keys and the hello drawn once for the struct's life.
NextHelloOnce(k) ==
  IF hasher[k] = <<>> THEN EcdheHello(hellos + 1) ELSE Head(hasher[k])

NextHello(k) == EcdheHello(hellos + 1)

\* Variant: reset() without a new hasher.
DrawHelloKeepingHash(k) ==
  /\ pc[k] = "idle"
  /\ status[k] = 0
  /\ hellos < MaxHellos
  /\ Connect(k)
  /\ hellos' = hellos + 1
  /\ hasher' = [hasher EXCEPT ![k] = Append(@, NextHello(k))]
  /\ sseq' = [sseq EXCEPT ![k] = 0]
  /\ UNCHANGED <<status, session, secret, key, down, upRead, downRead, broken,
                 torn, serverVars, thash>>

\* Connect unless connected, reset(), draw and hash a ClientHello.
DrawHello(k) ==
  /\ pc[k] = "idle"
  /\ status[k] = 0
  /\ hellos < MaxHellos
  /\ Connect(k)
  /\ hellos' = hellos + 1
  /\ hasher' = [hasher EXCEPT ![k] = <<NextHello(k)>>]
  /\ sseq' = [sseq EXCEPT ![k] = 0]
  /\ UNCHANGED <<status, session, secret, key, down, upRead, downRead, broken,
                 torn, serverVars, thash>>

StartHandshake(k) ==
  /\ DrawHello(k)
  /\ Link(k) \notin broken
  /\ up' = [up EXCEPT ![Link(k)] = Append(@, Clear(NextHello(k)))]
  /\ cseq' = [cseq EXCEPT ![k] = 1]
  /\ Goto(k, "serverHello")

\* A connection left over from an earlier call may be gone.
HelloFails(k) ==
  /\ DrawHello(k)
  /\ conn[k] # 0
  /\ conn[k] \in broken \/ ~ Running(conn[k])
  /\ cseq' = [cseq EXCEPT ![k] = 0]
  /\ Return(k, "io")
  /\ UNCHANGED up

ConnectFails(k) ==
  /\ pc[k] = "idle"
  /\ conn[k] = 0
  /\ Return(k, "io")
  /\ UNCHANGED <<clientVars, drawn, streams, serverVars, taskVars>>

\* The client takes the next record of its connection.
TakeRecord(k) ==
  /\ conn[k] \notin torn
  /\ DownHasNext(conn[k])
  /\ ReadDown(conn[k])
  /\ UNCHANGED <<drawn, up, down, upRead, broken, torn, serverVars, taskVars>>

NextBody(k) == DownNext(conn[k]).body
NextOpens(k) == Opens(DownNext(conn[k]), key[k].server, sseq[k])

\* The code has hashed and counted a record that is no ServerHello before it fails;
\* reset() starts both over before anything reads them.
ReadServerHello(k) ==
  /\ pc[k] = "serverHello"
  /\ TakeRecord(k)
  /\ IF DownNext(conn[k]).key = None
     THEN LET h   == Append(hasher[k], NextBody(k))
              com == Ecdh(Head(hasher[k]).fresh, NextBody(k).ref)
          IN  /\ Goto(k, "signature")
              /\ hasher' = [hasher EXCEPT ![k] = h]
              /\ sseq' = [sseq EXCEPT ![k] = @ + 1]
              /\ secret' = [secret EXCEPT ![k] = com]
              /\ key' = [key EXCEPT
                           ![k] = TrafficKey56(com, "handshake key expansion", h)]
              /\ UNCHANGED <<conn, status, session, cseq>>
     ELSE Fail(k, "protocol")

ReadSignature(k) ==
  /\ pc[k] = "signature"
  /\ TakeRecord(k)
  /\ IF NextOpens(k) /\ (k \in Verifying => VerifyEcdsa(NextBody(k)))
     THEN /\ Goto(k, "ticket")
          /\ hasher' = [hasher EXCEPT ![k] = Append(@, NextBody(k))]
          /\ sseq' = [sseq EXCEPT ![k] = @ + 1]
          /\ UNCHANGED <<conn, status, session, cseq, secret, key>>
     ELSE Fail(k, IF NextOpens(k) THEN "unverified" ELSE "protocol")

\* The session is replaced here, before ServerFinish is checked.
ReadTicket(k) ==
  /\ pc[k] = "ticket"
  /\ TakeRecord(k)
  /\ IF NextOpens(k)
     THEN /\ Goto(k, "serverFinish")
          /\ session' = [session EXCEPT
               ![k] = [ticket |-> NextBody(k).fresh,
                       psk |-> HkdfExpand(secret[k], "PSK_ACCESS", hasher[k]),
                       app |-> None]]
          /\ hasher' = [hasher EXCEPT ![k] = Append(@, NextBody(k))]
          /\ sseq' = [sseq EXCEPT ![k] = @ + 1]
          /\ UNCHANGED <<conn, status, cseq, secret, key>>
     ELSE Fail(k, "protocol")

\* Variant: ServerFinish is hashed too.
ReadServerFinishHashed(k) ==
  /\ pc[k] = "serverFinish"
  /\ TakeRecord(k)
  /\ IF /\ NextOpens(k)
        /\ NextBody(k) = Finish("server finished", secret[k], hasher[k])
     THEN /\ Goto(k, "clientFinish")
          /\ hasher' = [hasher EXCEPT ![k] = Append(@, NextBody(k))]
          /\ sseq' = [sseq EXCEPT ![k] = @ + 1]
          /\ UNCHANGED <<conn, status, session, cseq, secret, key>>
     ELSE Fail(k, "protocol")

ReadServerFinish(k) ==
  /\ pc[k] = "serverFinish"
  /\ TakeRecord(k)
  /\ IF /\ NextOpens(k)
        /\ NextBody(k) = Finish("server finished", secret[k], hasher[k])
     THEN /\ Goto(k, "clientFinish")
          /\ sseq' = [sseq EXCEPT ![k] = @ + 1]
          /\ UNCHANGED <<conn, status, session, hasher, cseq, secret, key>>
     ELSE Fail(k, "protocol")

\* What both ends derive once the handshake is over.
AppKey(com, hash) ==
  TrafficKey56(HkdfExpand(com, "expanded secret", hash),
               "application data key expansion", hash)

\* No await follows the write: the app key and the status are set with it.
SendClientFinish(k) ==
  /\ pc[k] = "clientFinish"
  /\ conn[k] \notin broken
  /\ up' = [up EXCEPT ![conn[k]] =
              Append(@, Seal(Finish("client finished", secret[k], hasher[k]),
                             key[k].client, cseq[k]))]
  /\ cseq' = [cseq EXCEPT ![k] = @ + 1]
  /\ session' = [session EXCEPT ![k].app = AppKey(secret[k], hasher[k])]
  /\ status' = [status EXCEPT ![k] = 1]
  /\ Return(k, "handshaken")
  /\ DropLocals(k)
  /\ UNCHANGED <<conn, hasher, sseq, drawn, down, upRead, downRead, broken, torn,
                 serverVars, taskVars>>

ClientFinishFails(k) ==
  /\ pc[k] = "clientFinish"
  /\ conn[k] \in broken \/ ~ Running(conn[k])
  /\ Fail(k, "io")
  /\ UNCHANGED <<drawn, streams, serverVars, taskVars>>

-----------------------------------------------------------------------------
(***************************************************************************)
(* MmtlsClient::noop and close.                                            *)
(***************************************************************************)
HasAppKey(k) == session[k] # None /\ session[k].app # None

NoopUnready(k) ==
  /\ pc[k] = "idle"
  /\ ~ HasAppKey(k)
  /\ Return(k, "unready")
  /\ UNCHANGED <<clientVars, drawn, streams, serverVars, taskVars>>

\* Variant: client_seq_num counts noops answered, not noops sent.
StartNoopUncounted(k) ==
  /\ pc[k] = "idle"
  /\ HasAppKey(k)
  /\ conn[k] # 0 /\ conn[k] \notin broken
  /\ cseq[k] < MaxSeq
  /\ up' = [up EXCEPT ![conn[k]] =
              Append(@, Seal(Message("noopRequest", 0, 0), session[k].app.client,
                             cseq[k]))]
  /\ Goto(k, "noop")
  /\ UNCHANGED <<clientVars, drawn, down, upRead, downRead, broken, torn,
                 serverVars, taskVars>>

StartNoop(k) ==
  /\ pc[k] = "idle"
  /\ HasAppKey(k)
  /\ conn[k] # 0 /\ conn[k] \notin broken
  /\ cseq[k] < MaxSeq
  /\ up' = [up EXCEPT ![conn[k]] =
              Append(@, Seal(Message("noopRequest", 0, 0), session[k].app.client,
                             cseq[k]))]
  /\ cseq' = [cseq EXCEPT ![k] = @ + 1]
  /\ Goto(k, "noop")
  /\ UNCHANGED <<conn, status, session, hasher, sseq, secret, key, drawn, down,
                 upRead, downRead, broken, torn, serverVars, taskVars>>

\* Without a connection send_noop writes nothing but counts, and read_noop fails.
NoopUnconnected(k) ==
  /\ pc[k] = "idle"
  /\ HasAppKey(k)
  /\ conn[k] = 0
  /\ cseq[k] < MaxSeq
  /\ cseq' = [cseq EXCEPT ![k] = @ + 1]
  /\ Return(k, "unready")
  /\ UNCHANGED <<conn, status, session, hasher, sseq, secret, key, drawn, streams,
                 serverVars, taskVars>>

NoopFails(k) ==
  /\ pc[k] = "idle"
  /\ HasAppKey(k)
  /\ conn[k] # 0
  /\ conn[k] \in broken \/ ~ Running(conn[k])
  /\ Return(k, "io")
  /\ UNCHANGED <<clientVars, drawn, streams, serverVars, taskVars>>

ReadNoop(k) ==
  /\ pc[k] = "noop"
  /\ TakeRecord(k)
  /\ IF /\ Opens(DownNext(conn[k]), session[k].app.server, sseq[k])
        /\ NextBody(k).msg = "noopResponse"
     THEN /\ Return(k, "alive")
          /\ sseq' = [sseq EXCEPT ![k] = @ + 1]
          /\ UNCHANGED <<conn, status, session, hasher, cseq, secret, key>>
     ELSE Fail(k, "protocol")

\* status, session and sequence numbers outlive the connection.
Close(k) ==
  /\ pc[k] = "idle"
  /\ conn[k] # 0
  /\ conn' = [conn EXCEPT ![k] = 0]
  /\ UNCHANGED <<callVars, status, session, hasher, cseq, sseq, secret, key, drawn,
                 streams, serverVars, taskVars>>

-----------------------------------------------------------------------------
(* What can cut a call short.                                               *)

Reading == {"serverHello", "signature", "ticket", "serverFinish", "noop"}

\* Variant: the end of the stream passes for an answer.
ReadFailsQuietly(k) ==
  /\ pc[k] \in Reading
  /\ \/ conn[k] \in broken
     \/ ~ Running(conn[k]) /\ (conn[k] \in torn \/ ~ DownHasNext(conn[k]))
  /\ Fail(k, IF pc[k] = "noop" THEN "alive" ELSE "io")
  /\ UNCHANGED <<drawn, streams, serverVars, taskVars>>

\* read_record meets the end of the stream, or a connection cut by the network.
ReadFails(k) ==
  /\ pc[k] \in Reading
  /\ \/ conn[k] \in broken
     \/ ~ Running(conn[k]) /\ (conn[k] \in torn \/ ~ DownHasNext(conn[k]))
  /\ Fail(k, "io")
  /\ UNCHANGED <<drawn, streams, serverVars, taskVars>>

\* Bytes from the middle of a record pass for a header, and whatever they ask
\* for has arrived; if it has not, the call goes on waiting.
ReadGarbage(k) ==
  /\ pc[k] \in Reading
  /\ conn[k] \in torn
  /\ Fail(k, "protocol")
  /\ UNCHANGED <<drawn, streams, serverVars, taskVars>>

\* The caller drops the call's future at an await: between two records, or
\* with a part of one read.
Cancel(k) ==
  /\ pc[k] \in Reading
  /\ Fail(k, "cancelled")
  /\ \/ UNCHANGED torn
     \/ DownHasNext(conn[k]) /\ torn' = torn \cup {conn[k]}
  /\ UNCHANGED <<drawn, up, down, upRead, downRead, broken, serverVars, taskVars>>

\* The client process dies at any point; the next one starts from Default.
ClientRestart(k) ==
  /\ Return(k, "none")
  /\ DropLocals(k)
  /\ conn' = [conn EXCEPT ![k] = 0]
  /\ status' = [status EXCEPT ![k] = 0]
  /\ session' = [session EXCEPT ![k] = None]
  /\ hasher' = [hasher EXCEPT ![k] = <<>>]
  /\ cseq' = [cseq EXCEPT ![k] = 0]
  /\ sseq' = [sseq EXCEPT ![k] = 0]
  /\ UNCHANGED <<drawn, streams, serverVars, taskVars>>

Break(c) ==
  /\ c \in 1..opened \ broken
  /\ Held(c) \/ Running(c)
  /\ broken' = broken \cup {c}
  /\ UNCHANGED <<callVars, clientVars, drawn, up, down, upRead, downRead, torn,
                 serverVars, taskVars>>

-----------------------------------------------------------------------------
(***************************************************************************)
(* MmtlsServer::handle_raw_connection: the task of connection c.           *)
(* server_seq counts the records it read, client_seq those it wrote.       *)
(***************************************************************************)
SecretOf(c) == Ecdh(thash[c][1].fresh, thash[c][2].ref)
TrafficKeyOf(c) ==
  TrafficKey56(SecretOf(c), "handshake key expansion", SubSeq(thash[c], 1, 2))
PskOf(c) == HkdfExpand(SecretOf(c), "PSK_ACCESS", SubSeq(thash[c], 1, 3))
AppKeyOf(c) == AppKey(SecretOf(c), thash[c])

\* The task goes on to another place.
Reach(c, place) == task' = [task EXCEPT ![c] = place]

Send(c, record) ==
  /\ c \notin broken
  /\ down' = [down EXCEPT ![c] = Append(@, record)]
  /\ UNCHANGED <<callVars, clientVars, drawn, up, upRead, downRead, broken, torn>>

\* Variant: client_seq leaves out the clear ServerHello.
SendSealedFromZero(c, body, pair) ==
  Send(c, Seal(body, pair.server, Len(down[c]) - 1))

\* Seal a body under a key, with client_seq for sequence number, and send it.
SendSealed(c, body, pair) == Send(c, Seal(body, pair.server, Len(down[c])))

TakeUp(c) ==
  /\ UpHasNext(c)
  /\ ReadUp(c)
  /\ UNCHANGED <<callVars, clientVars, drawn, up, down, downRead, broken, torn,
                 serverVars>>

\* Variant: a record that is no ClientHello is skipped.
ReadClientHelloPatiently(c) ==
  /\ task[c] = "hello"
  /\ TakeUp(c)
  /\ IF UpNext(c).key = None
     THEN /\ Reach(c, "serverHello")
          /\ thash' = [thash EXCEPT ![c] = <<UpNext(c).body>>]
     ELSE UNCHANGED taskVars

ReadClientHello(c) ==
  /\ task[c] = "hello"
  /\ TakeUp(c)
  /\ IF UpNext(c).key = None
     THEN /\ Reach(c, "serverHello")
          /\ thash' = [thash EXCEPT ![c] = <<UpNext(c).body>>]
     ELSE Reach(c, "rejected") /\ UNCHANGED thash

SendServerHello(c) ==
  /\ task[c] = "serverHello"
  /\ Send(c, Clear(ServerHello(c, epoch)))
  /\ thash' = [thash EXCEPT ![c] = Append(@, ServerHello(c, epoch))]
  /\ Reach(c, "signature")
  /\ UNCHANGED serverVars

SendSignature(c) ==
  /\ task[c] = "signature"
  /\ SendSealed(c, Signature(c, epoch), TrafficKeyOf(c))
  /\ thash' = [thash EXCEPT ![c] = Append(@, Signature(c, epoch))]
  /\ Reach(c, "ticket")
  /\ UNCHANGED serverVars

\* Variant: the session is not stored.
SendTicketUnstored(c) ==
  /\ task[c] = "ticket"
  /\ SendSealed(c, NewSessionTicket(c), TrafficKeyOf(c))
  /\ thash' = [thash EXCEPT ![c] = Append(@, NewSessionTicket(c))]
  /\ Reach(c, "serverFinish")
  /\ UNCHANGED serverVars

\* The ticket is on its way before the session is in the map.
SendTicket(c) ==
  /\ task[c] = "ticket"
  /\ SendSealed(c, NewSessionTicket(c), TrafficKeyOf(c))
  /\ thash' = [thash EXCEPT ![c] = Append(@, NewSessionTicket(c))]
  /\ Reach(c, "store")
  /\ UNCHANGED serverVars

StoreSession(c) ==
  /\ task[c] = "store"
  /\ sessions' = [sessions EXCEPT ![c] = PskOf(c)]
  /\ Reach(c, "serverFinish")
  /\ UNCHANGED <<callVars, clientVars, drawn, streams, epoch, thash>>

SendServerFinish(c) ==
  /\ task[c] = "serverFinish"
  /\ SendSealed(c, Finish("server finished", SecretOf(c), thash[c]),
                TrafficKeyOf(c))
  /\ Reach(c, "clientFinish")
  /\ UNCHANGED <<serverVars, thash>>

\* Variant: a record that is no ClientFinish is skipped.
ReadClientFinishPatiently(c) ==
  /\ task[c] = "clientFinish"
  /\ TakeUp(c)
  /\ IF /\ Opens(UpNext(c), TrafficKeyOf(c).client, upRead[c])
        /\ UpNext(c).body = Finish("client finished", SecretOf(c), thash[c])
     THEN Reach(c, "noop")
     ELSE UNCHANGED task
  /\ UNCHANGED thash

\* Variant: any record passes for a ClientFinish.
ReadClientFinishUnchecked(c) ==
  /\ task[c] = "clientFinish"
  /\ TakeUp(c)
  /\ Reach(c, "noop")
  /\ UNCHANGED thash

ReadClientFinish(c) ==
  /\ task[c] = "clientFinish"
  /\ TakeUp(c)
  /\ IF /\ Opens(UpNext(c), TrafficKeyOf(c).client, upRead[c])
        /\ UpNext(c).body = Finish("client finished", SecretOf(c), thash[c])
     THEN Reach(c, "noop")
     ELSE Reach(c, "rejected")
  /\ UNCHANGED thash

ReadNoopRequest(c) ==
  /\ task[c] = "noop"
  /\ TakeUp(c)
  /\ IF /\ Opens(UpNext(c), AppKeyOf(c).client, upRead[c])
        /\ UpNext(c).body.msg = "noopRequest"
     THEN Reach(c, "noopReply")
     ELSE Reach(c, "rejected")
  /\ UNCHANGED thash

SendNoopResponse(c) ==
  /\ task[c] = "noopReply"
  /\ SendSealed(c, Message("noopResponse", 0, 0), AppKeyOf(c))
  /\ Reach(c, "done")
  /\ UNCHANGED <<serverVars, thash>>

\* Variant: the end of the client's stream is not noticed.
TaskFailsIfCut(c) ==
  /\ Running(c) /\ task[c] # "store"
  /\ c \in broken
  /\ Reach(c, "failed")
  /\ UNCHANGED <<callVars, clientVars, drawn, streams, serverVars, thash>>

\* A read meets the end of the client's stream, a write a peer that is gone.
TaskFails(c) ==
  /\ Running(c) /\ task[c] # "store"
  /\ \/ c \in broken
     \/ /\ ~ Held(c)
        /\ task[c] \in {"hello", "clientFinish", "noop"} => ~ UpHasNext(c)
  /\ Reach(c, "failed")
  /\ UNCHANGED <<callVars, clientVars, drawn, streams, serverVars, thash>>

\* The server process dies with its tasks; the next one has new keys and an
\* empty map.
ServerRestart ==
  /\ epoch < MaxEpochs
  /\ epoch' = epoch + 1
  /\ sessions' = [t \in Conns |-> None]
  /\ task' = [c \in Conns |-> IF Running(c) THEN "failed" ELSE task[c]]
  /\ UNCHANGED <<callVars, clientVars, drawn, streams, thash>>

-----------------------------------------------------------------------------
\* What the runtime does for a call in progress.
ClientStep(k) ==
  \/ ReadServerHello(k) \/ ReadSignature(k) \/ ReadTicket(k)
  \/ ReadServerFinish(k) \/ SendClientFinish(k) \/ ClientFinishFails(k)
  \/ ReadNoop(k) \/ ReadFails(k)

CallerStep(k) ==
  \/ StartHandshake(k) \/ HandshakeAgain(k) \/ Reconnect(k)
  \/ StartNoop(k) \/ NoopUnready(k) \/ NoopUnconnected(k) \/ Close(k)

ClientFault(k) ==
  \/ ConnectFails(k) \/ HelloFails(k) \/ NoopFails(k) \/ ReadGarbage(k)
  \/ Cancel(k) \/ ClientRestart(k)

ServerStep(c) ==
  \/ ReadClientHello(c) \/ SendServerHello(c) \/ SendSignature(c)
  \/ SendTicket(c) \/ StoreSession(c) \/ SendServerFinish(c)
  \/ ReadClientFinish(c) \/ ReadNoopRequest(c) \/ SendNoopResponse(c)
  \/ TaskFails(c)

Next ==
  \/ \E k \in Clients : ClientStep(k) \/ CallerStep(k) \/ ClientFault(k)
  \/ \E c \in Conns : ServerStep(c) \/ Break(c)
  \/ ServerRestart

\* The runtime polls every task that can make progress.  Nothing says that a
\* caller calls, closes or cancels, nor that a fault occurs.
Fairness ==
  /\ \A k \in Clients : WF_vars(ClientStep(k))
  /\ \A c \in Conns : WF_vars(ServerStep(c))

Spec == Init /\ [][Next]_vars /\ Fairness

-----------------------------------------------------------------------------
(* Types.                                                                   *)

Places == {"idle", "serverHello", "signature", "ticket", "serverFinish",
           "clientFinish", "noop"}

Stages == {"none", "hello", "serverHello", "signature", "ticket", "store",
           "serverFinish", "clientFinish", "noop", "noopReply", "done",
           "rejected", "failed"}

TypeOK ==
  /\ pc \in [Clients -> Places]
  /\ outcome \in [Clients -> {"none", "handshaken", "alive", "unready", "io",
                             "protocol", "unverified", "cancelled"}]
  /\ conn \in [Clients -> 0..MaxConns]
  /\ status \in [Clients -> {0, 1}]
  /\ session \in [Clients -> Sessions \cup {None}]
  /\ hasher \in [Clients -> Transcripts]
  /\ \A k \in Clients : Len(hasher[k]) <= 4
  /\ cseq \in [Clients -> 0..MaxSeq + 1]
  /\ sseq \in [Clients -> 0..5]
  /\ secret \in [Clients -> ComKeys \cup {None}]
  /\ key \in [Clients -> KeyPairs \cup {None}]
  /\ opened \in 0..MaxConns
  /\ hellos \in 0..MaxHellos
  /\ up \in [Conns -> Seq(Records)]
  /\ down \in [Conns -> Seq(Records)]
  /\ upRead \in [Conns -> Nat]
  /\ downRead \in [Conns -> 0..5]
  /\ broken \subseteq Conns
  /\ torn \subseteq Conns
  /\ epoch \in Epochs
  /\ sessions \in [Conns -> Psks \cup {None}]
  /\ task \in [Conns -> Stages]
  /\ thash \in [Conns -> Transcripts]

-----------------------------------------------------------------------------
(* Safety.                                                                  *)

\* ClientHellos a connection carries: more than one if a later handshake()
\* took up the connection an earlier one had left.
HellosOn(c) == {i \in DOMAIN up[c] : up[c][i].key = None}
Reused(c) == \E i, j \in HellosOn(c) : i # j

FinishedOn(c) ==
  \E i \in DOMAIN up[c] : up[c][i].key # None /\ "mac" \in DOMAIN up[c][i].body

\* handshake() keeps the connection of a call that failed or was dropped and
\* starts over on it.  Whatever it reads there, of the old exchange or the
\* new one, neither end ever takes that for a completed handshake.
StaleConnectionNeverCompletes ==
  \A c \in Conns :
    Reused(c) => ~ FinishedOn(c) /\ task[c] \notin {"noop", "noopReply", "done"}

\* An application key a client holds is the one the server task that issued its
\* ticket derives, however calls were repeated, dropped or moved to another
\* connection.
AppKeysAgree ==
  \A k \in Clients : HasAppKey(k) => session[k].app = AppKeyOf(session[k].ticket)

\* A client that completed a handshake holds a ticket the server has stored
\* with the same psk_access (and forgets only with its process), although
\* handle_ecdhe_handshake sends the ticket before it stores the session.
TicketStoredOnceHandshaken ==
  \A k \in Clients :
    status[k] = 1 =>
      LET s == session[k]
      IN  sessions[s.ticket] = IF s.psk.secret.server = epoch THEN s.psk ELSE None

\* Client and server never take exception to each other's records, except on a
\* connection taken up by a second handshake(), on one whose handshake never
\* took place, or after a call was dropped in the middle of a record.
MismatchNeedsMisuse ==
  /\ \A k \in Clients :
       pc[k] = "idle" /\ outcome[k] = "protocol" /\ conn[k] # 0
         => Reused(conn[k]) \/ conn[k] \in torn
  /\ \A c \in Conns :
       task[c] = "rejected" => Reused(c) \/ 1 \notin HellosOn(c)

\* noop() returns Ok only for the one exchange the server makes on the
\* connection the handshake ran on; an answer left behind by a dropped noop()
\* may serve the next, never two of them.
AliveMeansAnswered ==
  \A k \in Clients :
    outcome[k] = "alive" => task[session[k].ticket] = "done" /\ sseq[k] = 5

\* What KeyAgreement sees of each end.  A key is offered with ServerFinish, and
\* adopted with ClientFinish; a client holds the key of a connection if its
\* application key is the one the task there derives.
Phase(c) ==
  CASE task[c] = "clientFinish"           -> "offered"
    [] task[c] \in {"noop", "noopReply"}  -> "serving"
    [] task[c] = "done"                   -> "answered"
    [] task[c] \in {"rejected", "failed"} -> "ended"
    [] OTHER                              -> "opening"

OfferedOn(c) == Len(down[c]) >= 4
KeysHeld(k) ==
  {c \in Conns : HasAppKey(k) /\ OfferedOn(c) /\ session[k].app = AppKeyOf(c)}

Phases  == [c \in Conns |-> Phase(c)]
Offered == {c \in Conns : OfferedOn(c)}
Spent   == {c \in Conns : FinishedOn(c)}
KeyHeld == [k \in Clients |-> KeysHeld(k)]
Heard   == [k \in Clients |-> HasAppKey(k) /\ sseq[k] = 5]
Alive   == [k \in Clients |-> outcome[k] = "alive"]

Agreement == INSTANCE KeyAgreement WITH
  Callers <- Clients, Links <- Conns, phase <- Phases, offered <- Offered,
  spent <- Spent, held <- KeyHeld, heard <- Heard, alive <- Alive

\* The long link implements KeyAgreement, whatever is retried on a connection left
\* behind, dropped, cut or restarted: each key is adopted by one client, after the
\* server offered it; the server serves nobody else; and noop() succeeds once.
ImplementsKeyAgreement == Agreement!Spec

\* Sealed records, by connection, who wrote them and where.
Written(p) == IF p[2] = "up" THEN up[p[1]] ELSE down[p[1]]
RecordAt(p) == Written(p)[p[3]]

Sealed ==
  {p \in Conns \X {"up", "down"} \X (1..MaxSeq + MaxHellos + 5) :
     p[3] \in DOMAIN Written(p) /\ RecordAt(p).key # None}

\* No AES-GCM key and nonce ever seal two records, although sequence numbers
\* and app key outlive a connection and handshakes start over on one.
NoNonceReuse ==
  \A p, q \in Sealed :
    /\ RecordAt(p).seq = RecordAt(q).seq
    /\ RecordAt(p).key = RecordAt(q).key
    => p = q

-----------------------------------------------------------------------------
(* Liveness.                                                                *)

\* Every call returns, unless an earlier call was dropped in the middle of a
\* record of the same connection: its rest may pass for the header of a record
\* that never comes.
CallsReturn ==
  \A k \in Clients : pc[k] # "idle" ~> pc[k] = "idle" \/ conn[k] \in torn

\* A task whose client let go of the connection ends.
TasksEnd == \A c \in Conns : Running(c) /\ ~ Held(c) ~> ~ Running(c)

-----------------------------------------------------------------------------
(* Claims the code does not keep.                                           *)

\* After handshake() returned Ok, noop() is accepted: the connection the client
\* then holds carries the ClientHello of a handshake.
HandshakeReachesServer ==
  \A k \in Clients :
    outcome[k] = "handshaken" /\ conn[k] # 0 => 1 \in HellosOn(conn[k])
=============================================================================
