--------------------------- MODULE ShortLinkProofs ---------------------------
(***************************************************************************)
(* Proofs about the short link, for every set of clients and every bound.  *)
(*                                                                         *)
(* The invariant says what each connection carries in full: the records of *)
(* request and response are the ones its number and the serving epoch      *)
(* determine.  What a client has hashed, derived and read so far is then   *)
(* a function of the connection it is at, and the sessions map is the set  *)
(* of tickets issued in this epoch.                                        *)
(***************************************************************************)
EXTENDS ShortLink, TLAPS

-----------------------------------------------------------------------------
(* The inductive invariant.                                                 *)

EcdheRequest(c) == <<Clear(EcdheHello(c))>>

\* Connection t carried a handshake that the server answered.
Issued(t) ==
  /\ t \in Conns
  /\ served[t] \in 1..epoch
  /\ request[t] = EcdheRequest(t)
  /\ response[t] = EcdheRecords(EcdheHello(t), t, served[t])

\* The session that goes with ticket t.
PskOf(t) == IssuedPsk(EcdheHello(t), t, served[t])
SessionOf(t) == [ticket |-> t, psk |-> PskOf(t)]

Unserved(c) ==
  /\ stage[c] \in {"sent", "lost"}
  /\ response[c] = <<>>
  /\ served[c] = 0

UnusedConn(c) ==
  /\ c > opened
  /\ stage[c] = "unused"
  /\ request[c] = <<>>
  /\ response[c] = <<>>
  /\ served[c] = 0

HandshakeConn(c) ==
  /\ c <= opened
  /\ request[c] = EcdheRequest(c)
  /\ \/ Unserved(c)
     \/ Issued(c) /\ stage[c] \in {"built", "replied", "lost", "done"}

RequestConn(c) ==
  /\ c <= opened
  /\ \E t \in Conns :
       /\ Issued(t)
       /\ request[c] = RequestRecords(c, SessionOf(t))
       /\ \/ Unserved(c)
          \/ /\ stage[c] = "refused"
             /\ response[c] = <<>>
             /\ served[c] \in 1..epoch
             /\ served[t] < served[c]
          \/ /\ stage[c] \in {"built", "replied", "lost", "done"}
             /\ served[c] \in 1..epoch
             /\ response[c] = PskRecords(request[c], PskOf(t), c, served[c])

ConnInv(c) == UnusedConn(c) \/ HandshakeConn(c) \/ RequestConn(c)

MapInv ==
  \A t \in Conns :
    sessions[t] = IF Issued(t) /\ served[t] = epoch THEN PskOf(t) ELSE None

Honest(s) ==
  /\ Issued(s.ticket)
  /\ s = SessionOf(s.ticket)

HeldInv ==
  /\ \A k \in Clients : session[k] # None => Honest(session[k])
  /\ disk # None => Honest(disk)

\* The key a handshake on connection a is read under.
HandshakeKey(a) ==
  TrafficKey56(Ecdh(a, served[a]), "handshake key expansion",
               HashToServerHello(EcdheHello(a), a, served[a]))

\* A handshake that has read i records of the response.
Handshaking(k, hash, i) ==
  /\ Issued(at[k])
  /\ secret[k] = Ecdh(at[k], served[at[k]])
  /\ key[k] = HandshakeKey(at[k])
  /\ hasher[k] = hash
  /\ sseq[k] = i
  /\ reader[k] = i + 1

Asking(k) ==
  /\ session[k] # None
  /\ at[k] \in 1..opened
  /\ request[at[k]] = RequestRecords(at[k], session[k])

\* What a request on connection n with ticket t is hashed to, what answering it
\* in epoch e adds, and the key of the answer.
RequestHash(n, t) == Append(<<PskHello(n, t)>>, Extensions(n))
AnswerHash(n, t, e) == Append(RequestHash(n, t), ServerHello(n, e))
AnswerKey(n, s, e) ==
  ToServerHalf(TrafficKey28(s.psk, "handshake key expansion",
                            AnswerHash(n, s.ticket, e)))

HashOfRequest(k) == RequestHash(at[k], session[k].ticket)

\* A request that has read i records of the response.
Answered(k, i) ==
  /\ Asking(k)
  /\ served[at[k]] \in 1..epoch
  /\ response[at[k]] =
       PskRecords(request[at[k]], session[k].psk, at[k], served[at[k]])
  /\ sseq[k] = i
  /\ reader[k] = i + 1

ResponseKey(k) == AnswerKey(at[k], session[k], served[at[k]])

PlaceInv(k) ==
  /\ pc[k] = "helloSent" =>
       /\ at[k] \in 1..opened
       /\ request[at[k]] = EcdheRequest(at[k])
       /\ hasher[k] = <<EcdheHello(at[k])>>
       /\ sseq[k] = 0
  /\ pc[k] = "serverHello" =>
       /\ Issued(at[k])
       /\ hasher[k] = <<EcdheHello(at[k])>>
       /\ sseq[k] = 0
       /\ reader[k] = 1
  /\ pc[k] = "signature" =>
       Handshaking(k, HashToServerHello(EcdheHello(at[k]), at[k], served[at[k]]), 1)
  /\ pc[k] = "ticket" =>
       Handshaking(k, HashToSignature(EcdheHello(at[k]), at[k], served[at[k]]), 2)
  /\ pc[k] = "finish" =>
       /\ Handshaking(k, HashToTicket(EcdheHello(at[k]), at[k], served[at[k]]), 3)
       /\ session[k] # None
  /\ pc[k] = "connecting" => session[k] # None
  /\ pc[k] = "requestSent" =>
       Asking(k) /\ hasher[k] = HashOfRequest(k) /\ sseq[k] = 0
  /\ pc[k] = "pskHello" => Answered(k, 0) /\ hasher[k] = HashOfRequest(k)
  /\ pc[k] = "pskFinish" => Answered(k, 1) /\ key[k] = ResponseKey(k)
  /\ pc[k] = "data" => Answered(k, 2) /\ key[k] = ResponseKey(k)
  /\ pc[k] = "abort" => Answered(k, 3) /\ key[k] = ResponseKey(k)

ClientInv(k) ==
  /\ PlaceInv(k)
  /\ status[k] = 1 => session[k] # None
  /\ outcome[k] # "protocol"

IInv ==
  /\ TypeOK
  /\ \A c \in Conns : ConnInv(c)
  /\ MapInv
  /\ HeldInv
  /\ \A k \in Clients : ClientInv(k)

-----------------------------------------------------------------------------
(* What the builders of messages, keys and records return.                  *)

\* Every message builder returns a message that carries what it was given.
LEMMA MessageFacts ==
  ASSUME NEW n \in Nat, NEW r \in Nat
  PROVE  /\ EcdheHello(n) \in Messages
         /\ EcdheHello(n).msg = "ecdheHello"
         /\ EcdheHello(n).fresh = n
         /\ PskHello(n, r) \in Messages
         /\ PskHello(n, r).msg = "pskHello"
         /\ PskHello(n, r).ref = r
         /\ ServerHello(n, r) \in Messages
         /\ ServerHello(n, r).msg = "serverHello"
         /\ ServerHello(n, r).ref = r
         /\ Signature(n, r) \in Messages
         /\ NewSessionTicket(n) \in Messages
         /\ NewSessionTicket(n).fresh = n
         /\ Extensions(n) \in Messages
         /\ Message("request", n, 0) \in Messages
         /\ [Message("request", n, 0) EXCEPT !.msg = "response"] \in Messages
         /\ Abort \in Messages
  BY DEF EcdheHello, PskHello, ServerHello, Signature, NewSessionTicket,
         Extensions, Abort, Message, Messages, MessageKinds

\* Hashing a message gives a transcript.
LEMMA TranscriptFacts ==
  ASSUME NEW m \in Messages
  PROVE  /\ <<m>> \in Transcripts
         /\ \A h \in Transcripts : Append(h, m) \in Transcripts
  BY DEF Transcripts

\* The server's transcripts of a handshake are transcripts.
LEMMA HandshakeTranscripts ==
  ASSUME NEW n \in Nat, NEW e \in Nat
  PROVE  /\ HashToServerHello(EcdheHello(n), n, e) \in Transcripts
         /\ HashToSignature(EcdheHello(n), n, e) \in Transcripts
         /\ HashToTicket(EcdheHello(n), n, e) \in Transcripts
  BY MessageFacts, TranscriptFacts
     DEF HashToServerHello, HashToSignature, HashToTicket

\* A record sealed under a traffic key is a record, and so is a clear one.
LEMMA RecordTypes ==
  ASSUME NEW b \in Messages \cup Finishes
  PROVE  /\ Clear(b) \in Records
         /\ \A x \in Halves, i \in Nat : Seal(b, x, i) \in Records
  BY DEF Clear, Seal, Records

\* The traffic keys of both sizes are made of halves.
LEMMA KeyTypes ==
  ASSUME NEW x \in Secrets, NEW label \in KeyLabels,
         NEW h \in Transcripts
  PROVE  /\ TrafficKey56(x, label, h).client \in Halves
         /\ TrafficKey56(x, label, h).server \in Halves
         /\ TrafficKey56(x, label, h) \in KeyPairs
         /\ TrafficKey28(x, label, h).client \in Halves
         /\ ToServerHalf(TrafficKey28(x, label, h)).server \in Halves
         /\ ToServerHalf(TrafficKey28(x, label, h)) \in KeyPairs
  BY DEF TrafficKey56, TrafficKey28, ToServerHalf, Half, Halves, KeyPairs

\* Both kinds of secret a traffic key is derived from have their type.
LEMMA SecretTypes ==
  ASSUME NEW n \in Nat, NEW e \in Nat
  PROVE  /\ Ecdh(n, e) \in ComKeys
         /\ Ecdh(n, e) \in Secrets
         /\ IssuedPsk(EcdheHello(n), n, e) \in Psks
         /\ Psks \subseteq Secrets
<1>1. Ecdh(n, e) \in ComKeys
  BY DEF Ecdh, ComKeys
<1>2. HashToSignature(EcdheHello(n), n, e) \in Transcripts
  BY HandshakeTranscripts
<1>3. EcdheHello(n).fresh = n
  BY MessageFacts
<1> QED
  BY <1>1, <1>2, <1>3 DEF IssuedPsk, HkdfExpand, Psks, Secrets

\* ServerFinish has its type.
LEMMA FinishType ==
  ASSUME NEW x \in Secrets, NEW h \in Transcripts
  PROVE  /\ Finish("server finished", x, h) \in Finishes
         /\ Finish("client finished", x, h) \in Finishes
  BY DEF Finish, HkdfExpand, Finishes

\* The four records of a handshake's response, and what each one holds.
LEMMA EcdheRecordsFacts ==
  ASSUME NEW n \in Nat, NEW e \in Nat
  PROVE  LET R == EcdheRecords(EcdheHello(n), n, e)
             out == TrafficKey56(Ecdh(n, e), "handshake key expansion",
                      HashToServerHello(EcdheHello(n), n, e)).server
         IN  /\ R \in Seq(Records)
             /\ R # <<>>
             /\ DOMAIN R = 1..4
             /\ R[1].body = ServerHello(n, e)
             /\ R[1].key = None
             /\ R[2].body = Signature(n, e)
             /\ R[3].body = NewSessionTicket(n)
             /\ R[4].body = Finish("server finished", Ecdh(n, e),
                                   HashToTicket(EcdheHello(n), n, e))
             /\ \A i \in 2..4 : R[i].key = out /\ R[i].seq = i - 1
<1> DEFINE h2 == HashToServerHello(EcdheHello(n), n, e)
           h4 == HashToTicket(EcdheHello(n), n, e)
           com == Ecdh(n, e)
           out == TrafficKey56(com, "handshake key expansion", h2).server
           fin == Finish("server finished", com, h4)
           R == << Clear(ServerHello(n, e)), Seal(Signature(n, e), out, 1),
                   Seal(NewSessionTicket(n), out, 2), Seal(fin, out, 3) >>
<1>1. com \in Secrets /\ h2 \in Transcripts /\ h4 \in Transcripts
  BY SecretTypes, HandshakeTranscripts
<1>2. out \in Halves
  BY <1>1, KeyTypes DEF KeyLabels
<1>3. fin \in Finishes
  BY <1>1, FinishType
<1>4. EcdheRecords(EcdheHello(n), n, e) = R
  BY MessageFacts DEF EcdheRecords
<1> HIDE DEF out, fin
<1>5. /\ Clear(ServerHello(n, e)) \in Records
      /\ Seal(Signature(n, e), out, 1) \in Records
      /\ Seal(NewSessionTicket(n), out, 2) \in Records
      /\ Seal(fin, out, 3) \in Records
  <2>1. /\ ServerHello(n, e) \in Messages
        /\ Signature(n, e) \in Messages
        /\ NewSessionTicket(n) \in Messages
    BY MessageFacts
  <2> QED
    BY <2>1, <1>2, <1>3, RecordTypes
<1>6. R \in Seq(Records)
  BY <1>5
<1>7. /\ R # <<>>
      /\ DOMAIN R = 1..4
      /\ R[1].body = ServerHello(n, e)
      /\ R[1].key = None
      /\ R[2].body = Signature(n, e)
      /\ R[3].body = NewSessionTicket(n)
      /\ R[4].body = fin
      /\ \A i \in 2..4 : R[i].key = out /\ R[i].seq = i - 1
  BY DEF Clear, Seal
<1> QED
  BY <1>4, <1>6, <1>7 DEF out, fin

\* Whatever can be presented to the server as a session.
Presentable == [ticket: Nat, psk: Psks]

\* The four records of a request, and what each one holds.
LEMMA RequestRecordsFacts ==
  ASSUME NEW n \in Nat, NEW s \in Presentable
  PROVE  LET R == RequestRecords(n, s)
             early == TrafficKey28(s.psk, "early data key expansion",
                                   <<PskHello(n, s.ticket)>>).client
         IN  /\ R \in Seq(Records)
             /\ R # <<>>
             /\ Len(R) = 4
             /\ DOMAIN R = 1..4
             /\ R[1].body = PskHello(n, s.ticket)
             /\ R[2].body = Extensions(n)
             /\ R[3].body = Message("request", n, 0)
             /\ \A i \in 2..4 : R[i].key = early /\ R[i].seq = i - 1
             /\ early \in Halves
<1> DEFINE early == TrafficKey28(s.psk, "early data key expansion",
                                 <<PskHello(n, s.ticket)>>).client
           R == << Clear(PskHello(n, s.ticket)), Seal(Extensions(n), early, 1),
                   Seal(Message("request", n, 0), early, 2),
                   Seal(Abort, early, 3) >>
<1>0. s.ticket \in Nat /\ s.psk \in Secrets
  BY DEF Presentable, Secrets
<1>1. /\ PskHello(n, s.ticket) \in Messages
      /\ Extensions(n) \in Messages
      /\ Message("request", n, 0) \in Messages
      /\ Abort \in Messages
  BY <1>0, MessageFacts
<1>2. early \in Halves
  BY <1>0, <1>1, TranscriptFacts, KeyTypes DEF KeyLabels
<1>3. RequestRecords(n, s) = R
  BY DEF RequestRecords
<1> HIDE DEF early
<1>4. /\ Clear(PskHello(n, s.ticket)) \in Records
      /\ Seal(Extensions(n), early, 1) \in Records
      /\ Seal(Message("request", n, 0), early, 2) \in Records
      /\ Seal(Abort, early, 3) \in Records
  BY <1>1, <1>2, RecordTypes
<1>5. R \in Seq(Records)
  BY <1>4
<1>6. /\ R # <<>>
      /\ Len(R) = 4
      /\ DOMAIN R = 1..4
      /\ R[1].body = PskHello(n, s.ticket)
      /\ R[2].body = Extensions(n)
      /\ R[3].body = Message("request", n, 0)
      /\ \A i \in 2..4 : R[i].key = early /\ R[i].seq = i - 1
  BY DEF Clear, Seal
<1> QED
  BY <1>2, <1>3, <1>5, <1>6 DEF early

\* The transcripts of a request and its answer are transcripts; the key of the
\* answer is a key.
LEMMA AnswerTypes ==
  ASSUME NEW n \in Nat, NEW e \in Nat, NEW s \in Presentable
  PROVE  /\ RequestHash(n, s.ticket) \in Transcripts
         /\ AnswerHash(n, s.ticket, e) \in Transcripts
         /\ AnswerKey(n, s, e) \in KeyPairs
         /\ AnswerKey(n, s, e).server \in Halves
         /\ s.psk \in Secrets
<1>0. s.ticket \in Nat /\ s.psk \in Secrets
  BY DEF Presentable, Secrets
<1>1. PskHello(n, s.ticket) \in Messages /\ Extensions(n) \in Messages
      /\ ServerHello(n, e) \in Messages
  <2>1. PskHello(n, s.ticket) \in Messages
    BY <1>0, MessageFacts
  <2>2. Extensions(n) \in Messages /\ ServerHello(n, e) \in Messages
    BY MessageFacts
  <2> QED
    BY <2>1, <2>2
<1>2. RequestHash(n, s.ticket) \in Transcripts
  BY <1>1, TranscriptFacts DEF RequestHash
<1>3. AnswerHash(n, s.ticket, e) \in Transcripts
  BY <1>1, <1>2, TranscriptFacts DEF AnswerHash
<1> QED
  BY <1>0, <1>2, <1>3, KeyTypes DEF AnswerKey, KeyLabels

\* The server's answer in epoch e to a request on connection n with session s.
AnswerTo(n, s, e) == PskRecords(RequestRecords(n, s), s.psk, n, e)

\* The four records of the answer to a request, and what each one holds.
LEMMA PskRecordsFacts ==
  ASSUME NEW n \in Nat, NEW e \in Nat, NEW s \in Presentable
  PROVE  /\ AnswerTo(n, s, e) \in Seq(Records)
         /\ AnswerTo(n, s, e) # <<>>
         /\ DOMAIN AnswerTo(n, s, e) = 1..4
         /\ AnswerTo(n, s, e)[1].body = ServerHello(n, e)
         /\ AnswerTo(n, s, e)[1].key = None
         /\ AnswerTo(n, s, e)[3].body \in Messages
         /\ AnswerTo(n, s, e)[3].body.fresh = n
         /\ \A i \in 2..4 : /\ AnswerTo(n, s, e)[i].key = AnswerKey(n, s, e).server
                            /\ AnswerTo(n, s, e)[i].seq = i - 1
<1>a. PICK R : R = AnswerTo(n, s, e)
  OBVIOUS
<1>b. PICK out : out = AnswerKey(n, s, e).server
  OBVIOUS
<1> DEFINE fin == Finish("server finished", s.psk, AnswerHash(n, s.ticket, e))
           echo == [Message("request", n, 0) EXCEPT !.msg = "response"]
<1>1. /\ ServerHello(n, e) \in Messages
      /\ echo \in Messages
      /\ Abort \in Messages
  BY MessageFacts
<1>7. echo.fresh = n
  BY DEF Message
<1>2. out \in Halves /\ fin \in Finishes
  BY <1>b, AnswerTypes, FinishType
<1>3. R = << Clear(ServerHello(n, e)), Seal(fin, out, 1),
             Seal(echo, out, 2), Seal(Abort, out, 3) >>
  BY <1>a, <1>b, RequestRecordsFacts
     DEF AnswerTo, PskRecords, AnswerKey, AnswerHash, RequestHash
<1> HIDE DEF fin, echo
<1>4. /\ Clear(ServerHello(n, e)) \in Records
      /\ Seal(fin, out, 1) \in Records
      /\ Seal(echo, out, 2) \in Records
      /\ Seal(Abort, out, 3) \in Records
  BY <1>1, <1>2, RecordTypes
<1>5. R \in Seq(Records)
  BY <1>3, <1>4
<1>6. /\ R # <<>>
      /\ DOMAIN R = 1..4
      /\ R[1].body = ServerHello(n, e)
      /\ R[1].key = None
      /\ R[3].body = echo
      /\ \A i \in 2..4 : R[i].key = out /\ R[i].seq = i - 1
  BY <1>3 DEF Clear, Seal
<1> QED
  BY <1>1, <1>5, <1>6, <1>7, <1>a, <1>b

\* A handshake's request is one record, a PSK request is four: no connection
\* carries both.
LEMMA RequestKinds ==
  ASSUME NEW n \in Nat, NEW s \in Presentable
  PROVE  /\ EcdheRequest(n) \in Seq(Records)
         /\ EcdheRequest(n) # <<>>
         /\ Len(EcdheRequest(n)) = 1
         /\ Head(EcdheRequest(n)).body = EcdheHello(n)
         /\ Head(RequestRecords(n, s)).body = PskHello(n, s.ticket)
         /\ RequestRecords(n, s) # <<>>
         /\ RequestRecords(n, s) # EcdheRequest(n)
<1>1. Clear(EcdheHello(n)) \in Records
  BY MessageFacts, RecordTypes
<1>2. /\ EcdheRequest(n) \in Seq(Records)
      /\ EcdheRequest(n) # <<>>
      /\ Len(EcdheRequest(n)) = 1
      /\ Head(EcdheRequest(n)).body = EcdheHello(n)
  BY <1>1 DEF EcdheRequest, Clear
<1>3. /\ Len(RequestRecords(n, s)) = 4
      /\ RequestRecords(n, s) # <<>>
      /\ RequestRecords(n, s) \in Seq(Records)
      /\ RequestRecords(n, s)[1].body = PskHello(n, s.ticket)
  BY RequestRecordsFacts
<1>4. ASSUME NEW r \in Seq(Records), r # <<>> PROVE Head(r) = r[1]
  OBVIOUS
<1>5. Head(RequestRecords(n, s)).body = PskHello(n, s.ticket)
  BY <1>3, <1>4
<1>6. RequestRecords(n, s) # EcdheRequest(n)
  <2>1. 4 # 1
    OBVIOUS
  <2> QED
    BY <2>1, <1>2, <1>3, Zenon
<1> QED
  BY <1>2, <1>3, <1>5, <1>6

\* A handshake's request is not empty.
LEMMA HelloRequestNonEmpty ==
  ASSUME NEW n \in Nat
  PROVE  EcdheRequest(n) # <<>>
<1>1. Clear(EcdheHello(n)) \in Records
  BY MessageFacts, RecordTypes
<1> QED
  BY <1>1 DEF EcdheRequest

-----------------------------------------------------------------------------
(* What later steps leave alone.                                            *)

\* What has been sent or answered on a connection stays.
Grows ==
  /\ opened <= opened'
  /\ epoch <= epoch'
  /\ \A c \in Conns :
       /\ request[c] # <<>> => request'[c] = request[c]
       /\ served[c] # 0 => /\ served'[c] = served[c]
                           /\ response'[c] = response[c]

SameConn(c) ==
  /\ stage'[c] = stage[c]
  /\ request'[c] = request[c]
  /\ response'[c] = response[c]
  /\ served'[c] = served[c]

SameClient(k) ==
  /\ pc'[k] = pc[k]
  /\ outcome'[k] = outcome[k]
  /\ status'[k] = status[k]
  /\ session'[k] = session[k]
  /\ hasher'[k] = hasher[k]
  /\ sseq'[k] = sseq[k]
  /\ secret'[k] = secret[k]
  /\ key'[k] = key[k]
  /\ reader'[k] = reader[k]
  /\ at'[k] = at[k]

\* What an issued ticket stands for.
LEMMA IssuedFacts ==
  ASSUME TypeOK, NEW t, Issued(t)
  PROVE  /\ t \in Conns /\ t \in Nat
         /\ served[t] \in Nat /\ served[t] # 0
         /\ PskOf(t) \in Psks
         /\ SessionOf(t) \in Sessions
         /\ SessionOf(t) \in Presentable
         /\ SessionOf(t) # None
         /\ SessionOf(t).ticket = t
         /\ SessionOf(t).psk = PskOf(t)
         /\ PskOf(t) # None
         /\ PskOf(t).secret.server = served[t]
<1>1. t \in Conns /\ t \in Nat /\ served[t] \in Nat /\ served[t] # 0
  BY ShortLinkAssumption DEF Issued, TypeOK, Conns, Epochs
<1>2. PskOf(t) \in Psks
  BY <1>1, SecretTypes DEF PskOf
<1>3. SessionOf(t) \in Sessions /\ SessionOf(t) \in Presentable
  BY <1>1, <1>2 DEF SessionOf, Sessions, Presentable
<1>4. PskOf(t).secret.server = served[t]
  BY <1>1, MessageFacts DEF PskOf, IssuedPsk, HkdfExpand, Ecdh
<1> QED
  BY <1>1, <1>2, <1>3, <1>4, NoneAssumption DEF SessionOf, Presentable

\* An issued ticket stays issued, under the same key.
LEMMA IssuedStable ==
  ASSUME TypeOK, TypeOK', Grows, NEW t, Issued(t)
  PROVE  /\ Issued(t)'
         /\ PskOf(t)' = PskOf(t)
         /\ SessionOf(t)' = SessionOf(t)
         /\ served'[t] = served[t]
         /\ response'[t] = response[t]
<1>1. t \in Conns /\ t \in Nat /\ served[t] # 0
  BY IssuedFacts
<1>2. Clear(EcdheHello(t)) \in Records
  BY <1>1, MessageFacts, RecordTypes
<1>3. EcdheRequest(t) # <<>>
  BY <1>2 DEF EcdheRequest
<1>4. /\ served'[t] = served[t]
      /\ response'[t] = response[t]
      /\ request'[t] = request[t]
  BY <1>1, <1>3 DEF Grows, Issued
<1>5. served'[t] \in 1..epoch'
  BY <1>4, ShortLinkAssumption DEF Issued, Grows, TypeOK, Epochs
<1> QED
  BY <1>1, <1>4, <1>5 DEF Issued, PskOf, SessionOf, EcdheRequest

\* A session that goes with an issued ticket keeps going with it.
LEMMA HonestStable ==
  ASSUME TypeOK, TypeOK', Grows, NEW s, Honest(s)
  PROVE  Honest(s)'
  BY IssuedStable DEF Honest

\* A connection no step touches keeps its invariant.
LEMMA ConnStable ==
  ASSUME TypeOK, TypeOK', Grows, NEW c \in Conns, SameConn(c), ConnInv(c),
         c > opened => c > opened'
  PROVE  ConnInv(c)'
<1>0. c \in Nat /\ opened \in Nat /\ opened' \in Nat /\ epoch \in Nat /\ epoch' \in Nat
      /\ served[c] \in Nat
  BY ShortLinkAssumption DEF TypeOK, Conns, Epochs
<1>1. CASE UnusedConn(c)
  BY <1>0, <1>1 DEF UnusedConn, ConnInv, SameConn
<1>2. CASE HandshakeConn(c)
  <2>1. c <= opened'
    BY <1>0, <1>2 DEF HandshakeConn, Grows
  <2>2. request'[c] = EcdheRequest(c)
    BY <1>2 DEF HandshakeConn, SameConn
  <2>3. CASE Unserved(c)
    BY <2>1, <2>2, <2>3 DEF Unserved, HandshakeConn, ConnInv, SameConn,
       EcdheRequest
  <2>4. CASE Issued(c) /\ stage[c] \in {"built", "replied", "lost", "done"}
    BY <2>1, <2>2, <2>4, IssuedStable DEF HandshakeConn, ConnInv, SameConn,
       EcdheRequest
  <2> QED
    BY <1>2, <2>3, <2>4 DEF HandshakeConn
<1>3. CASE RequestConn(c)
  <2>1. c <= opened'
    BY <1>0, <1>3 DEF RequestConn, Grows
  <2>2. PICK t \in Conns :
       /\ Issued(t)
       /\ request[c] = RequestRecords(c, SessionOf(t))
       /\ \/ Unserved(c)
          \/ /\ stage[c] = "refused"
             /\ response[c] = <<>>
             /\ served[c] \in 1..epoch
             /\ served[t] < served[c]
          \/ /\ stage[c] \in {"built", "replied", "lost", "done"}
             /\ served[c] \in 1..epoch
             /\ response[c] = PskRecords(request[c], PskOf(t), c, served[c])
    BY <1>3 DEF RequestConn
  <2>3. Issued(t)' /\ PskOf(t)' = PskOf(t) /\ SessionOf(t)' = SessionOf(t)
        /\ served'[t] = served[t]
    BY <2>2, IssuedStable
  <2>4. served[c] \in 1..epoch => served'[c] \in 1..epoch'
    BY <1>0 DEF SameConn, Grows
  <2>5. request'[c] = RequestRecords(c, SessionOf(t)')
    BY <2>2, <2>3 DEF SameConn
  <2>6. Unserved(c) => Unserved(c)'
    BY DEF Unserved, SameConn
  <2>7. RequestConn(c)'
    BY <2>1, <2>2, <2>3, <2>4, <2>5, <2>6 DEF RequestConn, SameConn
  <2> QED
    BY <2>7 DEF ConnInv
<1> QED
  BY <1>1, <1>2, <1>3 DEF ConnInv

\* The handshake in progress at an issued connection is undisturbed.
LEMMA HandshakingStable ==
  ASSUME TypeOK, TypeOK', Grows, NEW k \in Clients, SameClient(k),
         NEW hash, NEW i, Handshaking(k, hash, i)
  PROVE  /\ Issued(at[k])'
         /\ served'[at'[k]] = served[at[k]]
         /\ secret'[k] = Ecdh(at'[k], served'[at'[k]])
         /\ key'[k] = HandshakeKey(at[k])'
         /\ hasher'[k] = hash
         /\ sseq'[k] = i
         /\ reader'[k] = i + 1
<1>1. Issued(at[k])
  BY DEF Handshaking
<1>2. at'[k] = at[k]
  BY DEF SameClient
<1>3. Issued(at[k])' /\ served'[at[k]] = served[at[k]]
  <2> DEFINE a == at[k]
  <2>1. /\ a \in Conns
        /\ served'[a] = served[a]
        /\ response'[a] = response[a]
        /\ request'[a] = request[a]
    <3>1. a \in Conns /\ a \in Nat /\ served[a] # 0
      BY <1>1, IssuedFacts
    <3>2. request[a] # <<>>
      BY <1>1, <3>1, HelloRequestNonEmpty DEF Issued
    <3> QED
      BY <3>1, <3>2 DEF Grows
  <2>2. served[a] \in 1..epoch'
    BY <1>1, ShortLinkAssumption DEF Issued, Grows, TypeOK, Epochs
  <2> QED
    BY <1>1, <1>2, <2>1, <2>2 DEF Issued
<1> QED
  BY <1>2, <1>3 DEF Handshaking, SameClient, HandshakeKey

\* So is the request in progress.
LEMMA AnsweredStable ==
  ASSUME TypeOK, TypeOK', Grows, HeldInv, NEW k \in Clients, SameClient(k), Asking(k)
  PROVE  /\ Asking(k)'
         /\ HashOfRequest(k)' = HashOfRequest(k)
         /\ \A i \in Nat : Answered(k, i) =>
              Answered(k, i)' /\ ResponseKey(k)' = ResponseKey(k)
<1>1. /\ at'[k] = at[k] /\ session'[k] = session[k]
      /\ at[k] \in Conns /\ at[k] \in 1..opened'
  BY ShortLinkAssumption DEF SameClient, Asking, TypeOK, Conns, Grows
<1>2. request'[at[k]] = request[at[k]]
  <2>1. Honest(session[k])
    BY DEF HeldInv, Asking
  <2>2. session[k] \in Presentable
    BY <2>1, IssuedFacts DEF Honest
  <2>3. at[k] \in Nat
    BY <1>1, ShortLinkAssumption DEF Conns
  <2>4. request[at[k]] # <<>>
    BY <2>2, <2>3, RequestKinds DEF Asking
  <2> QED
    BY <1>1, <2>4 DEF Grows
<1>3. Asking(k)'
  BY <1>1, <1>2 DEF Asking
<1>4. HashOfRequest(k)' = HashOfRequest(k)
  BY <1>1 DEF HashOfRequest
<1>5. ASSUME NEW i \in Nat, Answered(k, i)
      PROVE  Answered(k, i)' /\ ResponseKey(k)' = ResponseKey(k)
  <2>1. /\ served'[at[k]] = served[at[k]]
        /\ response'[at[k]] = response[at[k]]
        /\ served[at[k]] \in 1..epoch'
    BY <1>1, <1>5, ShortLinkAssumption DEF Answered, Grows, TypeOK, Epochs
  <2>2. Answered(k, i)'
    BY <1>1, <1>2, <1>3, <1>5, <2>1 DEF Answered, SameClient
  <2>3. ResponseKey(k)' = ResponseKey(k)
    BY <1>1, <1>4, <2>1 DEF ResponseKey
  <2> QED
    BY <2>2, <2>3
<1> QED
  BY <1>3, <1>4, <1>5

\* A client that takes no step keeps its invariant, whatever others do.
LEMMA ClientStable ==
  ASSUME TypeOK, TypeOK', Grows, HeldInv, NEW k \in Clients, SameClient(k),
         ClientInv(k)
  PROVE  ClientInv(k)'
<1>0. PICK a \in Nat : a = at[k]
  BY ShortLinkAssumption DEF TypeOK
<1>1. /\ pc'[k] = pc[k] /\ at'[k] = a /\ session'[k] = session[k]
      /\ hasher'[k] = hasher[k] /\ sseq'[k] = sseq[k] /\ reader'[k] = reader[k]
  BY <1>0 DEF SameClient
<1>2. CASE pc[k] = "helloSent"
  <2>1. a \in 1..opened /\ request[a] = EcdheRequest(a)
    BY <1>0, <1>2 DEF ClientInv, PlaceInv
  <2>2. a \in Conns /\ a \in Nat /\ a \in 1..opened'
    BY <2>1, ShortLinkAssumption DEF TypeOK, Conns, Grows
  <2>3. request'[a] = request[a]
    BY <2>1, <2>2, HelloRequestNonEmpty DEF Grows
  <2> QED
    BY <1>0, <1>1, <1>2, <2>1, <2>2, <2>3 DEF ClientInv, PlaceInv, SameClient
<1>3. CASE pc[k] = "serverHello"
  <2>1. Issued(a)
    BY <1>0, <1>3 DEF ClientInv, PlaceInv
  <2>2. Issued(a)' 
    BY <2>1, IssuedStable
  <2> QED
    BY <1>0, <1>1, <1>3, <2>2 DEF ClientInv, PlaceInv, SameClient, Issued
<1>4. CASE pc[k] \in {"signature", "ticket", "finish"}
  <2> DEFINE hello == EcdheHello(a)
  <2>1. \E i \in 1..3 :
           Handshaking(k, CASE i = 1 -> HashToServerHello(hello, a, served[a])
                            [] i = 2 -> HashToSignature(hello, a, served[a])
                            [] i = 3 -> HashToTicket(hello, a, served[a]), i)
    BY <1>0, <1>4 DEF ClientInv, PlaceInv
  <2>2. /\ Issued(at[k])'
        /\ served'[at'[k]] = served[at[k]]
        /\ secret'[k] = Ecdh(at'[k], served'[at'[k]])
        /\ key'[k] = HandshakeKey(at[k])'
    BY <2>1, HandshakingStable
  <2> QED
    BY <1>0, <1>1, <1>4, <2>2 DEF ClientInv, PlaceInv, SameClient, Handshaking
<1>5. CASE pc[k] \in {"requestSent", "pskHello", "pskFinish", "data", "abort"}
  <2>1. Asking(k)
    BY <1>5 DEF ClientInv, PlaceInv, Answered
  <2>2. /\ Asking(k)'
        /\ HashOfRequest(k)' = HashOfRequest(k)
        /\ \A i \in Nat : Answered(k, i) =>
             Answered(k, i)' /\ ResponseKey(k)' = ResponseKey(k)
    BY <2>1, AnsweredStable
  <2> QED
    BY <1>1, <1>5, <2>2 DEF ClientInv, PlaceInv, SameClient
<1>6. CASE pc[k] \in {"idle", "connecting"}
  BY <1>1, <1>6 DEF ClientInv, PlaceInv, SameClient
<1> QED
  BY <1>2, <1>3, <1>4, <1>5, <1>6 DEF TypeOK, Places

-----------------------------------------------------------------------------
(* Every behaviour starts in the invariant.                                 *)

\* The invariant holds in the initial states.
LEMMA InitIInv == Init => IInv
<1> SUFFICES ASSUME Init PROVE IInv
  OBVIOUS
<1>1. TypeOK
  <2>1. 0 \in 0..MaxConns /\ 0 \in 0..MaxEpochs /\ 1 \in Epochs
    BY ShortLinkAssumption DEF Epochs
  <2>2. <<>> \in Transcripts /\ <<>> \in Seq(Records)
    BY DEF Transcripts
  <2> QED
    BY <2>1, <2>2 DEF Init, TypeOK, Places
<1>2. \A c \in Conns : UnusedConn(c)
  BY ShortLinkAssumption DEF Init, UnusedConn, Conns
<1>3. MapInv
  BY DEF Init, MapInv, Issued
<1>4. HeldInv
  BY DEF Init, HeldInv
<1>5. \A k \in Clients : ClientInv(k)
  BY DEF Init, ClientInv, PlaceInv
<1> QED
  BY <1>1, <1>2, <1>3, <1>4, <1>5 DEF IInv, ConnInv

-----------------------------------------------------------------------------
(* Steps of one client that leave server and connections alone.             *)

\* A step that touches one client and no connection keeps the invariant if
\* it keeps what is said of that client.
LEMMA ClientLocal ==
  ASSUME IInv, NEW k \in Clients, UNCHANGED <<serverVars, connVars>>,
         \A j \in Clients \ {k} : SameClient(j),
         TypeOK', HeldInv', ClientInv(k)'
  PROVE  IInv'
<1>1. Grows
  BY ShortLinkAssumption
     DEF IInv, TypeOK, Grows, serverVars, connVars, Epochs
<1>2. ASSUME NEW c \in Conns PROVE ConnInv(c)'
  <2>1. SameConn(c) /\ (c > opened => c > opened')
    BY DEF SameConn, connVars
  <2> QED
    BY <1>1, <2>1, ConnStable DEF IInv
<1>3. MapInv'
  BY DEF IInv, MapInv, Issued, PskOf, serverVars, connVars
<1>4. ASSUME NEW j \in Clients PROVE ClientInv(j)'
  <2>1. CASE j = k
    BY <2>1
  <2>2. CASE j # k
    BY <1>1, <2>2, ClientStable DEF IInv
  <2> QED
    BY <2>1, <2>2
<1> QED
  BY <1>2, <1>3, <1>4 DEF IInv

\* A call that ends with an error other than a protocol error.
LEMMA FailOK ==
  ASSUME IInv, NEW k \in Clients, UNCHANGED <<disk, serverVars, connVars>>,
         NEW why \in {"io", "unverified", "cancelled"}, Fail(k, why)
  PROVE  IInv'
<1>1. TypeOK'
  BY DEF IInv, TypeOK, Fail, Return, DropLocals, Places, serverVars, connVars
<1>2. HeldInv'
  BY DEF IInv, HeldInv, Fail, Honest, Issued, SessionOf, PskOf, serverVars,
         connVars
<1>3. ClientInv(k)'
  BY DEF IInv, TypeOK, ClientInv, PlaceInv, Fail, Return
<1>4. \A j \in Clients \ {k} : SameClient(j)
  BY DEF IInv, TypeOK, SameClient, Fail, Return, DropLocals
<1> QED
  BY <1>1, <1>2, <1>3, <1>4, ClientLocal

\* Of four records, the three sealed ones are those that follow the first.
LEMMA NextSealed ==
  ASSUME NEW R, NEW out, NEW i \in 1..3,
         DOMAIN R = 1..4,
         \A j \in 2..4 : R[j].key = out /\ R[j].seq = j - 1
  PROVE  i + 1 \in DOMAIN R /\ R[i + 1].key = out /\ R[i + 1].seq = i
  OBVIOUS

\* Every record of a handshake's response opens when its turn comes, and is
\* the one the client expects.
LEMMA HandshakeReads ==
  ASSUME TypeOK, NEW k \in Clients, NEW hash, NEW i \in 1..3,
         Handshaking(k, hash, i)
  PROVE  /\ NextOpens(k)
         /\ i = 1 => Body(k) = Signature(at[k], served[at[k]])
         /\ i = 2 => Body(k) = NewSessionTicket(at[k])
         /\ i = 3 => Body(k) = Finish("server finished", secret[k],
                       HashToTicket(EcdheHello(at[k]), at[k], served[at[k]]))
<1>0. PICK a \in Nat, e \in Nat : a = at[k] /\ e = served[a]
  BY IssuedFacts DEF Handshaking
<1>1. PICK R : R = EcdheRecords(EcdheHello(a), a, e)
  OBVIOUS
<1>2. PICK out : out = TrafficKey56(Ecdh(a, e), "handshake key expansion",
                               HashToServerHello(EcdheHello(a), a, e)).server
  OBVIOUS
<1>3. /\ response[a] = R
      /\ reader[k] = i + 1
      /\ sseq[k] = i
      /\ key[k] = HandshakeKey(a)
      /\ secret[k] = Ecdh(a, e)
  BY <1>0, <1>1 DEF Handshaking, Issued
<1>4. /\ DOMAIN R = 1..4
      /\ R[2].body = Signature(a, e)
      /\ R[3].body = NewSessionTicket(a)
      /\ R[4].body = Finish("server finished", Ecdh(a, e),
                            HashToTicket(EcdheHello(a), a, e))
      /\ \A j \in 2..4 : R[j].key = out /\ R[j].seq = j - 1
  BY <1>1, <1>2, EcdheRecordsFacts
<1>5. HandshakeKey(a) \in KeyPairs /\ HandshakeKey(a).server = out /\ out \in Halves
  BY <1>0, <1>2, SecretTypes, HandshakeTranscripts, KeyTypes
     DEF HandshakeKey, KeyLabels
<1>6. key[k] # None /\ out # None
  BY <1>3, <1>5, NoneAssumption
<1>7. i + 1 \in DOMAIN R /\ R[i + 1].key = out /\ R[i + 1].seq = i
  BY <1>4, NextSealed
<1>8. NextOpens(k)
  BY <1>0, <1>3, <1>5, <1>6, <1>7 DEF NextOpens, HasNext, Opens
<1>9. Body(k) = R[i + 1].body
  BY <1>0, <1>3 DEF Body
<1>10. 1 + 1 = 2 /\ 2 + 1 = 3 /\ 3 + 1 = 4
  OBVIOUS
<1>11. /\ i = 1 => Body(k) = Signature(a, e)
       /\ i = 2 => Body(k) = NewSessionTicket(a)
       /\ i = 3 => Body(k) = Finish("server finished", secret[k],
                               HashToTicket(EcdheHello(a), a, e))
  BY <1>3, <1>4, <1>9, <1>10
<1> QED
  BY <1>0, <1>8, <1>11

\* The first record of either response is the server's hello.
LEMMA HelloReads ==
  ASSUME TypeOK, HeldInv, NEW k \in Clients, reader[k] = 1,
         Issued(at[k]) \/ Answered(k, 0)
  PROVE  /\ HasNext(k)
         /\ Body(k) = ServerHello(at[k], served[at[k]])
<1>1. CASE Issued(at[k])
  <2>0. PICK a \in Nat, e \in Nat : a = at[k] /\ e = served[a]
    BY <1>1, IssuedFacts
  <2>1. PICK R : R = EcdheRecords(EcdheHello(a), a, e)
    OBVIOUS
  <2>2. response[a] = R
    BY <1>1, <2>0, <2>1 DEF Issued
  <2>3. DOMAIN R = 1..4 /\ R[1].body = ServerHello(a, e)
    BY <2>1, EcdheRecordsFacts
  <2> QED
    BY <2>0, <2>2, <2>3 DEF HasNext, Body
<1>2. CASE Answered(k, 0)
  <2>0. PICK a \in Nat, e \in Nat : a = at[k] /\ e = served[a]
    BY <1>2, ShortLinkAssumption DEF Answered, Asking, TypeOK, Conns
  <2>1. PICK s : s = session[k]
    OBVIOUS
  <2>2. s \in Presentable
    BY <1>2, <2>1, IssuedFacts DEF Answered, Asking, HeldInv, Honest
  <2>3. response[a] = AnswerTo(a, s, e)
    BY <1>2, <2>0, <2>1 DEF Answered, Asking, AnswerTo
  <2>4. /\ DOMAIN AnswerTo(a, s, e) = 1..4
        /\ AnswerTo(a, s, e)[1].body = ServerHello(a, e)
    BY <2>2, PskRecordsFacts
  <2> QED
    BY <2>0, <2>3, <2>4 DEF HasNext, Body
<1> QED
  BY <1>1, <1>2

\* What a request has hashed, and the key it derives from it, have their types.
LEMMA AskingFacts ==
  ASSUME TypeOK, HeldInv, NEW k \in Clients, Asking(k)
  PROVE  /\ session[k] \in Presentable
         /\ at[k] \in Nat
         /\ served[at[k]] \in Nat
         /\ HashOfRequest(k) \in Transcripts
         /\ Append(HashOfRequest(k), ServerHello(at[k], served[at[k]]))
              = AnswerHash(at[k], session[k].ticket, served[at[k]])
         /\ AnswerHash(at[k], session[k].ticket, served[at[k]]) \in Transcripts
         /\ ResponseKey(k) \in KeyPairs
<1>1. at[k] \in Nat /\ served[at[k]] \in Nat
  BY ShortLinkAssumption DEF Asking, TypeOK, Conns
<1>2. session[k] \in Presentable
  BY IssuedFacts DEF Asking, HeldInv, Honest
<1> QED
  BY <1>1, <1>2, AnswerTypes DEF HashOfRequest, AnswerHash, ResponseKey

\* Every record of an answer opens when its turn comes.
LEMMA AnswerReads ==
  ASSUME TypeOK, HeldInv, NEW k \in Clients, NEW i \in 1..3, Answered(k, i),
         key[k] = ResponseKey(k)
  PROVE  NextOpens(k) /\ (i = 2 => Body(k) \in Messages /\ Body(k).fresh = at[k])
<1>0. PICK a \in Nat, e \in Nat : a = at[k] /\ e = served[a]
  BY ShortLinkAssumption DEF Answered, Asking, TypeOK, Conns
<1>1. PICK s : s = session[k]
  OBVIOUS
<1>2. s \in Presentable
  BY <1>1, AskingFacts DEF Answered
<1>3. PICK R : R = AnswerTo(a, s, e)
  OBVIOUS
<1>4. PICK out : out = AnswerKey(a, s, e).server
  OBVIOUS
<1>6. /\ response[a] = R
      /\ reader[k] = i + 1
      /\ sseq[k] = i
      /\ key[k] = AnswerKey(a, s, e)
  BY <1>0, <1>1, <1>3 DEF Answered, Asking, ResponseKey, AnswerTo
<1>7. /\ DOMAIN R = 1..4
      /\ R[3].body \in Messages /\ R[3].body.fresh = a
      /\ \A j \in 2..4 : R[j].key = out /\ R[j].seq = j - 1
  <2>1. /\ DOMAIN AnswerTo(a, s, e) = 1..4
        /\ AnswerTo(a, s, e)[3].body \in Messages
        /\ AnswerTo(a, s, e)[3].body.fresh = a
    BY <1>2, PskRecordsFacts
  <2>2. \A j \in 2..4 : /\ AnswerTo(a, s, e)[j].key = AnswerKey(a, s, e).server
                        /\ AnswerTo(a, s, e)[j].seq = j - 1
    BY <1>2, PskRecordsFacts
  <2> QED
    BY <1>3, <1>4, <2>1, <2>2
<1>8. key[k] # None /\ out # None /\ key[k].server = out
  BY <1>2, <1>4, <1>6, AnswerTypes, NoneAssumption
<1>9. i + 1 \in DOMAIN R /\ R[i + 1].key = out /\ R[i + 1].seq = i
  BY <1>7, NextSealed
<1>10. NextOpens(k)
  BY <1>0, <1>6, <1>8, <1>9 DEF NextOpens, HasNext, Opens
<1>11. Body(k) = R[i + 1].body
  BY <1>0, <1>6 DEF Body
<1> QED
  BY <1>0, <1>7, <1>10, <1>11

-----------------------------------------------------------------------------
(* The steps that end a call with an error no peer caused, or touch only    *)
(* the session.                                                             *)

\* handshake() of a client already handshaken keeps the invariant.
LEMMA HandshakeAgainOK ==
  ASSUME IInv, NEW k \in Clients, HandshakeAgain(k)
  PROVE  IInv'
<1>1. TypeOK'
  BY DEF IInv, TypeOK, HandshakeAgain, Return, Places, clientVars, serverVars,
         connVars
<1>2. HeldInv'
  BY DEF IInv, HeldInv, HandshakeAgain, Honest, Issued, SessionOf, PskOf,
         clientVars, serverVars, connVars
<1>3. ClientInv(k)'
  BY DEF IInv, TypeOK, ClientInv, PlaceInv, HandshakeAgain, Return, clientVars
<1>4. \A j \in Clients \ {k} : SameClient(j)
  BY DEF IInv, TypeOK, SameClient, HandshakeAgain, Return, clientVars
<1> QED
  BY <1>1, <1>2, <1>3, <1>4, ClientLocal DEF HandshakeAgain

\* request() with a session at hand keeps the invariant.
LEMMA StartRequestOK ==
  ASSUME IInv, NEW k \in Clients, StartRequest(k)
  PROVE  IInv'
<1>1. TypeOK'
  BY DEF IInv, TypeOK, StartRequest, Places, clientVars, serverVars, connVars
<1>2. HeldInv'
  BY DEF IInv, HeldInv, StartRequest, Honest, Issued, SessionOf, PskOf,
         clientVars, serverVars, connVars
<1>3. ClientInv(k)'
  BY DEF IInv, TypeOK, ClientInv, PlaceInv, StartRequest, clientVars
<1>4. \A j \in Clients \ {k} : SameClient(j)
  BY DEF IInv, TypeOK, SameClient, StartRequest, clientVars
<1> QED
  BY <1>1, <1>2, <1>3, <1>4, ClientLocal DEF StartRequest

\* Saving a session to the file keeps the invariant.
LEMMA SaveSessionOK ==
  ASSUME IInv, NEW k \in Clients, SaveSession(k)
  PROVE  IInv'
<1>1. TypeOK'
  BY DEF IInv, TypeOK, SaveSession, callVars, clientVars, serverVars, connVars
<1>2. HeldInv'
  BY DEF IInv, HeldInv, SaveSession, Honest, Issued, SessionOf, PskOf,
         clientVars, serverVars, connVars
<1>3. \A j \in Clients : SameClient(j)
  BY DEF SameClient, SaveSession, callVars, clientVars
<1>4. Grows
  BY ShortLinkAssumption
     DEF IInv, TypeOK, Grows, SaveSession, serverVars, connVars, Epochs
<1>5. ClientInv(k)'
  BY <1>1, <1>3, <1>4, ClientStable DEF IInv
<1> QED
  BY <1>1, <1>2, <1>3, <1>5, ClientLocal DEF SaveSession

\* Loading the saved session keeps the invariant.
LEMMA LoadSessionOK ==
  ASSUME IInv, NEW k \in Clients, LoadSession(k)
  PROVE  IInv'
<1>1. TypeOK'
  BY DEF IInv, TypeOK, LoadSession, callVars, serverVars, connVars
<1>2. HeldInv'
  BY DEF IInv, TypeOK, HeldInv, LoadSession, Honest, Issued, SessionOf, PskOf,
         serverVars, connVars
<1>3. ClientInv(k)'
  BY DEF IInv, TypeOK, ClientInv, PlaceInv, LoadSession, callVars
<1>4. \A j \in Clients \ {k} : SameClient(j)
  BY DEF IInv, TypeOK, SameClient, LoadSession, callVars
<1> QED
  BY <1>1, <1>2, <1>3, <1>4, ClientLocal DEF LoadSession

\* A client process that restarts keeps the invariant.
LEMMA ClientRestartOK ==
  ASSUME IInv, NEW k \in Clients, ClientRestart(k)
  PROVE  IInv'
<1>1. TypeOK'
  <2>1. <<>> \in Transcripts
    BY DEF Transcripts
  <2>2. 0 \in 0..MaxConns
    BY ShortLinkAssumption
  <2> QED
    BY <2>1, <2>2 DEF IInv, TypeOK, ClientRestart, Return, DropLocals, Places,
       serverVars, connVars
<1>2. HeldInv'
  BY DEF IInv, TypeOK, HeldInv, ClientRestart, Honest, Issued, SessionOf, PskOf,
         serverVars, connVars
<1>3. ClientInv(k)'
  BY DEF IInv, TypeOK, ClientInv, PlaceInv, ClientRestart, Return
<1>4. \A j \in Clients \ {k} : SameClient(j)
  BY DEF IInv, TypeOK, SameClient, ClientRestart, Return, DropLocals
<1> QED
  BY <1>1, <1>2, <1>3, <1>4, ClientLocal DEF ClientRestart

-----------------------------------------------------------------------------
(* Steps that read a response.                                              *)

\* Reading ServerHello keeps the invariant: both ends hash alike.
LEMMA ReadServerHelloOK ==
  ASSUME IInv, NEW k \in Clients, ReadServerHello(k)
  PROVE  IInv'
<1>0. PICK a \in Nat, e \in Nat : a = at[k] /\ e = served[a]
  BY IssuedFacts DEF IInv, ClientInv, PlaceInv, ReadServerHello
<1>1. /\ Issued(a)
      /\ hasher[k] = <<EcdheHello(a)>>
      /\ sseq[k] = 0
      /\ reader[k] = 1
  BY <1>0 DEF IInv, ClientInv, PlaceInv, ReadServerHello
<1>2. HasNext(k) /\ Body(k) = ServerHello(a, e)
  BY <1>0, <1>1, HelloReads DEF IInv
<1>3. Body(k).msg = "serverHello" /\ Body(k).ref = e
  <2>1. ServerHello(a, e).msg = "serverHello" /\ ServerHello(a, e).ref = e
    BY DEF ServerHello, Message
  <2> QED
    BY <1>2, <2>1
<1>4. PICK h : h = HashToServerHello(EcdheHello(a), a, e)
  OBVIOUS
<1>5. Append(hasher[k], Body(k)) = h
  BY <1>1, <1>2, <1>4 DEF HashToServerHello
<1>6. PICK x : x = Ecdh(a, e)
  OBVIOUS
<1>7. PICK y : y = HandshakeKey(a)
  OBVIOUS
<1>8. TrafficKey56(x, "handshake key expansion", h) = y
  BY <1>0, <1>4, <1>6, <1>7 DEF HandshakeKey
<1>9. /\ h \in Transcripts
      /\ x \in ComKeys
      /\ y \in KeyPairs
  BY <1>0, <1>4, <1>6, <1>8, HandshakeTranscripts, SecretTypes, KeyTypes
     DEF KeyLabels
<1>10. /\ pc' = [pc EXCEPT ![k] = "signature"]
       /\ UNCHANGED <<call, outcome, status, session, at, reply, disk, serverVars,
                      connVars>>
       /\ reader' = [reader EXCEPT ![k] = 2]
       /\ sseq' = [sseq EXCEPT ![k] = 1]
       /\ hasher' = [hasher EXCEPT ![k] = h]
       /\ secret' = [secret EXCEPT ![k] = x]
       /\ key' = [key EXCEPT ![k] = y]
  <2>1. /\ Goto(k, "signature")
        /\ Consume(k)
        /\ hasher' = [hasher EXCEPT ![k] = Append(hasher[k], Body(k))]
        /\ secret' = [secret EXCEPT ![k] = Ecdh(at[k], Body(k).ref)]
        /\ key' = [key EXCEPT ![k] =
                     TrafficKey56(Ecdh(at[k], Body(k).ref),
                       "handshake key expansion", Append(hasher[k], Body(k)))]
        /\ UNCHANGED <<status, session, at, reply, disk, serverVars, connVars>>
    BY <1>2, <1>3 DEF ReadServerHello
  <2>2. Ecdh(at[k], Body(k).ref) = x
    BY <1>0, <1>3, <1>6
  <2>3. /\ hasher' = [hasher EXCEPT ![k] = h]
        /\ secret' = [secret EXCEPT ![k] = x]
        /\ key' = [key EXCEPT ![k] = y]
    BY <1>5, <1>8, <2>1, <2>2
  <2>4. reader[k] + 1 = 2 /\ sseq[k] + 1 = 1
    BY <1>1
  <2> QED
    BY <2>1, <2>3, <2>4 DEF Goto, Consume
<1>11. TypeOK'
  BY <1>9, <1>10 DEF IInv, TypeOK, Places, serverVars, connVars
<1>12. HeldInv'
  BY <1>10 DEF IInv, HeldInv, Honest, Issued, SessionOf, PskOf, serverVars, connVars
<1>13. ClientInv(k)'
  <2>1. /\ at'[k] = a /\ served'[a] = e /\ Issued(a)'
        /\ HandshakeKey(a)' = y
    BY <1>0, <1>1, <1>7, <1>10 DEF Issued, HandshakeKey, serverVars, connVars
  <2>2. /\ hasher'[k] = h /\ secret'[k] = x /\ key'[k] = y /\ sseq'[k] = 1
        /\ reader'[k] = 2 /\ pc'[k] = "signature"
    BY <1>10 DEF IInv, TypeOK
  <2> QED
    BY <1>4, <1>6, <1>10, <2>1, <2>2 DEF IInv, ClientInv, PlaceInv, Handshaking
<1>14. \A j \in Clients \ {k} : SameClient(j)
  BY <1>10 DEF IInv, TypeOK, SameClient
<1> QED
  BY <1>10, <1>11, <1>12, <1>13, <1>14, ClientLocal

\* Reading Signature keeps the invariant.
LEMMA ReadSignatureOK ==
  ASSUME IInv, NEW k \in Clients, ReadSignature(k)
  PROVE  IInv'
<1>0. PICK a \in Nat, e \in Nat : a = at[k] /\ e = served[a]
  BY IssuedFacts DEF IInv, ClientInv, PlaceInv, Handshaking, ReadSignature
<1>1. Handshaking(k, HashToServerHello(EcdheHello(a), a, e), 1)
  BY <1>0 DEF IInv, ClientInv, PlaceInv, ReadSignature
<1>2. NextOpens(k) /\ Body(k) = Signature(a, e)
  <2>1. PICK g : g = HashToServerHello(EcdheHello(a), a, e)
    OBVIOUS
  <2>2. Handshaking(k, g, 1) /\ 1 \in 1..3 /\ TypeOK
    BY <1>1, <2>1 DEF IInv
  <2> QED
    BY <1>0, <2>2, HandshakeReads
<1>3. CASE k \in Verifying => VerifyEcdsa(Body(k))
  <2>1. PICK h : h = HashToSignature(EcdheHello(a), a, e)
    OBVIOUS
  <2>2. Append(hasher[k], Body(k)) = h
    BY <1>1, <1>2, <2>1 DEF HashToSignature, Handshaking
  <2>3. h \in Transcripts
    BY <2>1, HandshakeTranscripts
  <2>4. /\ pc' = [pc EXCEPT ![k] = "ticket"]
        /\ UNCHANGED <<call, outcome, status, session, secret, key, at, reply,
                       disk, serverVars, connVars>>
        /\ reader' = [reader EXCEPT ![k] = 3]
        /\ sseq' = [sseq EXCEPT ![k] = 2]
        /\ hasher' = [hasher EXCEPT ![k] = h]
    <3>1. /\ Goto(k, "ticket")
          /\ Consume(k)
          /\ hasher' = [hasher EXCEPT ![k] = Append(hasher[k], Body(k))]
          /\ UNCHANGED <<status, session, secret, key, at, reply, disk, serverVars,
                         connVars>>
      BY <1>2, <1>3 DEF ReadSignature
    <3>2. reader[k] + 1 = 3 /\ sseq[k] + 1 = 2
      BY <1>1 DEF Handshaking
    <3> QED
      BY <2>2, <3>1, <3>2 DEF Goto, Consume
  <2>5. TypeOK'
    BY <2>3, <2>4 DEF IInv, TypeOK, Places, serverVars, connVars
  <2>6. HeldInv'
    BY <2>4 DEF IInv, HeldInv, Honest, Issued, SessionOf, PskOf, serverVars,
       connVars
  <2>7. ClientInv(k)'
    <3>1. /\ at'[k] = a /\ served'[a] = e /\ Issued(a)'
          /\ HandshakeKey(a)' = HandshakeKey(a)
      BY <1>0, <1>1, <2>4 DEF Issued, Handshaking, HandshakeKey, serverVars,
         connVars
    <3>2. /\ hasher'[k] = h /\ secret'[k] = secret[k] /\ key'[k] = key[k]
          /\ sseq'[k] = 2 /\ reader'[k] = 3 /\ pc'[k] = "ticket"
      BY <2>4 DEF IInv, TypeOK
    <3>3. Handshaking(k, h, 2)'
      BY <1>0, <1>1, <2>4, <3>1, <3>2 DEF Handshaking
    <3>4. /\ status'[k] = 1 => session'[k] # None
          /\ outcome'[k] # "protocol"
      BY <2>4 DEF IInv, ClientInv
    <3> QED
      BY <1>0, <2>1, <3>1, <3>2, <3>3, <3>4 DEF ClientInv, PlaceInv
  <2>8. \A j \in Clients \ {k} : SameClient(j)
    BY <2>4 DEF IInv, TypeOK, SameClient
  <2> QED
    BY <2>4, <2>5, <2>6, <2>7, <2>8, ClientLocal
<1>4. CASE ~ (k \in Verifying => VerifyEcdsa(Body(k)))
  <2>1. Fail(k, "unverified") /\ UNCHANGED <<disk, serverVars, connVars>>
    BY <1>2, <1>4 DEF ReadSignature
  <2> QED
    BY <2>1, FailOK
<1> QED
  BY <1>3, <1>4

\* Reading NewSessionTicket keeps the invariant: the PSK the client
\* derives is the one the server stored.
LEMMA ReadTicketOK ==
  ASSUME IInv, NEW k \in Clients, ReadTicket(k)
  PROVE  IInv'
<1>0. PICK a \in Nat, e \in Nat : a = at[k] /\ e = served[a]
  BY IssuedFacts DEF IInv, ClientInv, PlaceInv, Handshaking, ReadTicket
<1>1. Handshaking(k, HashToSignature(EcdheHello(a), a, e), 2)
  BY <1>0 DEF IInv, ClientInv, PlaceInv, ReadTicket
<1>2. NextOpens(k) /\ Body(k) = NewSessionTicket(a)
  <2>1. PICK g : g = HashToSignature(EcdheHello(a), a, e)
    OBVIOUS
  <2>2. Handshaking(k, g, 2) /\ 2 \in 1..3 /\ TypeOK
    BY <1>1, <2>1 DEF IInv
  <2> QED
    BY <1>0, <2>2, HandshakeReads
<1>3. PICK h : h = HashToTicket(EcdheHello(a), a, e)
  OBVIOUS
<1>4. Append(hasher[k], Body(k)) = h
  BY <1>1, <1>2, <1>3 DEF HashToTicket, Handshaking
<1>5. h \in Transcripts
  BY <1>3, HandshakeTranscripts
<1>6. PICK s : s = SessionOf(a)
  OBVIOUS
<1>7. s \in Sessions /\ s # None /\ Issued(a) /\ s.ticket = a
  BY <1>0, <1>1, <1>6, IssuedFacts DEF Handshaking, IInv
<1>8. [ticket |-> Body(k).fresh,
       psk |-> HkdfExpand(secret[k], "PSK_ACCESS", hasher[k])] = s
  <2>1. NewSessionTicket(a).fresh = a /\ EcdheHello(a).fresh = a
    BY DEF NewSessionTicket, EcdheHello, Message
  <2>2. Body(k).fresh = a
    BY <1>2, <2>1
  <2>3. HkdfExpand(secret[k], "PSK_ACCESS", hasher[k]) = PskOf(a)
    BY <1>0, <1>1, <2>1 DEF Handshaking, PskOf, IssuedPsk
  <2> QED
    BY <1>6, <2>2, <2>3 DEF SessionOf
<1>9. /\ pc' = [pc EXCEPT ![k] = "finish"]
      /\ UNCHANGED <<call, outcome, status, secret, key, at, reply, disk,
                     serverVars, connVars>>
      /\ reader' = [reader EXCEPT ![k] = 4]
      /\ sseq' = [sseq EXCEPT ![k] = 3]
      /\ hasher' = [hasher EXCEPT ![k] = h]
      /\ session' = [session EXCEPT ![k] = s]
  <2>1. /\ Goto(k, "finish")
        /\ Consume(k)
        /\ session' = [session EXCEPT
             ![k] = [ticket |-> Body(k).fresh,
                     psk |-> HkdfExpand(secret[k], "PSK_ACCESS", hasher[k])]]
        /\ hasher' = [hasher EXCEPT ![k] = Append(hasher[k], Body(k))]
        /\ UNCHANGED <<status, secret, key, at, reply, disk, serverVars, connVars>>
    BY <1>2 DEF ReadTicket
  <2>2. reader[k] + 1 = 4 /\ sseq[k] + 1 = 3
    BY <1>1 DEF Handshaking
  <2>3. hasher' = [hasher EXCEPT ![k] = h] /\ session' = [session EXCEPT ![k] = s]
    BY <1>4, <1>8, <2>1
  <2> QED
    BY <2>1, <2>2, <2>3 DEF Goto, Consume
<1>10. TypeOK'
  BY <1>5, <1>7, <1>9 DEF IInv, TypeOK, Places, serverVars, connVars
<1>11. Issued(a)' /\ SessionOf(a)' = s
  BY <1>6, <1>7, <1>9 DEF Issued, SessionOf, PskOf, serverVars, connVars
<1>12. HeldInv'
  <2>1. Honest(s)'
    BY <1>7, <1>11 DEF Honest
  <2>2. \A r : Honest(r) => Honest(r)'
    BY <1>9 DEF Honest, Issued, SessionOf, PskOf, serverVars, connVars
  <2> QED
    BY <1>9, <2>1, <2>2 DEF IInv, TypeOK, HeldInv
<1>13. ClientInv(k)'
  <2>1. /\ at'[k] = a /\ served'[a] = e
        /\ HandshakeKey(a)' = HandshakeKey(a)
    BY <1>0, <1>9 DEF HandshakeKey, serverVars, connVars
  <2>2. /\ hasher'[k] = h /\ secret'[k] = secret[k] /\ key'[k] = key[k]
        /\ sseq'[k] = 3 /\ reader'[k] = 4 /\ pc'[k] = "finish"
        /\ session'[k] = s
    BY <1>9 DEF IInv, TypeOK
  <2>3. Handshaking(k, h, 3)'
    BY <1>0, <1>1, <1>9, <1>11, <2>1, <2>2 DEF Handshaking
  <2>4. outcome'[k] # "protocol"
    BY <1>9 DEF IInv, ClientInv
  <2> QED
    BY <1>3, <1>7, <2>1, <2>2, <2>3, <2>4 DEF ClientInv, PlaceInv
<1>14. \A j \in Clients \ {k} : SameClient(j)
  BY <1>9 DEF IInv, TypeOK, SameClient
<1> QED
  BY <1>9, <1>10, <1>12, <1>13, <1>14, ClientLocal

\* Reading ServerFinish keeps the invariant.
LEMMA ReadFinishOK ==
  ASSUME IInv, NEW k \in Clients, ReadFinish(k)
  PROVE  IInv'
<1>0. PICK a \in Nat, e \in Nat : a = at[k] /\ e = served[a]
  BY IssuedFacts DEF IInv, ClientInv, PlaceInv, Handshaking, ReadFinish
<1>1. /\ Handshaking(k, HashToTicket(EcdheHello(a), a, e), 3)
      /\ session[k] # None
  BY <1>0 DEF IInv, ClientInv, PlaceInv, ReadFinish
<1>2. NextOpens(k) /\ Body(k) = Finish("server finished", secret[k], hasher[k])
  <2>1. PICK g : g = HashToTicket(EcdheHello(a), a, e)
    OBVIOUS
  <2>2. Handshaking(k, g, 3) /\ 3 \in 1..3 /\ TypeOK
    BY <1>1, <2>1 DEF IInv
  <2>3. NextOpens(k) /\ Body(k) = Finish("server finished", secret[k], g)
    BY <1>0, <2>1, <2>2, HandshakeReads
  <2> QED
    BY <2>2, <2>3 DEF Handshaking
<1>3. /\ status' = [status EXCEPT ![k] = 1]
      /\ sseq' = [sseq EXCEPT ![k] = 4]
      /\ DropLocals(k)
      /\ IF call[k] = "request" THEN Goto(k, "connecting")
                                ELSE Return(k, "handshaken")
      /\ UNCHANGED <<session, hasher, at, reply, disk, serverVars, connVars>>
  <2>1. sseq[k] + 1 = 4
    BY <1>1 DEF Handshaking
  <2> QED
    BY <1>2, <2>1 DEF ReadFinish
<1>4. TypeOK'
  <2>1. /\ pc' \in [Clients -> Places]
        /\ call' \in [Clients -> {"none", "handshake", "request"}]
        /\ outcome' \in [Clients -> {"none", "handshaken", "answered", "io",
                                    "protocol", "unverified", "cancelled"}]
    <3>1. CASE Goto(k, "connecting")
      BY <3>1 DEF IInv, TypeOK, Places, Goto
    <3>2. CASE Return(k, "handshaken")
      BY <3>2 DEF IInv, TypeOK, Places, Return
    <3> QED
      BY <1>3, <3>1, <3>2
  <2>2. /\ status' \in [Clients -> {0, 1}]
        /\ sseq' \in [Clients -> 0..4]
        /\ secret' \in [Clients -> ComKeys \cup {None}]
        /\ key' \in [Clients -> KeyPairs \cup {None}]
        /\ reader' \in [Clients -> 0..4]
    BY <1>3 DEF IInv, TypeOK, DropLocals
  <2>3. UNCHANGED <<session, hasher, at, reply, disk, epoch, sessions, opened,
                    stage, request, response, served>>
    BY <1>3 DEF serverVars, connVars
  <2> QED
    BY <2>1, <2>2, <2>3 DEF IInv, TypeOK
<1>5. HeldInv'
  BY <1>3 DEF IInv, HeldInv, Honest, Issued, SessionOf, PskOf, serverVars, connVars
<1>6. ClientInv(k)'
  BY <1>1, <1>3 DEF IInv, TypeOK, ClientInv, PlaceInv, Goto, Return
<1>7. \A j \in Clients \ {k} : SameClient(j)
  BY <1>3 DEF IInv, TypeOK, SameClient, DropLocals, Goto, Return
<1> QED
  BY <1>3, <1>4, <1>5, <1>6, <1>7, ClientLocal

\* Reading the ServerHello of an answer keeps the invariant.
LEMMA ReadPskHelloOK ==
  ASSUME IInv, NEW k \in Clients, ReadPskHello(k)
  PROVE  IInv'
<1>1. Answered(k, 0) /\ hasher[k] = HashOfRequest(k)
  BY DEF IInv, ClientInv, PlaceInv, ReadPskHello
<1>2. Asking(k) /\ sseq[k] = 0 /\ reader[k] = 1
  BY <1>1 DEF Answered
<1>3. HasNext(k) /\ Body(k) = ServerHello(at[k], served[at[k]])
  BY <1>1, <1>2, HelloReads DEF IInv
<1>4. PICK h, y : /\ h = AnswerHash(at[k], session[k].ticket, served[at[k]])
                  /\ y = ResponseKey(k)
  OBVIOUS
<1>5. Append(hasher[k], Body(k)) = h /\ h \in Transcripts /\ y \in KeyPairs
  BY <1>1, <1>2, <1>3, <1>4, AskingFacts DEF IInv
<1>6. ToServerHalf(TrafficKey28(session[k].psk, "handshake key expansion", h)) = y
  BY <1>4 DEF ResponseKey, AnswerKey
<1>7. /\ pc' = [pc EXCEPT ![k] = "pskFinish"]
      /\ UNCHANGED <<call, outcome, status, session, secret, at, reply, disk,
                     serverVars, connVars>>
      /\ reader' = [reader EXCEPT ![k] = 2]
      /\ sseq' = [sseq EXCEPT ![k] = 1]
      /\ hasher' = [hasher EXCEPT ![k] = h]
      /\ key' = [key EXCEPT ![k] = y]
  <2>1. /\ Goto(k, "pskFinish")
        /\ Consume(k)
        /\ hasher' = [hasher EXCEPT ![k] = Append(hasher[k], Body(k))]
        /\ key' = [key EXCEPT
             ![k] = ToServerHalf(TrafficKey28(session[k].psk,
                      "handshake key expansion", Append(hasher[k], Body(k))))]
        /\ UNCHANGED <<status, session, secret, at, reply, disk, serverVars,
                       connVars>>
    BY <1>3 DEF ReadPskHello
  <2>2. reader[k] + 1 = 2 /\ sseq[k] + 1 = 1
    BY <1>2
  <2>3. hasher' = [hasher EXCEPT ![k] = h] /\ key' = [key EXCEPT ![k] = y]
    BY <1>5, <1>6, <2>1
  <2> QED
    BY <2>1, <2>2, <2>3 DEF Goto, Consume
<1>8. TypeOK'
  BY <1>5, <1>7 DEF IInv, TypeOK, Places, serverVars, connVars
<1>9. HeldInv'
  BY <1>7 DEF IInv, HeldInv, Honest, Issued, SessionOf, PskOf, serverVars, connVars
<1>10. ClientInv(k)'
  <2>1. /\ Asking(k)' /\ ResponseKey(k)' = ResponseKey(k)
    BY <1>2, <1>7 DEF Asking, ResponseKey, serverVars, connVars
  <2>2. Answered(k, 1)'
    BY <1>1, <1>7, <2>1 DEF IInv, TypeOK, Answered, serverVars, connVars
  <2>3. key'[k] = ResponseKey(k)' /\ pc'[k] = "pskFinish"
    BY <1>4, <1>7, <2>1 DEF IInv, TypeOK
  <2> QED
    BY <1>7, <2>2, <2>3 DEF IInv, ClientInv, PlaceInv
<1>11. \A j \in Clients \ {k} : SameClient(j)
  BY <1>7 DEF IInv, TypeOK, SameClient
<1> QED
  BY <1>7, <1>8, <1>9, <1>10, <1>11, ClientLocal

\* A step that accepts record i + 1 of an answer and goes on to the next one.
LEMMA ConsumeAnswerOK ==
  ASSUME IInv, NEW k \in Clients, NEW i \in 1..2,
         Answered(k, i), key[k] = ResponseKey(k),
         Goto(k, IF i = 1 THEN "data" ELSE "abort"), Consume(k),
         UNCHANGED <<status, session, hasher, secret, key, at, disk, serverVars,
                     connVars>>,
         reply' \in [Clients -> Messages \cup {None}]
  PROVE  IInv'
<1>1. pc' = [pc EXCEPT ![k] = IF i = 1 THEN "data" ELSE "abort"]
      /\ UNCHANGED <<call, outcome>>
  BY DEF Goto
<1>2. reader' = [reader EXCEPT ![k] = i + 2] /\ sseq' = [sseq EXCEPT ![k] = i + 1]
  <2>1. reader[k] + 1 = i + 2 /\ sseq[k] + 1 = i + 1
    BY DEF Answered
  <2> QED
    BY <2>1 DEF Consume
<1>3. TypeOK'
  BY <1>1, <1>2 DEF IInv, TypeOK, Places, serverVars, connVars
<1>4. HeldInv'
  BY DEF IInv, HeldInv, Honest, Issued, SessionOf, PskOf, serverVars, connVars
<1>5. ClientInv(k)'
  <2>1. Asking(k)' /\ ResponseKey(k)' = ResponseKey(k)
    BY DEF Answered, Asking, ResponseKey, serverVars, connVars
  <2>2. reader'[k] = i + 2 /\ sseq'[k] = i + 1
    BY <1>2 DEF IInv, TypeOK
  <2>3. Answered(k, i + 1)'
    BY <1>2, <2>1, <2>2 DEF Answered, serverVars, connVars
  <2>4. CASE i = 1
    BY <1>1, <2>1, <2>3, <2>4 DEF IInv, TypeOK, ClientInv, PlaceInv
  <2>5. CASE i = 2
    BY <1>1, <2>1, <2>3, <2>5 DEF IInv, TypeOK, ClientInv, PlaceInv
  <2> QED
    BY <2>4, <2>5
<1>6. \A j \in Clients \ {k} : SameClient(j)
  BY <1>1, <1>2 DEF IInv, TypeOK, SameClient
<1> QED
  BY <1>3, <1>4, <1>5, <1>6, ClientLocal

\* Reading the ServerFinish of an answer keeps the invariant.
LEMMA ReadPskFinishOK ==
  ASSUME IInv, NEW k \in Clients, ReadPskFinish(k)
  PROVE  IInv'
<1>1. Answered(k, 1) /\ key[k] = ResponseKey(k) /\ 1 \in 1..3
  BY DEF IInv, ClientInv, PlaceInv, ReadPskFinish
<1>2. NextOpens(k)
  BY <1>1, AnswerReads DEF IInv
<1>3. /\ Goto(k, "data") /\ Consume(k)
      /\ UNCHANGED <<status, session, hasher, secret, key, at, reply, disk,
                     serverVars, connVars>>
  BY <1>2 DEF ReadPskFinish
<1>4. reply' \in [Clients -> Messages \cup {None}]
  BY <1>3 DEF IInv, TypeOK
<1> QED
  BY <1>1, <1>3, <1>4, ConsumeAnswerOK

\* Reading the data of an answer keeps the invariant.
LEMMA ReadDataOK ==
  ASSUME IInv, NEW k \in Clients, ReadData(k)
  PROVE  IInv'
<1>1. Answered(k, 2) /\ key[k] = ResponseKey(k) /\ 2 \in 1..3
  BY DEF IInv, ClientInv, PlaceInv, ReadData
<1>2. NextOpens(k) /\ Body(k) \in Messages
  BY <1>1, AnswerReads DEF IInv
<1>3. /\ Goto(k, "abort") /\ Consume(k)
      /\ reply' = [reply EXCEPT ![k] = Body(k)]
      /\ UNCHANGED <<status, session, hasher, secret, key, at, disk, serverVars,
                     connVars>>
  BY <1>2 DEF ReadData
<1>4. reply' \in [Clients -> Messages \cup {None}]
  BY <1>2, <1>3 DEF IInv, TypeOK
<1> QED
  BY <1>1, <1>3, <1>4, ConsumeAnswerOK

\* Reading the last record of an answer keeps the invariant.
LEMMA ReadAbortOK ==
  ASSUME IInv, NEW k \in Clients, ReadAbort(k)
  PROVE  IInv'
<1>1. Answered(k, 3) /\ key[k] = ResponseKey(k) /\ 3 \in 1..3
  BY DEF IInv, ClientInv, PlaceInv, ReadAbort
<1>2. NextOpens(k)
  BY <1>1, AnswerReads DEF IInv
<1>3. /\ Return(k, "answered")
      /\ sseq' = [sseq EXCEPT ![k] = 4]
      /\ DropLocals(k)
      /\ UNCHANGED <<status, session, hasher, at, reply, disk, serverVars, connVars>>
  <2>1. sseq[k] + 1 = 4
    BY <1>1 DEF Answered
  <2> QED
    BY <1>2, <2>1 DEF ReadAbort
<1>4. TypeOK'
  BY <1>3 DEF IInv, TypeOK, Places, DropLocals, Return, serverVars, connVars
<1>5. HeldInv'
  BY <1>3 DEF IInv, HeldInv, Honest, Issued, SessionOf, PskOf, serverVars, connVars
<1>6. ClientInv(k)'
  BY <1>3 DEF IInv, TypeOK, ClientInv, PlaceInv, Return
<1>7. \A j \in Clients \ {k} : SameClient(j)
  BY <1>3 DEF IInv, TypeOK, SameClient, DropLocals, Return
<1> QED
  BY <1>3, <1>4, <1>5, <1>6, <1>7, ClientLocal

-----------------------------------------------------------------------------
(* Steps that touch one connection.                                         *)

\* A server that took a request took one that was written.
LEMMA ServedConn ==
  ASSUME IInv, NEW c \in Conns
  PROVE  /\ served[c] # 0 => request[c] # <<>>
         /\ stage[c] \notin {"unused"} => c <= opened
         /\ c > opened => UnusedConn(c)
         /\ served[c] \in 0..epoch
<1>0. ConnInv(c) /\ c \in Nat /\ opened \in Nat /\ epoch \in Nat
  BY ShortLinkAssumption DEF IInv, TypeOK, Conns, Epochs
<1>1. CASE UnusedConn(c)
  BY <1>0, <1>1 DEF UnusedConn
<1>2. CASE HandshakeConn(c)
  BY <1>0, <1>2, HelloRequestNonEmpty DEF HandshakeConn, Issued, Unserved
<1>3. CASE RequestConn(c)
  <2>1. PICK t \in Conns : Issued(t) /\ request[c] = RequestRecords(c, SessionOf(t))
    BY <1>3 DEF RequestConn
  <2>2. PICK s : s = SessionOf(t)
    OBVIOUS
  <2>3. s \in Presentable
    BY <2>1, <2>2, IssuedFacts DEF IInv
  <2>4. request[c] # <<>>
    BY <1>0, <2>1, <2>2, <2>3, RequestKinds
  <2> QED
    BY <1>0, <1>3, <2>4 DEF RequestConn, Unserved
<1> QED
  BY <1>0, <1>1, <1>2, <1>3 DEF ConnInv

\* The map stays right while no ticket is issued.
LEMMA MapKept ==
  ASSUME IInv, TypeOK', Grows, UNCHANGED <<epoch, sessions>>,
         \A t \in Conns : Issued(t)' => Issued(t)
  PROVE  MapInv'
<1> SUFFICES ASSUME NEW t \in Conns
             PROVE  sessions'[t] = IF Issued(t)' /\ served'[t] = epoch'
                                   THEN PskOf(t)' ELSE None
  BY DEF MapInv
<1>1. CASE Issued(t)
  BY <1>1, IssuedStable DEF IInv, MapInv
<1>2. CASE ~ Issued(t)
  BY <1>2 DEF IInv, MapInv
<1> QED
  BY <1>1, <1>2

\* No ticket is issued while no request is served.
LEMMA MapStable ==
  ASSUME IInv, TypeOK', Grows, UNCHANGED <<epoch, sessions, served>>
  PROVE  MapInv'
<1>1. ASSUME NEW t \in Conns, Issued(t)' PROVE Issued(t)
  <2>1. served[t] # 0 /\ served[t] \in 1..epoch
    BY <1>1, ShortLinkAssumption DEF IInv, Issued, TypeOK, Epochs
  <2>2. request'[t] = request[t] /\ response'[t] = response[t]
    BY <2>1, ServedConn DEF Grows
  <2> QED
    BY <1>1, <2>1, <2>2 DEF Issued
<1> QED
  BY <1>1, MapKept

\* A held session is unaffected by new connections.
LEMMA HeldStable ==
  ASSUME TypeOK, TypeOK', Grows, HeldInv, UNCHANGED <<session, disk>>
  PROVE  HeldInv'
  BY HonestStable DEF HeldInv

\* What a step on connection c has to show.
LEMMA ConnStep ==
  ASSUME IInv, TypeOK', Grows, UNCHANGED <<session, disk>>,
         NEW c \in Conns, ConnInv(c)', MapInv',
         \A d \in Conns \ {c} : SameConn(d) /\ (d > opened => d > opened'),
         \A k \in Clients : SameClient(k) \/ ClientInv(k)'
  PROVE  IInv'
<1>1. HeldInv'
  BY HeldStable DEF IInv
<1>2. ASSUME NEW d \in Conns PROVE ConnInv(d)'
  <2>1. CASE d = c
    BY <2>1
  <2>2. CASE d # c
    BY <2>2, ConnStable DEF IInv
  <2> QED
    BY <2>1, <2>2
<1>3. ASSUME NEW k \in Clients PROVE ClientInv(k)'
  BY ClientStable DEF IInv
<1> QED
  BY <1>1, <1>2, <1>3 DEF IInv

\* The next connection is one nothing has happened on yet.
LEMMA FreshFacts ==
  ASSUME IInv, opened < MaxConns
  PROVE  /\ Fresh \in Conns /\ Fresh \in Nat /\ Fresh \in 1..MaxConns
         /\ UnusedConn(Fresh)
         /\ Fresh > opened
<1>1. opened \in Nat /\ MaxConns \in Nat
  BY ShortLinkAssumption DEF IInv, TypeOK
<1>2. Fresh \in Conns /\ Fresh \in Nat /\ Fresh > opened
  BY <1>1 DEF Fresh, Conns
<1> QED
  BY <1>1, <1>2, ServedConn DEF Conns

\* Sending a ClientHello on a fresh connection keeps the invariant.
LEMMA StartHandshakeOK ==
  ASSUME IInv, NEW k \in Clients, NEW api \in {"handshake", "request"},
         StartHandshake(k, api)
  PROVE  IInv'
<1>1. PICK c \in Conns : c = Fresh
  BY FreshFacts DEF StartHandshake
<1>2. /\ c \in Nat /\ c \in 1..MaxConns /\ c > opened /\ UnusedConn(c)
      /\ opened \in Nat
  BY <1>1, FreshFacts, ShortLinkAssumption DEF StartHandshake, IInv, TypeOK
<1>3. PICK h : h = <<EcdheHello(c)>>
  OBVIOUS
<1>4. PICK r : r = EcdheRequest(c)
  OBVIOUS
<1>5. /\ pc' = [pc EXCEPT ![k] = "helloSent"]
      /\ call' = [call EXCEPT ![k] = api]
      /\ hasher' = [hasher EXCEPT ![k] = h]
      /\ sseq' = [sseq EXCEPT ![k] = 0]
      /\ opened' = c
      /\ at' = [at EXCEPT ![k] = c]
      /\ stage' = [stage EXCEPT ![c] = "sent"]
      /\ request' = [request EXCEPT ![c] = r]
      /\ UNCHANGED <<response, served, outcome, status, session, secret, key,
                     reader, reply, disk, epoch, sessions>>
  BY <1>1, <1>3, <1>4 DEF StartHandshake, OpenConnection, EcdheRequest, serverVars
<1>6. h \in Transcripts /\ r \in Seq(Records)
  <2>1. EcdheHello(c) \in Messages
    BY <1>2, MessageFacts
  <2>2. Clear(EcdheHello(c)) \in Records
    BY <2>1, RecordTypes
  <2> QED
    BY <1>3, <1>4, <2>1, <2>2, TranscriptFacts DEF EcdheRequest
<1>7. TypeOK'
  <2>1. c \in 0..MaxConns
    BY <1>2
  <2>2. call' \in [Clients -> {"none", "handshake", "request"}]
    BY <1>5 DEF IInv, TypeOK
  <2>3. /\ pc' \in [Clients -> Places]
        /\ hasher' \in [Clients -> Transcripts]
        /\ sseq' \in [Clients -> 0..4]
        /\ at' \in [Clients -> 0..MaxConns]
    BY <1>5, <1>6, <2>1 DEF IInv, TypeOK, Places
  <2>4. /\ opened' \in 0..MaxConns
        /\ stage' \in [Conns -> {"unused", "sent", "built", "replied", "refused",
                                "lost", "done"}]
        /\ request' \in [Conns -> Seq(Records)]
    BY <1>5, <1>6, <2>1 DEF IInv, TypeOK
  <2> QED
    BY <1>5, <2>2, <2>3, <2>4 DEF IInv, TypeOK
<1>8. Grows
  BY <1>2, <1>5, ShortLinkAssumption
     DEF IInv, TypeOK, Grows, UnusedConn, Epochs
<1>9. ConnInv(c)'
  <2>1. /\ c <= opened'
        /\ stage'[c] = "sent" /\ request'[c] = r
        /\ response'[c] = <<>> /\ served'[c] = 0
    BY <1>2, <1>5 DEF IInv, TypeOK, UnusedConn
  <2> QED
    BY <1>4, <2>1 DEF ConnInv, HandshakeConn, Unserved, EcdheRequest
<1>10. MapInv'
  BY <1>5, <1>7, <1>8, MapStable
<1>11. \A d \in Conns \ {c} : SameConn(d) /\ (d > opened => d > opened')
  <2>1. \A d \in Conns \ {c} : d > opened => d > c
    BY <1>1, <1>2, ShortLinkAssumption DEF Conns, Fresh
  <2> QED
    BY <1>5, <2>1 DEF IInv, TypeOK, SameConn
<1>12. ClientInv(k)'
  <2>1. /\ pc'[k] = "helloSent" /\ at'[k] = c /\ hasher'[k] = h /\ sseq'[k] = 0
        /\ request'[c] = r /\ c \in 1..opened'
        /\ outcome'[k] = outcome[k] /\ status'[k] = status[k]
        /\ session'[k] = session[k]
    BY <1>2, <1>5 DEF IInv, TypeOK
  <2> QED
    BY <1>3, <1>4, <2>1 DEF IInv, ClientInv, PlaceInv, EcdheRequest
<1>13. \A j \in Clients : j # k => SameClient(j)
  BY <1>5 DEF IInv, TypeOK, SameClient
<1> QED
  BY <1>5, <1>7, <1>8, <1>9, <1>10, <1>11, <1>12, <1>13, ConnStep

\* Sending a request on a fresh connection keeps the invariant.
LEMMA SendRequestOK ==
  ASSUME IInv, NEW k \in Clients, SendRequest(k)
  PROVE  IInv'
<1>1. PICK c \in Conns : c = Fresh
  BY FreshFacts DEF SendRequest
<1>2. /\ c \in Nat /\ c \in 1..MaxConns /\ c > opened /\ UnusedConn(c)
      /\ opened \in Nat
  BY <1>1, FreshFacts, ShortLinkAssumption DEF SendRequest, IInv, TypeOK
<1>3. PICK s : s = session[k]
  OBVIOUS
<1>4. PICK h : h = RequestHash(c, s.ticket)
  OBVIOUS
<1>5. PICK r : r = RequestRecords(c, s)
  OBVIOUS
<1>6. /\ s # None /\ Honest(s) /\ Issued(s.ticket) /\ s = SessionOf(s.ticket)
      /\ s \in Presentable /\ s.ticket \in Conns
  BY <1>3, IssuedFacts DEF IInv, HeldInv, Honest, SendRequest
<1>7. /\ pc' = [pc EXCEPT ![k] = "requestSent"]
      /\ hasher' = [hasher EXCEPT ![k] = h]
      /\ sseq' = [sseq EXCEPT ![k] = 0]
      /\ opened' = c
      /\ at' = [at EXCEPT ![k] = c]
      /\ stage' = [stage EXCEPT ![c] = "sent"]
      /\ request' = [request EXCEPT ![c] = r]
      /\ UNCHANGED <<call, response, served, outcome, status, session, secret, key,
                     reader, reply, disk, epoch, sessions>>
  BY <1>1, <1>3, <1>4, <1>5
     DEF SendRequest, OpenConnection, Goto, RequestHash, serverVars
<1>8. h \in Transcripts /\ r \in Seq(Records)
  <2>1. h \in Transcripts
    BY <1>2, <1>4, <1>6, AnswerTypes
  <2>2. r \in Seq(Records)
    BY <1>2, <1>5, <1>6, RequestRecordsFacts
  <2> QED
    BY <2>1, <2>2
<1>9. TypeOK'
  <2>1. /\ pc' \in [Clients -> Places]
        /\ hasher' \in [Clients -> Transcripts]
        /\ sseq' \in [Clients -> 0..4]
    BY <1>7, <1>8 DEF IInv, TypeOK, Places
  <2>2. /\ at' \in [Clients -> 0..MaxConns]
        /\ opened' \in 0..MaxConns
    BY <1>2, <1>7, ShortLinkAssumption DEF IInv, TypeOK
  <2>3. /\ stage' \in [Conns -> {"unused", "sent", "built", "replied", "refused",
                                "lost", "done"}]
        /\ request' \in [Conns -> Seq(Records)]
    BY <1>7, <1>8 DEF IInv, TypeOK
  <2> QED
    BY <1>7, <2>1, <2>2, <2>3 DEF IInv, TypeOK
<1>10. Grows
  BY <1>2, <1>7, ShortLinkAssumption
     DEF IInv, TypeOK, Grows, UnusedConn, Epochs
<1>11. ConnInv(c)'
  <2>1. /\ c <= opened'
        /\ stage'[c] = "sent" /\ request'[c] = r
        /\ response'[c] = <<>> /\ served'[c] = 0
    BY <1>2, <1>7 DEF IInv, TypeOK, UnusedConn
  <2>2. PICK t \in Conns : t = s.ticket
    BY <1>6
  <2>3. Issued(t)' /\ SessionOf(t)' = s
    BY <1>6, <1>9, <1>10, <2>2, IssuedStable DEF IInv
  <2> QED
    BY <1>5, <2>1, <2>3 DEF ConnInv, RequestConn, Unserved
<1>12. MapInv'
  BY <1>7, <1>9, <1>10, MapStable
<1>13. \A d \in Conns \ {c} : SameConn(d) /\ (d > opened => d > opened')
  <2>1. \A d \in Conns \ {c} : d > opened => d > c
    BY <1>1, <1>2, ShortLinkAssumption DEF Conns, Fresh
  <2> QED
    BY <1>7, <2>1 DEF IInv, TypeOK, SameConn
<1>14. ClientInv(k)'
  <2>1. /\ pc'[k] = "requestSent" /\ at'[k] = c /\ hasher'[k] = h /\ sseq'[k] = 0
        /\ request'[c] = r /\ c \in 1..opened'
        /\ outcome'[k] = outcome[k] /\ status'[k] = status[k]
        /\ session'[k] = s
    BY <1>2, <1>3, <1>7 DEF IInv, TypeOK
  <2> QED
    BY <1>4, <1>5, <1>6, <2>1 DEF IInv, ClientInv, PlaceInv, Asking, HashOfRequest
<1>15. \A j \in Clients : j # k => SameClient(j)
  BY <1>7 DEF IInv, TypeOK, SameClient
<1> QED
  BY <1>7, <1>9, <1>10, <1>11, <1>12, <1>13, <1>14, <1>15, ConnStep

\* A connection that only moves on to its next stage keeps its invariant.
LEMMA StageMoves ==
  ASSUME IInv, TypeOK', Grows, NEW c \in Conns,
         UNCHANGED <<opened, request, response, served>>,
         \/ stage'[c] = stage[c]
         \/ stage[c] \in {"sent", "built", "replied"} /\ stage'[c] = "lost"
         \/ stage[c] = "built" /\ stage'[c] = "replied"
         \/ stage[c] = "replied" /\ stage'[c] = "done"
  PROVE  ConnInv(c)'
<1>0. ConnInv(c) /\ TypeOK /\ epoch \in Nat /\ epoch' \in Nat /\ epoch <= epoch'
      /\ served[c] \in Nat
  BY ShortLinkAssumption DEF IInv, TypeOK, Epochs, Grows
<1>1. CASE UnusedConn(c)
  BY <1>1 DEF UnusedConn, ConnInv
<1>2. CASE HandshakeConn(c)
  <2>1. CASE Unserved(c)
    BY <1>2, <2>1 DEF Unserved, HandshakeConn, ConnInv, EcdheRequest
  <2>2. CASE Issued(c) /\ stage[c] \in {"built", "replied", "lost", "done"}
    <3>1. Issued(c)'
      BY <1>0, <2>2, IssuedStable
    <3> QED
      BY <1>2, <2>2, <3>1 DEF HandshakeConn, ConnInv, EcdheRequest
  <2> QED
    BY <1>2, <2>1, <2>2 DEF HandshakeConn
<1>3. CASE RequestConn(c)
  <2>1. PICK t \in Conns :
       /\ Issued(t)
       /\ request[c] = RequestRecords(c, SessionOf(t))
       /\ \/ Unserved(c)
          \/ /\ stage[c] = "refused"
             /\ response[c] = <<>>
             /\ served[c] \in 1..epoch
             /\ served[t] < served[c]
          \/ /\ stage[c] \in {"built", "replied", "lost", "done"}
             /\ served[c] \in 1..epoch
             /\ response[c] = PskRecords(request[c], PskOf(t), c, served[c])
    BY <1>3 DEF RequestConn
  <2>2. Issued(t)' /\ PskOf(t)' = PskOf(t) /\ SessionOf(t)' = SessionOf(t)
    BY <1>0, <2>1, IssuedStable
  <2>3. served[c] \in 1..epoch => served'[c] \in 1..epoch'
    BY <1>0
  <2>4. Unserved(c) => Unserved(c)'
    BY DEF Unserved
  <2>5. request'[c] = RequestRecords(c, SessionOf(t)')
    BY <2>1, <2>2
  <2>6. response'[c] = response[c] /\ request'[c] = request[c]
        /\ served'[c] = served[c] /\ served'[t] = served[t]
    OBVIOUS
  <2>7. RequestConn(c)'
    <3>1. CASE Unserved(c)
      BY <1>3, <2>2, <2>4, <2>5, <3>1 DEF RequestConn
    <3>2. CASE stage[c] = "refused" /\ response[c] = <<>>
               /\ served[c] \in 1..epoch /\ served[t] < served[c]
      BY <1>3, <2>2, <2>3, <2>5, <2>6, <3>2 DEF RequestConn
    <3>3. CASE stage[c] \in {"built", "replied", "lost", "done"}
               /\ served[c] \in 1..epoch
               /\ response[c] = PskRecords(request[c], PskOf(t), c, served[c])
      BY <1>3, <2>2, <2>3, <2>5, <2>6, <3>3 DEF RequestConn
    <3> QED
      BY <2>1, <3>1, <3>2, <3>3
  <2> QED
    BY <2>7 DEF ConnInv
<1> QED
  BY <1>0, <1>1, <1>2, <1>3 DEF ConnInv

\* What the invariant says of a connection by its hello.
LEMMA HelloFacts ==
  ASSUME IInv, NEW c \in Conns, stage[c] # "unused"
  PROVE  /\ Hello(c).msg # "pskHello" =>
              HandshakeConn(c) /\ Hello(c) = EcdheHello(c)
         /\ Hello(c).msg # "ecdheHello" =>
              RequestConn(c) /\ request[c] # EcdheRequest(c)
         /\ \A t \in Conns : Issued(t) /\ request[c] = RequestRecords(c, SessionOf(t))
              => Hello(c).ref = t /\ Hello(c).msg = "pskHello"
<1>0. c \in Nat /\ ConnInv(c) /\ ~ UnusedConn(c)
  BY ShortLinkAssumption DEF IInv, Conns, UnusedConn
<1>1. ASSUME NEW t \in Conns, Issued(t), request[c] = RequestRecords(c, SessionOf(t))
      PROVE  /\ Hello(c).ref = t /\ Hello(c).msg = "pskHello"
             /\ request[c] # EcdheRequest(c)
  <2>1. PICK s : s = SessionOf(t)
    OBVIOUS
  <2>2. s.ticket = t /\ s \in Presentable
    BY <1>1, <2>1, IssuedFacts DEF IInv
  <2>3. Hello(c) = PskHello(c, s.ticket) /\ request[c] # EcdheRequest(c)
    BY <1>0, <1>1, <2>1, <2>2, RequestKinds DEF Hello
  <2>4. PskHello(c, s.ticket).ref = s.ticket /\ PskHello(c, s.ticket).msg = "pskHello"
    BY DEF PskHello, Message
  <2> QED
    BY <2>2, <2>3, <2>4
<1>2. RequestConn(c) =>
        Hello(c).msg = "pskHello" /\ request[c] # EcdheRequest(c)
  BY <1>1 DEF RequestConn
<1>3. HandshakeConn(c) => Hello(c) = EcdheHello(c)
  <2>1. PICK s : s \in Presentable
    <3>1. <<>> \in Transcripts /\ Ecdh(0, 0) \in ComKeys
      BY DEF Transcripts, Ecdh, ComKeys
    <3>2. HkdfExpand(Ecdh(0, 0), "PSK_ACCESS", <<>>) \in Psks
      BY <3>1 DEF HkdfExpand, Psks
    <3>3. [ticket |-> 0, psk |-> HkdfExpand(Ecdh(0, 0), "PSK_ACCESS", <<>>)]
            \in Presentable
      BY <3>2 DEF Presentable
    <3> QED
      BY <3>3
  <2> QED
    BY <1>0, <2>1, RequestKinds DEF HandshakeConn, Hello
<1>4. EcdheHello(c).msg = "ecdheHello"
  BY DEF EcdheHello, Message
<1> QED
  BY <1>0, <1>1, <1>2, <1>3, <1>4 DEF ConnInv

\* Receiving a whole response keeps the invariant.
LEMMA ReceiveResponseOK ==
  ASSUME IInv, NEW k \in Clients, ReceiveResponse(k)
  PROVE  IInv'
<1>1. PICK c : c = at[k]
  OBVIOUS
<1>2. PICK place : place = IF pc[k] = "helloSent" THEN "serverHello" ELSE "pskHello"
  OBVIOUS
<1>3. c \in Conns /\ c \in Nat /\ stage[c] = "replied"
      /\ pc[k] \in {"helloSent", "requestSent"}
  BY <1>1, ShortLinkAssumption
     DEF IInv, TypeOK, ClientInv, PlaceInv, Asking, ReceiveResponse, Conns
<1>4. /\ pc' = [pc EXCEPT ![k] = place]
      /\ reader' = [reader EXCEPT ![k] = 1]
      /\ stage' = [stage EXCEPT ![c] = "done"]
      /\ UNCHANGED <<call, outcome, status, session, hasher, sseq, secret, key, at,
                     reply, disk, epoch, sessions, opened, request, response, served>>
  BY <1>1, <1>2 DEF ReceiveResponse, Goto, serverVars
<1>5. TypeOK'
  <2>1. place \in Places
    BY <1>2 DEF Places
  <2>2. pc' \in [Clients -> Places]
    BY <1>4, <2>1 DEF IInv, TypeOK
  <2>3. reader' \in [Clients -> 0..4]
    BY <1>4 DEF IInv, TypeOK
  <2>4. stage' \in [Conns -> {"unused", "sent", "built", "replied", "refused",
                             "lost", "done"}]
    BY <1>4 DEF IInv, TypeOK
  <2> QED
    BY <1>4, <2>2, <2>3, <2>4 DEF IInv, TypeOK
<1>6. Grows
  BY <1>4, ShortLinkAssumption DEF IInv, TypeOK, Grows, Epochs
<1>7. stage'[c] = "done" /\ \A d \in Conns \ {c} : stage'[d] = stage[d]
  BY <1>3, <1>4 DEF IInv, TypeOK
<1>8. ConnInv(c)'
  BY <1>3, <1>4, <1>5, <1>6, <1>7, StageMoves
<1>9. MapInv'
  BY <1>4, <1>5, <1>6, MapStable
<1>10. \A d \in Conns \ {c} : SameConn(d) /\ (d > opened => d > opened')
  BY <1>4, <1>7 DEF SameConn
<1>11. /\ at'[k] = c /\ reader'[k] = 1 /\ pc'[k] = place /\ sseq'[k] = 0
       /\ hasher'[k] = hasher[k] /\ session'[k] = session[k]
       /\ outcome'[k] = outcome[k] /\ status'[k] = status[k]
  BY <1>1, <1>3, <1>4 DEF IInv, TypeOK, ClientInv, PlaceInv
<1>12. \A j \in Clients : j # k => SameClient(j)
  BY <1>4 DEF IInv, TypeOK, SameClient
<1>13. CASE pc[k] = "helloSent"
  <2>1. request[c] = EcdheRequest(c) /\ hasher[k] = <<EcdheHello(c)>>
    BY <1>1, <1>13 DEF IInv, ClientInv, PlaceInv
  <2>2. HandshakeConn(c)
    BY <1>3, <2>1, HelloFacts
  <2>3. Issued(c)
    BY <1>3, <2>2 DEF HandshakeConn, Unserved
  <2>4. Issued(c)'
    BY <1>5, <1>6, <2>3, IssuedStable DEF IInv
  <2>5. ClientInv(k)'
    BY <1>2, <1>11, <1>13, <2>1, <2>4 DEF IInv, ClientInv, PlaceInv
  <2> QED
    BY <1>3, <1>4, <1>5, <1>6, <1>8, <1>9, <1>10, <1>12, <2>5, ConnStep
<1>14. CASE pc[k] = "requestSent"
  <2>1. PICK s : s = session[k]
    OBVIOUS
  <2>2. /\ Asking(k) /\ s # None /\ hasher[k] = HashOfRequest(k)
        /\ request[c] = RequestRecords(c, s)
    BY <1>1, <1>14, <2>1 DEF IInv, ClientInv, PlaceInv, Asking
  <2>3. /\ Issued(s.ticket) /\ s = SessionOf(s.ticket) /\ s.ticket \in Conns
        /\ s.psk = PskOf(s.ticket)
    BY <2>1, <2>2, IssuedFacts DEF IInv, HeldInv, Honest
  <2>4. Hello(c).ref = s.ticket /\ Hello(c).msg = "pskHello"
    BY <1>3, <2>2, <2>3, HelloFacts
  <2>5. RequestConn(c)
    BY <1>3, <2>4, HelloFacts
  <2>6. served[c] \in 1..epoch /\ response[c] = PskRecords(request[c], s.psk, c, served[c])
    <3>1. PICK t \in Conns :
            /\ Issued(t)
            /\ request[c] = RequestRecords(c, SessionOf(t))
            /\ served[c] \in 1..epoch
            /\ response[c] = PskRecords(request[c], PskOf(t), c, served[c])
      BY <1>3, <2>5 DEF RequestConn, Unserved
    <3>2. t = s.ticket
      BY <1>3, <2>4, <3>1, HelloFacts
    <3> QED
      BY <2>3, <3>1, <3>2
  <2>7. Asking(k)' /\ HashOfRequest(k)' = HashOfRequest(k)
    BY <1>4, <2>2 DEF Asking, HashOfRequest
  <2>8. Answered(k, 0)'
    BY <1>1, <1>4, <1>11, <2>1, <2>6, <2>7 DEF Answered
  <2>9. ClientInv(k)'
    BY <1>2, <1>11, <1>14, <2>2, <2>7, <2>8 DEF IInv, ClientInv, PlaceInv
  <2> QED
    BY <1>3, <1>4, <1>5, <1>6, <1>8, <1>9, <1>10, <1>12, <2>9, ConnStep
<1> QED
  BY <1>3, <1>13, <1>14

-----------------------------------------------------------------------------
(* Steps of the server.                                                     *)

\* The server's handshake keeps the invariant: the ticket it hands out is
\* in its map.
LEMMA IssueTicketOK ==
  ASSUME IInv, NEW c \in Conns, IssueTicket(c)
  PROVE  IInv'
<1>1. /\ c \in Nat /\ epoch \in Nat /\ epoch \in 1..MaxEpochs /\ epoch \in 1..epoch
      /\ stage[c] = "sent"
  BY ShortLinkAssumption DEF IInv, TypeOK, Conns, Epochs, IssueTicket
<1>2. HandshakeConn(c) /\ Hello(c) = EcdheHello(c)
  BY <1>1, HelloFacts DEF IssueTicket
<1>3. Unserved(c) /\ request[c] = EcdheRequest(c) /\ c <= opened
  BY <1>1, <1>2 DEF HandshakeConn
<1>4. PICK r : r = EcdheRecords(EcdheHello(c), c, epoch)
  OBVIOUS
<1>5. PICK p : p = IssuedPsk(EcdheHello(c), c, epoch)
  OBVIOUS
<1>6. /\ stage' = [stage EXCEPT ![c] = "built"]
      /\ served' = [served EXCEPT ![c] = epoch]
      /\ response' = [response EXCEPT ![c] = r]
      /\ sessions' = [sessions EXCEPT ![c] = p]
      /\ UNCHANGED <<call, pc, outcome, status, session, hasher, sseq, secret, key,
                     reader, at, reply, disk, epoch, opened, request>>
  BY <1>2, <1>4, <1>5 DEF IssueTicket, callVars, clientVars
<1>7. r \in Seq(Records) /\ p \in Psks
  <2>1. r \in Seq(Records)
    BY <1>1, <1>4, EcdheRecordsFacts
  <2>2. p \in Psks
    BY <1>1, <1>5, SecretTypes
  <2> QED
    BY <2>1, <2>2
<1>8. TypeOK'
  <2>1. /\ stage' \in [Conns -> {"unused", "sent", "built", "replied", "refused",
                                "lost", "done"}]
        /\ response' \in [Conns -> Seq(Records)]
        /\ sessions' \in [Conns -> Psks \cup {None}]
    BY <1>6, <1>7 DEF IInv, TypeOK
  <2>2. served' \in [Conns -> 0..MaxEpochs]
    BY <1>1, <1>6, ShortLinkAssumption DEF IInv, TypeOK
  <2> QED
    BY <1>6, <2>1, <2>2 DEF IInv, TypeOK
<1>9. Grows
  BY <1>1, <1>3, <1>6, ShortLinkAssumption DEF IInv, TypeOK, Grows, Unserved
<1>10. stage'[c] = "built" /\ served'[c] = epoch /\ response'[c] = r
       /\ sessions'[c] = p
  BY <1>6 DEF IInv, TypeOK
<1>11. \A d \in Conns \ {c} : /\ SameConn(d) /\ (d > opened => d > opened')
                              /\ sessions'[d] = sessions[d]
  BY <1>6 DEF IInv, TypeOK, SameConn
<1>12. Issued(c)' /\ PskOf(c)' = p
  BY <1>1, <1>3, <1>4, <1>5, <1>6, <1>10 DEF Issued, PskOf, EcdheRequest
<1>13. ConnInv(c)'
  BY <1>3, <1>6, <1>10, <1>12 DEF ConnInv, HandshakeConn, EcdheRequest
<1>14. MapInv'
  <2>1. ASSUME NEW t \in Conns
        PROVE  sessions'[t] = IF Issued(t)' /\ served'[t] = epoch'
                              THEN PskOf(t)' ELSE None
    <3>1. CASE t = c
      BY <1>6, <1>10, <1>12, <3>1
    <3>2. CASE t # c
      <4>1. SameConn(t) /\ sessions'[t] = sessions[t] /\ epoch' = epoch
        BY <1>6, <1>11, <3>2
      <4>2. Issued(t)' = Issued(t) /\ PskOf(t)' = PskOf(t)
        BY <4>1 DEF Issued, PskOf, SameConn, EcdheRequest
      <4> QED
        BY <4>1, <4>2 DEF IInv, MapInv, SameConn
    <3> QED
      BY <3>1, <3>2
  <2> QED
    BY <2>1 DEF MapInv
<1>15. \A k \in Clients : SameClient(k)
  BY <1>6 DEF SameClient
<1> QED
  BY <1>6, <1>8, <1>9, <1>11, <1>13, <1>14, <1>15, ConnStep

\* A request waiting at the server presents an issued ticket.
LEMMA WaitingRequest ==
  ASSUME IInv, NEW c \in Conns, stage[c] = "sent", Hello(c).msg = "pskHello"
  PROVE  /\ Unserved(c) /\ c <= opened
         /\ request[c] # EcdheRequest(c)
         /\ Issued(Hello(c).ref)
         /\ request[c] = RequestRecords(c, SessionOf(Hello(c).ref))
<1>1. RequestConn(c) /\ request[c] # EcdheRequest(c)
  BY HelloFacts
<1>2. PICK t \in Conns : /\ Issued(t)
                         /\ request[c] = RequestRecords(c, SessionOf(t))
                         /\ Unserved(c)
  BY <1>1 DEF RequestConn
<1>3. Hello(c).ref = t
  BY <1>2, HelloFacts
<1> QED
  BY <1>1, <1>2, <1>3 DEF RequestConn

\* An answer or a refusal: all but the connection's own invariant.
LEMMA ServeRequestOK ==
  ASSUME IInv, NEW c \in Conns, stage[c] = "sent", Hello(c).msg = "pskHello",
         NEW r \in Seq(Records), NEW s \in {"built", "refused"},
         stage' = [stage EXCEPT ![c] = s],
         served' = [served EXCEPT ![c] = epoch],
         response' = [response EXCEPT ![c] = r],
         UNCHANGED <<callVars, clientVars, disk, serverVars, opened, request>>
  PROVE  /\ TypeOK' /\ Grows
         /\ ConnInv(c)' => IInv'
<1>1. /\ c \in Nat /\ epoch \in Nat /\ epoch \in 0..MaxEpochs
      /\ Unserved(c) /\ request[c] # EcdheRequest(c)
  <2>1. Unserved(c) /\ request[c] # EcdheRequest(c)
    BY WaitingRequest
  <2>2. c \in Nat /\ epoch \in Nat /\ epoch \in 0..MaxEpochs
    BY ShortLinkAssumption DEF IInv, TypeOK, Conns, Epochs
  <2> QED
    BY <2>1, <2>2
<1>2. UNCHANGED <<call, pc, outcome, status, session, hasher, sseq, secret, key,
                  reader, at, reply, disk, epoch, sessions, opened, request>>
  BY DEF callVars, clientVars, serverVars
<1>3. TypeOK'
  <2>1. stage' \in [Conns -> {"unused", "sent", "built", "replied", "refused",
                              "lost", "done"}]
    BY DEF IInv, TypeOK
  <2>2. response' \in [Conns -> Seq(Records)] /\ served' \in [Conns -> 0..MaxEpochs]
    BY <1>1 DEF IInv, TypeOK
  <2> QED
    BY <1>2, <2>1, <2>2 DEF IInv, TypeOK
<1>4. Grows
  BY <1>1, <1>2, ShortLinkAssumption DEF IInv, TypeOK, Grows, Unserved
<1>5. \A d \in Conns \ {c} : SameConn(d) /\ (d > opened => d > opened')
  BY <1>2 DEF IInv, TypeOK, SameConn
<1>6. MapInv'
  <2>1. ASSUME NEW t \in Conns, Issued(t)' PROVE Issued(t)
    <3>1. t # c
      BY <1>1, <1>2, <2>1 DEF Issued, EcdheRequest
    <3> QED
      BY <1>2, <1>5, <2>1, <3>1 DEF Issued, SameConn, EcdheRequest
  <2> QED
    BY <1>2, <1>3, <1>4, <2>1, MapKept
<1>7. \A k \in Clients : SameClient(k)
  BY <1>2 DEF SameClient
<1> QED
  BY <1>2, <1>3, <1>4, <1>5, <1>6, <1>7, ConnStep

\* The server's answer keeps the invariant.
LEMMA AnswerRequestOK ==
  ASSUME IInv, NEW c \in Conns, AnswerRequest(c)
  PROVE  IInv'
<1>1. PICK t : t = Hello(c).ref
  OBVIOUS
<1>2. stage[c] = "sent" /\ Hello(c).msg = "pskHello" /\ Acceptable(request[c], sessions[t])
  BY <1>1 DEF AnswerRequest
<1>3. /\ Unserved(c) /\ c <= opened /\ Issued(t)
      /\ request[c] = RequestRecords(c, SessionOf(t))
  BY <1>1, <1>2, WaitingRequest
<1>4. c \in Nat /\ t \in Conns /\ epoch \in Nat /\ epoch \in 1..epoch
  BY <1>3, ShortLinkAssumption DEF IInv, TypeOK, Conns, Epochs, Issued
<1>5. PICK s : s = SessionOf(t)
  OBVIOUS
<1>6. s \in Presentable /\ s.psk = PskOf(t)
  BY <1>3, <1>5, IssuedFacts DEF IInv
<1>7. sessions[t] = s.psk
  BY <1>2, <1>4, <1>6 DEF Acceptable, IInv, MapInv
<1>8. PICK r : r = AnswerTo(c, s, epoch)
  OBVIOUS
<1>9. r \in Seq(Records)
  <2>1. PICK e \in Nat : e = epoch
    BY <1>4
  <2> QED
    BY <1>4, <1>6, <1>8, <2>1, PskRecordsFacts
<1>10. /\ stage' = [stage EXCEPT ![c] = "built"]
       /\ served' = [served EXCEPT ![c] = epoch]
       /\ response' = [response EXCEPT ![c] = r]
       /\ UNCHANGED <<callVars, clientVars, disk, serverVars, opened, request>>
  BY <1>1, <1>3, <1>5, <1>7, <1>8 DEF AnswerRequest, AnswerTo
<1>11. TypeOK' /\ Grows /\ (ConnInv(c)' => IInv')
  BY <1>2, <1>9, <1>10, ServeRequestOK
<1>12. ConnInv(c)'
  <2>1. stage'[c] = "built" /\ served'[c] = epoch /\ response'[c] = r
    BY <1>10 DEF IInv, TypeOK
  <2>2. Issued(t)' /\ PskOf(t)' = PskOf(t) /\ SessionOf(t)' = SessionOf(t)
    BY <1>3, <1>11, IssuedStable DEF IInv
  <2>3. request'[c] = RequestRecords(c, s) /\ epoch' = epoch /\ opened' = opened
    BY <1>3, <1>5, <1>10 DEF serverVars
  <2>4. RequestConn(c)'
    BY <1>3, <1>4, <1>5, <1>6, <1>8, <2>1, <2>2, <2>3 DEF RequestConn, AnswerTo
  <2> QED
    BY <2>4 DEF ConnInv
<1> QED
  BY <1>11, <1>12

\* A refusal keeps the invariant: the ticket is of an earlier process.
LEMMA RefuseRequestOK ==
  ASSUME IInv, NEW c \in Conns, RefuseRequest(c)
  PROVE  IInv'
<1>1. PICK t : t = Hello(c).ref
  OBVIOUS
<1>2. /\ stage[c] = "sent" /\ Hello(c).msg = "pskHello"
      /\ ~ Acceptable(request[c], sessions[t])
  BY <1>1 DEF RefuseRequest
<1>3. /\ Unserved(c) /\ c <= opened /\ Issued(t)
      /\ request[c] = RequestRecords(c, SessionOf(t))
  BY <1>1, <1>2, WaitingRequest
<1>4. /\ c \in Nat /\ t \in Conns /\ served[t] \in 1..epoch
      /\ epoch \in Nat /\ epoch \in 1..epoch
  BY <1>3, ShortLinkAssumption DEF IInv, TypeOK, Conns, Epochs, Issued
<1>5. PICK s : s = SessionOf(t)
  OBVIOUS
<1>6. s \in Presentable /\ s.psk = PskOf(t) /\ s.psk # None
  BY <1>3, <1>5, IssuedFacts DEF IInv
<1>7. served[t] < epoch
  <2>1. SUFFICES ASSUME served[t] = epoch PROVE FALSE
    BY <1>4
  <2>2. sessions[t] = s.psk
    BY <1>3, <1>4, <1>6, <2>1 DEF IInv, MapInv
  <2>3. PICK q : q = RequestRecords(c, s)
    OBVIOUS
  <2>4. PICK early : early = TrafficKey28(s.psk, "early data key expansion",
                                          <<PskHello(c, s.ticket)>>).client
    OBVIOUS
  <2>5. /\ Len(q) = 4
        /\ q[1].body = PskHello(c, s.ticket)
        /\ \A i \in 2..4 : q[i].key = early /\ q[i].seq = i - 1
        /\ early \in Halves
    BY <1>4, <1>6, <2>3, <2>4, RequestRecordsFacts
  <2>6. early # None
    BY <2>5, NoneAssumption
  <2>7. TrafficKey28(s.psk, "early data key expansion", <<q[1].body>>).client = early
    BY <2>4, <2>5
  <2>8. \A i \in 2..4 : Opens(q[i], early, i - 1)
    BY <2>5, <2>6 DEF Opens
  <2>9. Acceptable(q, s.psk)
    BY <1>6, <2>5, <2>7, <2>8 DEF Acceptable
  <2> QED
    BY <1>2, <1>3, <1>5, <2>2, <2>3, <2>9
<1>8. response[c] = <<>> /\ <<>> \in Seq(Records)
  BY <1>3 DEF Unserved
<1>9. /\ stage' = [stage EXCEPT ![c] = "refused"]
      /\ served' = [served EXCEPT ![c] = epoch]
      /\ response' = [response EXCEPT ![c] = <<>>]
      /\ UNCHANGED <<callVars, clientVars, disk, serverVars, opened, request>>
  BY <1>8 DEF RefuseRequest, IInv, TypeOK
<1>10. TypeOK' /\ Grows /\ (ConnInv(c)' => IInv')
  BY <1>2, <1>8, <1>9, ServeRequestOK
<1>11. ConnInv(c)'
  <2>1. stage'[c] = "refused" /\ served'[c] = epoch /\ response'[c] = <<>>
    BY <1>9 DEF IInv, TypeOK
  <2>2. Issued(t)' /\ SessionOf(t)' = SessionOf(t) /\ served'[t] = served[t]
    BY <1>3, <1>10, IssuedStable DEF IInv
  <2>3. request'[c] = RequestRecords(c, SessionOf(t)) /\ epoch' = epoch
        /\ opened' = opened
    BY <1>3, <1>9 DEF serverVars
  <2>4. RequestConn(c)'
    BY <1>3, <1>4, <1>7, <2>1, <2>2, <2>3 DEF RequestConn
  <2> QED
    BY <2>4 DEF ConnInv
<1> QED
  BY <1>10, <1>11

\* Writing a response keeps the invariant.
LEMMA RespondOK ==
  ASSUME IInv, NEW c \in Conns, Respond(c) \/ Lose(c)
  PROVE  IInv'
<1>1. PICK s : /\ s \in {"replied", "lost"}
               /\ s = "replied" => stage[c] = "built"
               /\ s = "lost" => stage[c] \in {"sent", "built", "replied"}
               /\ stage' = [stage EXCEPT ![c] = s]
               /\ UNCHANGED <<callVars, clientVars, disk, serverVars, opened,
                              request, response, served>>
  BY DEF Respond, Lose
<1>2. UNCHANGED <<call, pc, outcome, status, session, hasher, sseq, secret, key,
                  reader, at, reply, disk, epoch, sessions, opened, request,
                  response, served>>
  BY <1>1 DEF callVars, clientVars, serverVars
<1>3. stage'[c] = s /\ \A d \in Conns \ {c} : stage'[d] = stage[d]
  BY <1>1 DEF IInv, TypeOK
<1>4. TypeOK'
  <2>1. stage' \in [Conns -> {"unused", "sent", "built", "replied", "refused",
                              "lost", "done"}]
    BY <1>1 DEF IInv, TypeOK
  <2> QED
    BY <1>2, <2>1 DEF IInv, TypeOK
<1>5. Grows
  BY <1>2, ShortLinkAssumption DEF IInv, TypeOK, Grows, Epochs
<1>6. ConnInv(c)'
  BY <1>1, <1>2, <1>3, <1>4, <1>5, StageMoves
<1>7. MapInv'
  BY <1>2, <1>4, <1>5, MapStable
<1>8. \A d \in Conns \ {c} : SameConn(d) /\ (d > opened => d > opened')
  BY <1>2, <1>3 DEF SameConn
<1>9. \A k \in Clients : SameClient(k)
  BY <1>2 DEF SameClient
<1> QED
  BY <1>2, <1>4, <1>5, <1>6, <1>7, <1>8, <1>9, ConnStep

\* A server process that restarts keeps the invariant.
LEMMA ServerRestartOK ==
  ASSUME IInv, ServerRestart
  PROVE  IInv'
<1>1. UNCHANGED <<call, pc, outcome, status, session, hasher, sseq, secret, key,
                  reader, at, reply, disk, opened, request, response, served>>
  BY DEF ServerRestart, callVars, clientVars
<1>2. epoch \in Nat /\ epoch < MaxEpochs /\ epoch' = epoch + 1
  BY ShortLinkAssumption DEF ServerRestart, IInv, TypeOK, Epochs
<1>3. \A c \in Conns : \/ stage'[c] = stage[c]
                       \/ stage[c] \in {"sent", "built", "replied"}
                          /\ stage'[c] = "lost"
  BY DEF ServerRestart
<1>4. TypeOK'
  <2>1. stage' \in [Conns -> {"unused", "sent", "built", "replied", "refused",
                              "lost", "done"}]
    BY DEF ServerRestart, IInv, TypeOK
  <2>2. sessions' \in [Conns -> Psks \cup {None}]
    BY DEF ServerRestart
  <2>3. epoch' \in Epochs
    BY <1>2, ShortLinkAssumption DEF Epochs
  <2> QED
    BY <1>1, <2>1, <2>2, <2>3 DEF IInv, TypeOK
<1>5. Grows
  BY <1>1, <1>2, ShortLinkAssumption DEF IInv, TypeOK, Grows
<1>6. \A c \in Conns : ConnInv(c)'
  BY <1>1, <1>3, <1>4, <1>5, StageMoves
<1>7. MapInv'
  <2>1. ASSUME NEW t \in Conns PROVE served'[t] # epoch'
    BY <1>1, <1>2, ServedConn
  <2>2. \A t \in Conns : sessions'[t] = None
    BY DEF ServerRestart
  <2> QED
    BY <2>1, <2>2 DEF MapInv
<1>8. HeldInv'
  BY <1>1, <1>4, <1>5, HeldStable DEF IInv
<1>9. \A k \in Clients : ClientInv(k)'
  <2>1. \A k \in Clients : SameClient(k)
    BY <1>1 DEF SameClient
  <2> QED
    BY <1>4, <1>5, <2>1, ClientStable DEF IInv
<1> QED
  BY <1>4, <1>6, <1>7, <1>8, <1>9 DEF IInv

\* A stuttering step keeps the invariant.
LEMMA StutterOK ==
  ASSUME IInv, UNCHANGED vars
  PROVE  IInv'
<1>1. UNCHANGED <<call, pc, outcome, status, session, hasher, sseq, secret, key,
                  reader, at, reply, disk, epoch, sessions, opened, stage, request,
                  response, served>>
  BY DEF vars, callVars, clientVars, serverVars, connVars
<1>2. TypeOK'
  BY <1>1 DEF IInv, TypeOK
<1>3. Grows
  BY <1>1, ShortLinkAssumption DEF IInv, TypeOK, Grows, Epochs
<1>4. \A c \in Conns : ConnInv(c)'
  BY <1>1, <1>2, <1>3, StageMoves
<1>5. MapInv'
  BY <1>1, <1>2, <1>3, MapStable
<1>6. HeldInv'
  BY <1>1, <1>2, <1>3, HeldStable DEF IInv
<1>7. \A k \in Clients : ClientInv(k)'
  <2>1. \A k \in Clients : SameClient(k)
    BY <1>1 DEF SameClient
  <2> QED
    BY <1>2, <1>3, <2>1, ClientStable DEF IInv
<1> QED
  BY <1>2, <1>4, <1>5, <1>6, <1>7 DEF IInv

-----------------------------------------------------------------------------
(* The invariant holds throughout, and with it everything it implies.       *)

\* No step leaves the invariant.
LEMMA NextIInv == IInv /\ [Next]_vars => IInv'
<1> SUFFICES ASSUME IInv, [Next]_vars PROVE IInv'
  OBVIOUS
<1>1. CASE UNCHANGED vars
  BY <1>1, StutterOK
<1>2. ASSUME NEW k \in Clients, ClientStep(k) PROVE IInv'
  <2>1. CASE SendRequest(k)
    BY <2>1, SendRequestOK
  <2>2. CASE ReceiveResponse(k)
    BY <2>2, ReceiveResponseOK
  <2>3. CASE ReceiveFails(k)
    BY <2>3, FailOK DEF ReceiveFails
  <2>4. CASE ReadServerHello(k)
    BY <2>4, ReadServerHelloOK
  <2>5. CASE ReadSignature(k)
    BY <2>5, ReadSignatureOK
  <2>6. CASE ReadTicket(k)
    BY <2>6, ReadTicketOK
  <2>7. CASE ReadFinish(k)
    BY <2>7, ReadFinishOK
  <2>8. CASE ReadPskHello(k)
    BY <2>8, ReadPskHelloOK
  <2>9. CASE ReadPskFinish(k)
    BY <2>9, ReadPskFinishOK
  <2>10. CASE ReadData(k)
    BY <2>10, ReadDataOK
  <2>11. CASE ReadAbort(k)
    BY <2>11, ReadAbortOK
  <2> QED
    BY <1>2, <2>1, <2>2, <2>3, <2>4, <2>5, <2>6, <2>7, <2>8, <2>9, <2>10, <2>11
       DEF ClientStep
<1>3. ASSUME NEW k \in Clients, CallerStep(k) PROVE IInv'
  <2>1. CASE HandshakeAgain(k)
    BY <2>1, HandshakeAgainOK
  <2>2. CASE \E api \in {"handshake", "request"} : StartHandshake(k, api)
    BY <2>2, StartHandshakeOK
  <2>3. CASE StartRequest(k)
    BY <2>3, StartRequestOK
  <2>4. CASE SaveSession(k)
    BY <2>4, SaveSessionOK
  <2>5. CASE LoadSession(k)
    BY <2>5, LoadSessionOK
  <2> QED
    BY <1>3, <2>1, <2>2, <2>3, <2>4, <2>5 DEF CallerStep
<1>4. ASSUME NEW k \in Clients, ClientFault(k) PROVE IInv'
  <2>1. CASE ConnectRefused(k)
    BY <2>1, FailOK DEF ConnectRefused
  <2>2. CASE Cancel(k)
    BY <2>2, FailOK DEF Cancel
  <2>3. CASE ClientRestart(k)
    BY <2>3, ClientRestartOK
  <2> QED
    BY <1>4, <2>1, <2>2, <2>3 DEF ClientFault
<1>5. ASSUME NEW c \in Conns, ServerStep(c) \/ Lose(c) PROVE IInv'
  BY <1>5, IssueTicketOK, AnswerRequestOK, RefuseRequestOK, RespondOK DEF ServerStep
<1>6. CASE ServerRestart
  BY <1>6, ServerRestartOK
<1> QED
  BY <1>1, <1>2, <1>3, <1>4, <1>5, <1>6 DEF Next

\* IInv is an inductive invariant of the short link.
THEOREM Invariance == Spec => []IInv
BY InitIInv, NextIInv, PTL DEF Spec

\* Every variable keeps its type: no read of a response runs past its fourth
\* record, and no sequence number passes 4.
THEOREM TypeCorrect == Spec => []TypeOK
<1>1. IInv => TypeOK
  BY DEF IInv
<1> QED
  BY <1>1, Invariance, PTL

\* Every session a client or the session file holds is honoured by the server
\* process that issued it, under the key the client derived, and by no other.
THEOREM TicketsAreHonoured == Spec => []TicketHonoured
<1>1. IInv => TicketHonoured
  <2> SUFFICES ASSUME IInv, NEW s \in Held
               PROVE  sessions[s.ticket] =
                        IF s.psk.secret.server = epoch THEN s.psk ELSE None
    BY DEF TicketHonoured
  <2>1. Honest(s)
    BY DEF Held, IInv, HeldInv
  <2>2. PICK t : t = s.ticket
    OBVIOUS
  <2>3. /\ Issued(t) /\ t \in Conns /\ s.psk = PskOf(t)
        /\ PskOf(t).secret.server = served[t]
    BY <2>1, <2>2, IssuedFacts DEF Honest, IInv
  <2>4. sessions[t] = IF Issued(t) /\ served[t] = epoch THEN PskOf(t) ELSE None
    BY <2>3 DEF IInv, MapInv
  <2> QED
    BY <2>2, <2>3, <2>4
<1> QED
  BY <1>1, Invariance, PTL

\* The server refuses a request only when an earlier server process issued the
\* ticket it presents.
THEOREM RefusalsAreForced == Spec => []RefusedOnlyAfterRestart
<1>1. IInv => RefusedOnlyAfterRestart
  <2> SUFFICES ASSUME IInv, NEW c \in Conns, stage[c] = "refused"
               PROVE  served[Hello(c).ref] < served[c]
    BY DEF RefusedOnlyAfterRestart
  <2>1. RequestConn(c)
    BY DEF IInv, ConnInv, UnusedConn, HandshakeConn, Unserved
  <2>2. PICK t \in Conns : /\ Issued(t)
                           /\ request[c] = RequestRecords(c, SessionOf(t))
                           /\ served[t] < served[c]
    BY <2>1 DEF RequestConn, Unserved
  <2>3. Hello(c).ref = t
    BY <2>2, HelloFacts
  <2> QED
    BY <2>2, <2>3
<1> QED
  BY <1>1, Invariance, PTL

\* No handshake and no request fails on what an honest server sent.
THEOREM PeersAgree == Spec => []HonestPeersAgree
<1>1. IInv => HonestPeersAgree
  BY DEF IInv, ClientInv, HonestPeersAgree
<1> QED
  BY <1>1, Invariance, PTL

\* A call that needs a session has one, and a handshake leaves one.
THEOREM SessionsAreAtHand == Spec => []SessionAtHand
<1>1. IInv => SessionAtHand
  BY DEF IInv, ClientInv, PlaceInv, Answered, Asking, SessionAtHand
<1> QED
  BY <1>1, Invariance, PTL

-----------------------------------------------------------------------------
(* What no step does.                                                       *)

\* The places of a handshake in progress.
HandshakePlaces == {"helloSent", "serverHello", "signature", "ticket", "finish"}

\* A client that is handshaking has not completed a handshake before.
OnceOnly(k) == pc[k] \in HandshakePlaces => status[k] = 0

\* A client that stays where it is, with the status it has, keeps OnceOnly.
LEMMA OthersKeepOnce ==
  ASSUME NEW j, OnceOnly(j), pc'[j] = pc[j], status'[j] = status[j]
  PROVE  OnceOnly(j)'
BY DEF OnceOnly

\* Each step of the runtime for client k moves pc[k] alone, and along the code.
LEMMA ClientStepOnce ==
  ASSUME TypeOK, NEW k \in Clients, ClientStep(k), OnceOnly(k)
  PROVE  /\ OnceOnly(k)'
         /\ \A j \in Clients \ {k} : /\ pc'[j] = pc[j]
                                     /\ status'[j] = status[j]
                                     /\ session'[j] = session[j]
         /\ status[k] = 1 => session'[k] = session[k]
<1>1. CASE SendRequest(k)
  BY <1>1 DEF TypeOK, SendRequest, Goto, OnceOnly, HandshakePlaces
<1>2. CASE ReceiveResponse(k)
  BY <1>2 DEF TypeOK, ReceiveResponse, Goto, OnceOnly, HandshakePlaces
<1>3. CASE ReceiveFails(k)
  BY <1>3 DEF TypeOK, ReceiveFails, Fail, Return, OnceOnly, HandshakePlaces
<1>4. CASE ReadServerHello(k)
  BY <1>4 DEF TypeOK, ReadServerHello, Goto, Fail, Return, OnceOnly,
     HandshakePlaces
<1>5. CASE ReadSignature(k)
  BY <1>5 DEF TypeOK, ReadSignature, Goto, Fail, Return, OnceOnly,
     HandshakePlaces
<1>6. CASE ReadTicket(k)
  <2>1. status[k] = 0 /\ status' = status
    BY <1>6 DEF ReadTicket, Fail, OnceOnly, HandshakePlaces
  <2>2. \A j \in Clients \ {k} : session'[j] = session[j]
    BY <1>6 DEF TypeOK, ReadTicket, Fail
  <2>3. \E place \in Places : pc' = [pc EXCEPT ![k] = place]
    BY <1>6 DEF ReadTicket, Goto, Fail, Return, Places
  <2> QED
    BY <2>1, <2>2, <2>3 DEF TypeOK, OnceOnly
<1>7. CASE ReadFinish(k)
  <2>1. session' = session
    BY <1>7 DEF ReadFinish, Fail
  <2>2. \E place \in {"connecting", "idle"} : pc' = [pc EXCEPT ![k] = place]
    BY <1>7 DEF ReadFinish, Goto, Fail, Return
  <2>3. \A j \in Clients \ {k} : status'[j] = status[j]
    BY <1>7 DEF TypeOK, ReadFinish, Fail
  <2> QED
    BY <2>1, <2>2, <2>3 DEF TypeOK, OnceOnly, HandshakePlaces
<1>8. CASE ReadPskHello(k) \/ ReadPskFinish(k) \/ ReadData(k)
  <2>1. UNCHANGED <<status, session>>
    BY <1>8 DEF ReadPskHello, ReadPskFinish, ReadData, Fail
  <2>2. \E place \in {"pskFinish", "data", "abort", "idle"} :
          pc' = [pc EXCEPT ![k] = place]
    BY <1>8 DEF ReadPskHello, ReadPskFinish, ReadData, Goto, Fail, Return
  <2> QED
    BY <2>1, <2>2 DEF TypeOK, OnceOnly, HandshakePlaces
<1>9. CASE ReadAbort(k)
  BY <1>9 DEF TypeOK, ReadAbort, Fail, Return, OnceOnly, HandshakePlaces
<1> QED
  BY <1>1, <1>2, <1>3, <1>4, <1>5, <1>6, <1>7, <1>8, <1>9
     DEF ClientStep

\* So does each step of a caller.
LEMMA CallerStepOnce ==
  ASSUME TypeOK, NEW k \in Clients, CallerStep(k), OnceOnly(k)
  PROVE  /\ OnceOnly(k)'
         /\ \A j \in Clients \ {k} : /\ pc'[j] = pc[j]
                                     /\ status'[j] = status[j]
                                     /\ session'[j] = session[j]
         /\ status[k] = 1 => session'[k] = session[k]
<1>1. CASE HandshakeAgain(k)
  BY <1>1 DEF TypeOK, HandshakeAgain, Return, clientVars, OnceOnly,
     HandshakePlaces
<1>2. CASE \E api \in {"handshake", "request"} : StartHandshake(k, api)
  BY <1>2 DEF TypeOK, StartHandshake, OnceOnly, HandshakePlaces
<1>3. CASE StartRequest(k)
  BY <1>3 DEF TypeOK, StartRequest, clientVars, OnceOnly, HandshakePlaces
<1>4. CASE SaveSession(k)
  BY <1>4 DEF SaveSession, clientVars, callVars, OnceOnly
<1>5. CASE LoadSession(k)
  BY <1>5 DEF TypeOK, LoadSession, callVars, OnceOnly
<1> QED
  BY <1>1, <1>2, <1>3, <1>4, <1>5 DEF CallerStep

\* A client that fails or restarts is idle; the restart clears its status.
LEMMA ClientFaultOnce ==
  ASSUME TypeOK, NEW k \in Clients, ClientFault(k), OnceOnly(k)
  PROVE  /\ OnceOnly(k)'
         /\ \A j \in Clients \ {k} : /\ pc'[j] = pc[j]
                                     /\ status'[j] = status[j]
                                     /\ session'[j] = session[j]
         /\ status'[k] = 1 => session'[k] = session[k]
<1>1. CASE ConnectRefused(k) \/ Cancel(k)
  BY <1>1 DEF TypeOK, ConnectRefused, Cancel, Fail, Return, OnceOnly,
     HandshakePlaces
<1>2. CASE ClientRestart(k)
  BY <1>2 DEF TypeOK, ClientRestart, Return, OnceOnly, HandshakePlaces
<1> QED
  BY <1>1, <1>2 DEF ClientFault

\* The server and the network touch no client.
LEMMA OutsideOnce ==
  ASSUME \/ \E c \in Conns : ServerStep(c) \/ Lose(c)
         \/ ServerRestart
         \/ UNCHANGED vars
  PROVE  UNCHANGED <<pc, status, session>>
BY DEF ServerStep, IssueTicket, AnswerRequest, RefuseRequest, Respond, Lose,
   ServerRestart, vars, callVars, clientVars

\* A step of anybody keeps OnceOnly and leaves a completed handshake's session.
LEMMA NextOnce ==
  ASSUME TypeOK, \A k \in Clients : OnceOnly(k), [Next]_vars, NEW j \in Clients
  PROVE  /\ OnceOnly(j)'
         /\ status[j] = 1 /\ status'[j] = 1 => session'[j] = session[j]
<1>1. ASSUME NEW k \in Clients, ClientStep(k) \/ CallerStep(k) \/ ClientFault(k)
      PROVE  /\ OnceOnly(j)'
             /\ status[j] = 1 /\ status'[j] = 1 => session'[j] = session[j]
  <2>1. CASE j = k
    BY <1>1, <2>1, ClientStepOnce, CallerStepOnce, ClientFaultOnce
  <2>2. CASE j # k
    <3>1. /\ pc'[j] = pc[j] /\ status'[j] = status[j]
          /\ session'[j] = session[j]
      BY <1>1, <2>2, ClientStepOnce, CallerStepOnce, ClientFaultOnce
    <3> QED
      BY <3>1, OthersKeepOnce
  <2> QED
    BY <2>1, <2>2
<1>2. CASE \/ \E c \in Conns : ServerStep(c) \/ Lose(c)
           \/ ServerRestart
           \/ UNCHANGED vars
  <2>1. UNCHANGED <<pc, status, session>>
    BY <1>2, OutsideOnce
  <2> QED
    BY <2>1, OthersKeepOnce
<1> QED
  BY <1>1, <1>2 DEF Next

\* Once a client has completed a handshake, nothing replaces its session while
\* its process lives: handshake() returns early and load needs a fresh client.
THEOREM SessionIsFixed == Spec => SessionFixedAfterHandshake
<1>1. Init => \A k \in Clients : OnceOnly(k)
  BY DEF Init, OnceOnly
<1>2. TypeOK /\ (\A k \in Clients : OnceOnly(k)) /\ [Next]_vars
        => (\A k \in Clients : OnceOnly(k))'
  BY NextOnce
<1>3. TypeOK /\ (\A k \in Clients : OnceOnly(k)) /\ [Next]_vars
        => [\A k \in Clients :
              status[k] = 1 /\ status'[k] = 1 => session'[k] = session[k]]_vars
  BY NextOnce
<1> QED
  BY <1>1, <1>2, <1>3, TypeCorrect, PTL DEF Spec, SessionFixedAfterHandshake

-----------------------------------------------------------------------------
(* Where a key comes from.                                                  *)

\* Hashing one more message leaves the first one first.
LEMMA FirstStays ==
  ASSUME NEW h \in Transcripts, h # <<>>, NEW m \in Messages
  PROVE  Append(h, m) # <<>> /\ Append(h, m)[1] = h[1]
  BY DEF Transcripts

\* A transcript of one message starts with it.
LEMMA FirstOfOne ==
  ASSUME NEW m \in Messages
  PROVE  <<m>> \in Transcripts /\ <<m>> # <<>> /\ <<m>>[1] = m
  BY DEF Transcripts

\* The key of the early data of a request, and of a handshake's response.
EarlyKey(n, s) ==
  TrafficKey28(s.psk, "early data key expansion", <<PskHello(n, s.ticket)>>).client
HandshakeHalf(n, e) ==
  TrafficKey56(Ecdh(n, e), "handshake key expansion",
               HashToServerHello(EcdheHello(n), n, e)).server

\* The early data key of a request names its connection.
LEMMA EarlyKeyOrigin ==
  ASSUME NEW n \in Nat, NEW s \in Presentable
  PROVE  /\ EarlyKey(n, s).label = "early data key expansion"
         /\ EarlyKey(n, s).hash[1].fresh = n
<1>1. PskHello(n, s.ticket).fresh = n
  BY DEF PskHello, Message
<1>2. <<PskHello(n, s.ticket)>>[1] = PskHello(n, s.ticket)
  OBVIOUS
<1>3. PICK h : h = <<PskHello(n, s.ticket)>>
  OBVIOUS
<1>4. EarlyKey(n, s).label = "early data key expansion" /\ EarlyKey(n, s).hash = h
  BY <1>3 DEF EarlyKey, TrafficKey28, Half
<1> QED
  BY <1>1, <1>2, <1>3, <1>4

\* So does the key of a handshake's response.
LEMMA HandshakeKeyOrigin ==
  ASSUME NEW n \in Nat, NEW e \in Nat
  PROVE  /\ HandshakeHalf(n, e).label = "handshake key expansion"
         /\ HandshakeHalf(n, e).hash[1].fresh = n
<1>1. PICK m \in Messages : m = EcdheHello(n) /\ m.fresh = n
  <2>1. EcdheHello(n) \in Messages
    BY MessageFacts
  <2>2. EcdheHello(n).fresh = n
    BY DEF EcdheHello, Message
  <2> QED
    BY <2>1, <2>2
<1>2. PICK r \in Messages : r = ServerHello(n, e)
  BY MessageFacts
<1>3. PICK h : h = HashToServerHello(EcdheHello(n), n, e)
  OBVIOUS
<1>4. h = Append(<<m>>, r)
  BY <1>1, <1>2, <1>3 DEF HashToServerHello
<1>5. h[1] = m
  BY <1>4, FirstOfOne, FirstStays
<1>6. /\ HandshakeHalf(n, e).label = "handshake key expansion"
      /\ HandshakeHalf(n, e).hash = h
  BY <1>3 DEF HandshakeHalf, TrafficKey56, Half
<1> QED
  BY <1>1, <1>5, <1>6

\* And the key of the answer to a request.
LEMMA AnswerKeyOrigin ==
  ASSUME NEW n \in Nat, NEW e \in Nat, NEW s \in Presentable
  PROVE  /\ AnswerKey(n, s, e).server.label = "handshake key expansion"
         /\ AnswerKey(n, s, e).server.hash[1].fresh = n
<1>1. PICK m \in Messages : m = PskHello(n, s.ticket) /\ m.fresh = n
  <2>1. PICK t \in Nat : t = s.ticket
    BY DEF Presentable
  <2>2. PskHello(n, t) \in Messages
    BY MessageFacts
  <2>3. PskHello(n, t).fresh = n
    BY DEF PskHello, Message
  <2> QED
    BY <2>1, <2>2, <2>3
<1>2. PICK ext \in Messages : ext = Extensions(n)
  BY MessageFacts
<1>3. PICK r \in Messages : r = ServerHello(n, e)
  BY MessageFacts
<1>4. PICK g : g = RequestHash(n, s.ticket)
  OBVIOUS
<1>5. PICK h : h = AnswerHash(n, s.ticket, e)
  OBVIOUS
<1>6. g = Append(<<m>>, ext) /\ h = Append(g, r)
  BY <1>1, <1>2, <1>3, <1>4, <1>5 DEF RequestHash, AnswerHash
<1>7. g \in Transcripts
  BY <1>4, AnswerTypes
<1>8. g[1] = m /\ g # <<>>
  BY <1>6, FirstOfOne, FirstStays
<1>9. h[1] = m
  BY <1>6, <1>7, <1>8, FirstStays
<1>10. /\ AnswerKey(n, s, e).server.label = "handshake key expansion"
       /\ AnswerKey(n, s, e).server.hash = h
  BY <1>5 DEF AnswerKey, ToServerHalf, TrafficKey28, Half
<1> QED
  BY <1>1, <1>9, <1>10

-----------------------------------------------------------------------------
(* The place a sealed record is at, read off its key and sequence number.   *)

PlaceOf(r) ==
  << r.key.hash[1].fresh,
     IF r.key.label = "early data key expansion" THEN "request" ELSE "response",
     r.seq + 1 >>

\* A sealed record of a request is where its key and number say.
LEMMA SealedRequest ==
  ASSUME IInv, NEW c \in Conns, NEW i \in 1..4, i \in DOMAIN request[c],
         request[c][i].key # None
  PROVE  PlaceOf(request[c][i]) = <<c, "request", i>>
<1>0. c \in Nat /\ ConnInv(c)
  BY ShortLinkAssumption DEF IInv, Conns
<1>1. ~ UnusedConn(c)
  BY DEF UnusedConn
<1>2. ~ HandshakeConn(c)
  <2>1. SUFFICES ASSUME request[c] = <<Clear(EcdheHello(c))>> PROVE FALSE
    BY DEF HandshakeConn, EcdheRequest
  <2>2. Clear(EcdheHello(c)).key = None
    BY DEF Clear
  <2> QED
    BY <2>1, <2>2
<1>3. PICK t \in Conns : Issued(t) /\ request[c] = RequestRecords(c, SessionOf(t))
  BY <1>0, <1>1, <1>2 DEF ConnInv, RequestConn
<1>4. PICK s \in Presentable : s = SessionOf(t)
  BY <1>3, IssuedFacts DEF IInv
<1>5. PICK R : R = RequestRecords(c, s)
  OBVIOUS
<1>6. PICK x : x = EarlyKey(c, s)
  OBVIOUS
<1>7. \A j \in 2..4 : R[j].key = x /\ R[j].seq = j - 1
  BY <1>0, <1>5, <1>6, RequestRecordsFacts DEF EarlyKey
<1>8. R[1].key = None
  BY <1>5 DEF RequestRecords, Clear
<1>9. request[c] = R
  BY <1>3, <1>4, <1>5
<1>10. R[i].key # None
  BY <1>9
<1>11. R[i].key = x /\ R[i].seq + 1 = i
  <2>1. i # 1
    BY <1>8, <1>10
  <2>2. i \in 2..4
    BY <2>1
  <2>3. R[i].key = x /\ R[i].seq = i - 1
    BY <1>7, <2>2
  <2>4. (i - 1) + 1 = i
    BY <2>2
  <2> QED
    BY <2>3, <2>4
<1>12. x.label = "early data key expansion" /\ x.hash[1].fresh = c
  BY <1>0, <1>6, EarlyKeyOrigin
<1> QED
  BY <1>9, <1>11, <1>12 DEF PlaceOf

\* So is one of a response.
LEMMA SealedResponse ==
  ASSUME IInv, NEW c \in Conns, NEW i \in 1..4, i \in DOMAIN response[c],
         response[c][i].key # None
  PROVE  PlaceOf(response[c][i]) = <<c, "response", i>>
<1>0. c \in Nat /\ ConnInv(c) /\ response[c] # <<>> /\ served[c] \in Nat
  BY ShortLinkAssumption DEF IInv, TypeOK, Conns
<1>1. PICK e \in Nat : e = served[c]
  BY <1>0
<1>2. ASSUME NEW R, NEW x, R = response[c], R[1].key = None,
             \A j \in 2..4 : R[j].key = x /\ R[j].seq = j - 1,
             x.label = "handshake key expansion", x.hash[1].fresh = c
      PROVE  PlaceOf(response[c][i]) = <<c, "response", i>>
  <2>1. R[i].key # None
    BY <1>2
  <2>2. R[i].key = x /\ R[i].seq + 1 = i
    <3>1. i # 1
      BY <1>2, <2>1
    <3>2. i \in 2..4
      BY <3>1
    <3>3. R[i].key = x /\ R[i].seq = i - 1
      BY <1>2, <3>2
    <3> QED
      BY <3>2, <3>3
  <2> QED
    BY <1>2, <2>2 DEF PlaceOf
<1>3. CASE HandshakeConn(c)
  <2>1. response[c] = EcdheRecords(EcdheHello(c), c, e)
    BY <1>0, <1>1, <1>3 DEF HandshakeConn, Unserved, Issued
  <2>2. PICK x : x = HandshakeHalf(c, e)
    OBVIOUS
  <2>3. PICK R : R = EcdheRecords(EcdheHello(c), c, e)
    OBVIOUS
  <2>4. \A j \in 2..4 : R[j].key = x /\ R[j].seq = j - 1
    BY <1>0, <2>2, <2>3, EcdheRecordsFacts DEF HandshakeHalf
  <2>5. R[1].key = None
    <3>1. c \in Nat
      BY <1>0
    <3>2. EcdheRecords(EcdheHello(c), c, e)[1].key = None
      BY <3>1, EcdheRecordsFacts
    <3> QED
      BY <2>3, <3>2
  <2>6. x.label = "handshake key expansion" /\ x.hash[1].fresh = c
    BY <1>0, <2>2, HandshakeKeyOrigin
  <2> QED
    BY <1>2, <2>1, <2>3, <2>4, <2>5, <2>6
<1>4. CASE RequestConn(c)
  <2>1. PICK t \in Conns : /\ Issued(t)
                           /\ request[c] = RequestRecords(c, SessionOf(t))
                           /\ response[c] = PskRecords(request[c], PskOf(t), c, e)
    BY <1>0, <1>1, <1>4 DEF RequestConn, Unserved
  <2>2. PICK s \in Presentable : s = SessionOf(t) /\ s.psk = PskOf(t)
    BY <2>1, IssuedFacts DEF IInv
  <2>3. PICK R : R = AnswerTo(c, s, e)
    OBVIOUS
  <2>4. response[c] = R
    BY <2>1, <2>2, <2>3 DEF AnswerTo
  <2>5. PICK x : x = AnswerKey(c, s, e).server
    OBVIOUS
  <2>6. \A j \in 2..4 : R[j].key = x /\ R[j].seq = j - 1
    <3>1. c \in Nat /\ e \in Nat
      BY <1>0
    <3>2. \A j \in 2..4 : /\ AnswerTo(c, s, e)[j].key = AnswerKey(c, s, e).server
                          /\ AnswerTo(c, s, e)[j].seq = j - 1
      BY <3>1, PskRecordsFacts
    <3> QED
      BY <2>3, <2>5, <3>2
  <2>7. R[1].key = None
    <3>1. c \in Nat
      BY <1>0
    <3>2. AnswerTo(c, s, e)[1].key = None
      BY <3>1, PskRecordsFacts
    <3> QED
      BY <2>3, <3>2
  <2>8. x.label = "handshake key expansion" /\ x.hash[1].fresh = c
    BY <1>0, <2>5, AnswerKeyOrigin
  <2> QED
    BY <1>2, <2>4, <2>6, <2>7, <2>8
<1> QED
  BY <1>0, <1>3, <1>4 DEF ConnInv, UnusedConn

\* No AES-GCM key and nonce seal two records of the short link, however many
\* connections, tickets and server processes there are.
THEOREM NoncesAreUnique == Spec => []NoNonceReuse
<1>1. IInv => NoNonceReuse
  <2> SUFFICES ASSUME IInv, NEW p \in Sealed, NEW q \in Sealed,
                      RecordAt(p).seq = RecordAt(q).seq,
                      RecordAt(p).key = RecordAt(q).key
               PROVE  p = q
    BY DEF NoNonceReuse
  <2>1. ASSUME NEW r \in Sealed PROVE PlaceOf(RecordAt(r)) = r
    <3>1. PICK c \in Conns, w \in {"request", "response"}, i \in 1..4 :
            r = <<c, w, i>>
      BY <2>1 DEF Sealed
    <3>2. i \in DOMAIN Written(r) /\ Written(r)[i].key # None
      BY <2>1, <3>1 DEF Sealed, RecordAt
    <3>3. CASE w = "request"
      BY <3>1, <3>2, <3>3, SealedRequest DEF RecordAt, Written
    <3>4. CASE w = "response"
      BY <3>1, <3>2, <3>4, SealedResponse DEF RecordAt, Written
    <3> QED
      BY <3>3, <3>4
  <2>2. PlaceOf(RecordAt(p)) = PlaceOf(RecordAt(q))
    BY DEF PlaceOf
  <2> QED
    BY <2>1, <2>2
<1> QED
  BY <1>1, Invariance, PTL
-----------------------------------------------------------------------------
(* The refinement: initial states of the short link are initial states of   *)
(* RequestReply, and each step is a step of that service or leaves the      *)
(* service as it is.                                                        *)

(* What a client has read of an answer.                                     *)

\* A request that has read its data has the echo of the request it made, and a
\* call that returned with an answer has data.
ReplyInv(k) ==
  /\ pc[k] = "abort" => reply[k] # None /\ reply[k].fresh = at[k]
  /\ pc[k] = "idle" /\ outcome[k] = "answered" => reply[k] # None

\* Only client k makes this step.
Alone(k) ==
  \A j \in Clients \ {k} :
    /\ pc'[j] = pc[j] /\ outcome'[j] = outcome[j]
    /\ at'[j] = at[j] /\ reply'[j] = reply[j]

\* Client k neither asks nor is answered; it may give up.
Quiet(k) ==
  /\ Alone(k)
  /\ pc'[k] # "abort"
  /\ ~ (pc'[k] = "idle" /\ outcome'[k] = "answered")
  /\ pc'[k] \in AskingPlaces => pc[k] \in AskingPlaces /\ at'[k] = at[k]

\* The other clients keep ReplyInv.
LEMMA OthersKeepReply ==
  ASSUME NEW k \in Clients, Alone(k), \A j \in Clients : ReplyInv(j)
  PROVE  \A j \in Clients \ {k} : ReplyInv(j)'
BY DEF Alone, ReplyInv

\* Nothing of a quiet client's reply is looked at afterwards.
LEMMA QuietKeepsReply ==
  ASSUME NEW k \in Clients, Quiet(k), \A j \in Clients : ReplyInv(j)
  PROVE  \A j \in Clients : ReplyInv(j)'
<1>1. ReplyInv(k)'
  BY DEF Quiet, ReplyInv
<1> QED
  BY <1>1, OthersKeepReply DEF Quiet

-----------------------------------------------------------------------------
(* The refinement mapping.                                                  *)

\* A step of one client changes its own question and answer alone.
LEMMA MappedAlone ==
  ASSUME NEW k \in Clients, Alone(k), \A j \in Clients : ReplyInv(j)
  PROVE  /\ Question' = [Question EXCEPT ![k] = Question'[k]]
         /\ Answer' = [Answer EXCEPT ![k] = Answer'[k]]
<1>1. ASSUME NEW j \in Clients \ {k}
      PROVE  Question'[j] = Question[j] /\ Answer'[j] = Answer[j]
  BY DEF Question, Answer, EchoOf, Alone, ReplyInv
<1>2. DOMAIN Question = Clients /\ DOMAIN Question' = Clients
  BY DEF Question
<1>3. DOMAIN Answer = Clients /\ DOMAIN Answer' = Clients
  BY DEF Answer
<1>4. Question = [j \in Clients |-> Question[j]]
      /\ Question' = [j \in Clients |-> Question'[j]]
  BY DEF Question
<1>5. Answer = [j \in Clients |-> Answer[j]]
      /\ Answer' = [j \in Clients |-> Answer'[j]]
  BY DEF Answer
<1> QED
  BY <1>1, <1>2, <1>3, <1>4, <1>5

\* What is asked and handled depends on the requests and responses only.
LEMMA MappedConns ==
  ASSUME UNCHANGED <<request, response>>
  PROVE  Asked' = Asked /\ Handled' = Handled
BY DEF Asked, Handled, IsRequest, Hello

\* A quiet step is a stutter of the service, or its client gives up or forgets.
LEMMA QuietStep ==
  ASSUME NEW k \in Clients, Quiet(k), Asked' = Asked, Handled' = Handled,
         \A j \in Clients : ReplyInv(j)
  PROVE  Service!Next
<1>1. /\ Question' = [Question EXCEPT ![k] = Question'[k]]
      /\ Answer' = [Answer EXCEPT ![k] = Answer'[k]]
  BY MappedAlone DEF Quiet
<1>2. Asked' = Asked /\ Handled' = Handled
  OBVIOUS
<1>3. Answer'[k] = 0
  BY DEF Answer, Quiet
<1>4. Question'[k] = 0 \/ Question'[k] = Question[k]
  BY DEF Question, Quiet
<1>5. CASE Question'[k] = Question[k]
  <2>1. Question' = Question
    BY <1>1, <1>5 DEF Question
  <2>2. Service!Forget(k)
    BY <1>1, <1>2, <1>3, <2>1 DEF Service!Forget
  <2> QED
    BY <2>2 DEF Service!Next
<1>6. CASE Question'[k] = 0 /\ Question[k] # 0
  <2>1. Service!GiveUp(k)
    BY <1>1, <1>2, <1>3, <1>6 DEF Service!GiveUp
  <2> QED
    BY <2>1 DEF Service!Next
<1> QED
  BY <1>4, <1>5, <1>6

\* A step that no client takes part in changes no question and no answer.
LEMMA MappedClients ==
  ASSUME UNCHANGED <<pc, outcome, at, reply>>, \A j \in Clients : ReplyInv(j)
  PROVE  /\ Question' = Question /\ Answer' = Answer
         /\ \A j \in Clients : ReplyInv(j)'
<1>1. \A j \in Clients : Answer'[j] = Answer[j]
  BY DEF Answer, EchoOf, ReplyInv
<1>2. Answer' = [j \in Clients |-> Answer'[j]] /\ Answer = [j \in Clients |-> Answer[j]]
  BY DEF Answer
<1>3. Question' = Question
  BY DEF Question
<1>4. \A j \in Clients : ReplyInv(j)'
  BY DEF ReplyInv
<1> QED
  BY <1>1, <1>2, <1>3, <1>4

-----------------------------------------------------------------------------
(* The steps of a client.                                                   *)

\* A call that fails gives up its question.
LEMMA FailQuiet ==
  ASSUME TypeOK, NEW k \in Clients, NEW why, why # "answered", Fail(k, why)
  PROVE  Quiet(k)
<1>1. /\ pc' = [pc EXCEPT ![k] = "idle"]
      /\ outcome' = [outcome EXCEPT ![k] = why]
      /\ UNCHANGED <<at, reply>>
  BY DEF Fail, Return
<1> QED
  BY <1>1 DEF TypeOK, Quiet, Alone, AskingPlaces

\* A call that goes on within a request, or within a handshake, stays quiet.
LEMMA GotoQuiet ==
  ASSUME TypeOK, NEW k \in Clients, NEW place \in Places \ {"abort", "idle"},
         Goto(k, place), UNCHANGED <<at, reply>>,
         place \in AskingPlaces => pc[k] \in AskingPlaces
  PROVE  Quiet(k)
<1>1. pc' = [pc EXCEPT ![k] = place] /\ outcome' = outcome
  BY DEF Goto
<1> QED
  BY <1>1 DEF TypeOK, Quiet, Alone

\* A call that returns without an answer is quiet.
LEMMA ReturnQuiet ==
  ASSUME TypeOK, NEW k \in Clients, NEW result, result # "answered",
         Return(k, result), \A j \in Clients \ {k} : at'[j] = at[j] /\ reply'[j] = reply[j]
  PROVE  Quiet(k)
<1>1. /\ pc' = [pc EXCEPT ![k] = "idle"]
      /\ outcome' = [outcome EXCEPT ![k] = result]
  BY DEF Return
<1> QED
  BY <1>1 DEF TypeOK, Quiet, Alone, AskingPlaces

\* Reading a handshake's response, or the head of an answer, is quiet.
LEMMA ReadingQuiet ==
  ASSUME TypeOK, NEW k \in Clients,
         \/ ReceiveResponse(k) \/ ReceiveFails(k)
         \/ ReadServerHello(k) \/ ReadSignature(k) \/ ReadTicket(k) \/ ReadFinish(k)
         \/ ReadPskHello(k) \/ ReadPskFinish(k)
  PROVE  Quiet(k) /\ UNCHANGED <<request, response>>
<1> USE DEF Places, AskingPlaces, connVars
<1>1. CASE ReceiveResponse(k)
  <2>1. CASE pc[k] = "helloSent"
    BY <1>1, <2>1, GotoQuiet DEF ReceiveResponse
  <2>2. CASE pc[k] = "requestSent"
    BY <1>1, <2>2, GotoQuiet DEF ReceiveResponse
  <2> QED
    BY <1>1, <2>1, <2>2 DEF ReceiveResponse
<1>2. CASE ReceiveFails(k)
  BY <1>2, FailQuiet DEF ReceiveFails
<1>3. CASE ReadServerHello(k)
  <2>1. \/ Goto(k, "signature") /\ UNCHANGED <<at, reply>>
        \/ Fail(k, "protocol")
    BY <1>3 DEF ReadServerHello
  <2> QED
    BY <1>3, <2>1, FailQuiet, GotoQuiet DEF ReadServerHello
<1>4. CASE ReadSignature(k)
  <2>1. \/ Goto(k, "ticket") /\ UNCHANGED <<at, reply>>
        \/ Fail(k, "protocol")
        \/ Fail(k, "unverified")
    BY <1>4 DEF ReadSignature
  <2> QED
    BY <1>4, <2>1, FailQuiet, GotoQuiet DEF ReadSignature
<1>5. CASE ReadTicket(k)
  <2>1. \/ Goto(k, "finish") /\ UNCHANGED <<at, reply>>
        \/ Fail(k, "protocol")
    BY <1>5 DEF ReadTicket
  <2> QED
    BY <1>5, <2>1, FailQuiet, GotoQuiet DEF ReadTicket
<1>6. CASE ReadFinish(k)
  <2>1. \/ Goto(k, "connecting") /\ UNCHANGED <<at, reply>>
        \/ Return(k, "handshaken") /\ UNCHANGED <<at, reply>>
        \/ Fail(k, "protocol")
    BY <1>6 DEF ReadFinish
  <2> QED
    BY <1>6, <2>1, FailQuiet, GotoQuiet, ReturnQuiet DEF ReadFinish
<1>7. CASE ReadPskHello(k)
  <2>1. \/ Goto(k, "pskFinish") /\ UNCHANGED <<at, reply>>
        \/ Fail(k, "protocol")
    BY <1>7 DEF ReadPskHello
  <2>2. pc[k] \in AskingPlaces
    BY <1>7 DEF ReadPskHello
  <2> QED
    BY <1>7, <2>1, <2>2, FailQuiet, GotoQuiet DEF ReadPskHello
<1>8. CASE ReadPskFinish(k)
  <2>1. \/ Goto(k, "data") /\ UNCHANGED <<at, reply>>
        \/ Fail(k, "protocol")
    BY <1>8 DEF ReadPskFinish
  <2>2. pc[k] \in AskingPlaces
    BY <1>8 DEF ReadPskFinish
  <2> QED
    BY <1>8, <2>1, <2>2, FailQuiet, GotoQuiet DEF ReadPskFinish
<1> QED
  BY <1>1, <1>2, <1>3, <1>4, <1>5, <1>6, <1>7, <1>8

\* So are a call's start and end without an answer, a fault and a restart.
LEMMA CallingQuiet ==
  ASSUME TypeOK, NEW k \in Clients,
         HandshakeAgain(k) \/ StartRequest(k) \/ ClientFault(k)
  PROVE  Quiet(k) /\ UNCHANGED <<request, response>>
<1>1. CASE HandshakeAgain(k)
  BY <1>1, ReturnQuiet DEF HandshakeAgain, clientVars, connVars
<1>2. CASE StartRequest(k)
  BY <1>2 DEF StartRequest, clientVars, connVars, TypeOK, Quiet, Alone, AskingPlaces
<1>3. CASE ConnectRefused(k) \/ Cancel(k)
  BY <1>3, FailQuiet DEF ConnectRefused, Cancel, connVars
<1>4. CASE ClientRestart(k)
  <2>1. \A j \in Clients \ {k} : at'[j] = at[j] /\ reply'[j] = reply[j]
    BY <1>4 DEF ClientRestart, TypeOK
  <2> QED
    BY <1>4, <2>1, ReturnQuiet DEF ClientRestart, connVars
<1> QED
  BY <1>1, <1>2, <1>3, <1>4 DEF ClientFault

\* A handshake's hello is no question.
LEMMA StartHandshakeSim ==
  ASSUME IInv, NEW k \in Clients, NEW api \in {"handshake", "request"},
         StartHandshake(k, api)
  PROVE  Quiet(k) /\ Asked' = Asked /\ Handled' = Handled
<1>1. PICK n \in Conns : n = Fresh /\ n \in Nat /\ request[n] = <<>>
  BY FreshFacts DEF StartHandshake, UnusedConn
<1>2. PICK r : r = EcdheRequest(n)
  OBVIOUS
<1>3. /\ pc' = [pc EXCEPT ![k] = "helloSent"]
      /\ at' = [at EXCEPT ![k] = n]
      /\ request' = [request EXCEPT ![n] = r]
      /\ UNCHANGED <<outcome, reply, response>>
  BY <1>1, <1>2 DEF StartHandshake, OpenConnection, EcdheRequest
<1>4. Quiet(k)
  BY <1>3 DEF IInv, TypeOK, Quiet, Alone, AskingPlaces
<1>5. Head(r).body.msg # "pskHello"
  <2>1. Head(r).body = EcdheHello(n)
    BY <1>1, <1>2 DEF EcdheRequest, Clear
  <2> QED
    BY <2>1 DEF EcdheHello, Message
<1>6. ASSUME NEW c \in Conns PROVE IsRequest(c)' <=> IsRequest(c)
  <2>1. CASE c = n
    BY <1>1, <1>3, <1>5, <2>1 DEF IInv, TypeOK, IsRequest, Hello
  <2>2. CASE c # n
    BY <1>3, <2>2 DEF IInv, TypeOK, IsRequest, Hello
  <2> QED
    BY <2>1, <2>2
<1> QED
  BY <1>3, <1>4, <1>6 DEF Asked, Handled

\* Sending a request asks a question nobody has asked before.
LEMMA SendRequestSim ==
  ASSUME IInv, NEW k \in Clients, SendRequest(k), \A j \in Clients : ReplyInv(j)
  PROVE  (\A j \in Clients : ReplyInv(j)') /\ Service!Next
<1>1. PICK n \in Conns : /\ n = Fresh /\ n \in Nat
                         /\ request[n] = <<>> /\ response[n] = <<>>
  BY FreshFacts DEF SendRequest, UnusedConn
<1>2. PICK s \in Presentable : s = session[k]
  BY IssuedFacts DEF SendRequest, IInv, HeldInv, Honest
<1>3. PICK r : r = RequestRecords(n, s)
  OBVIOUS
<1>4. /\ pc[k] = "connecting"
      /\ pc' = [pc EXCEPT ![k] = "requestSent"]
      /\ at' = [at EXCEPT ![k] = n]
      /\ request' = [request EXCEPT ![n] = r]
      /\ UNCHANGED <<outcome, reply, response>>
  BY <1>1, <1>2, <1>3 DEF SendRequest, OpenConnection, Goto
<1>5. Alone(k) /\ pc'[k] = "requestSent" /\ at'[k] = n
  BY <1>4 DEF IInv, TypeOK, Alone
<1>6. \A j \in Clients : ReplyInv(j)'
  <2>1. ReplyInv(k)'
    BY <1>5 DEF ReplyInv
  <2> QED
    BY <1>5, <2>1, OthersKeepReply
<1>7. r # <<>> /\ Head(r).body.msg = "pskHello"
  <2>1. r # <<>> /\ Head(r).body = PskHello(n, s.ticket)
    BY <1>1, <1>3, RequestKinds
  <2> QED
    BY <2>1 DEF PskHello, Message
<1>8. ~ IsRequest(n) /\ IsRequest(n)'
  BY <1>1, <1>4, <1>7 DEF IInv, TypeOK, IsRequest, Hello
<1>9. \A c \in Conns \ {n} : IsRequest(c)' <=> IsRequest(c)
  BY <1>4 DEF IInv, TypeOK, IsRequest, Hello
<1>10. n \notin Asked /\ Asked' = Asked \cup {n} /\ Handled' = Handled
  BY <1>1, <1>4, <1>8, <1>9 DEF Asked, Handled
<1>11. Question[k] = 0 /\ Question'[k] = n
  BY <1>4, <1>5 DEF Question, AskingPlaces
<1>12. Answer'[k] = 0 /\ Answer[k] = 0
  BY <1>4, <1>5 DEF Answer
<1>13. Question' = [Question EXCEPT ![k] = n] /\ Answer' = Answer
  BY <1>5, <1>11, <1>12, MappedAlone DEF Answer
<1>14. Service!Ask(k, n)
  BY <1>10, <1>11, <1>13 DEF Service!Ask
<1> QED
  BY <1>6, <1>14 DEF Service!Next

\* The data a request reads is the echo of that request.
LEMMA ReadDataSim ==
  ASSUME IInv, NEW k \in Clients, ReadData(k), \A j \in Clients : ReplyInv(j)
  PROVE  /\ \A j \in Clients : ReplyInv(j)'
         /\ Service!Next \/ UNCHANGED Service!vars
<1>1. Answered(k, 2) /\ key[k] = ResponseKey(k) /\ pc[k] = "data"
  BY DEF IInv, ClientInv, PlaceInv, ReadData
<1>2. NextOpens(k) /\ Body(k) \in Messages /\ Body(k).fresh = at[k]
  <2>1. 2 \in 1..3
    OBVIOUS
  <2> QED
    BY <1>1, <2>1, AnswerReads DEF IInv
<1>3. PICK m : m = Body(k)
  OBVIOUS
<1>4. /\ pc' = [pc EXCEPT ![k] = "abort"]
      /\ reply' = [reply EXCEPT ![k] = m]
      /\ UNCHANGED <<outcome, at, request, response>>
  BY <1>2, <1>3 DEF ReadData, Goto, connVars
<1>5. Alone(k) /\ pc'[k] = "abort" /\ reply'[k] = m /\ at'[k] = at[k]
  BY <1>4 DEF IInv, TypeOK, Alone
<1>6. m # None /\ m.fresh = at[k]
  BY <1>2, <1>3, NoneAssumption
<1>7. \A j \in Clients : ReplyInv(j)'
  <2>1. ReplyInv(k)'
    BY <1>5, <1>6 DEF ReplyInv
  <2> QED
    BY <1>5, <2>1, OthersKeepReply
<1>8. Question'[k] = Question[k] /\ Answer'[k] = Answer[k]
  BY <1>1, <1>5 DEF Question, Answer, AskingPlaces
<1>9. Question' = Question /\ Answer' = Answer
  <2>1. /\ Question' = [Question EXCEPT ![k] = Question[k]]
        /\ Answer' = [Answer EXCEPT ![k] = Answer[k]]
    BY <1>5, <1>8, MappedAlone
  <2>2. [Question EXCEPT ![k] = Question[k]] = Question
    BY DEF Question
  <2>3. [Answer EXCEPT ![k] = Answer[k]] = Answer
    BY DEF Answer
  <2> QED
    BY <2>1, <2>2, <2>3
<1>10. Asked' = Asked /\ Handled' = Handled
  BY <1>4, MappedConns
<1> QED
  BY <1>7, <1>9, <1>10 DEF Service!vars

\* The call then returns with the answer to the question it asked.
LEMMA ReadAbortSim ==
  ASSUME IInv, NEW k \in Clients, ReadAbort(k), \A j \in Clients : ReplyInv(j)
  PROVE  (\A j \in Clients : ReplyInv(j)') /\ Service!Next
<1>1. CASE Fail(k, "protocol")
  <2>1. Quiet(k)
    BY <1>1, FailQuiet DEF IInv
  <2>2. Asked' = Asked /\ Handled' = Handled
    BY MappedConns DEF ReadAbort, connVars
  <2> QED
    BY <2>1, <2>2, QuietStep, QuietKeepsReply
<1>2. CASE Return(k, "answered") /\ UNCHANGED <<at, reply>>
  <2>1. Answered(k, 3) /\ pc[k] = "abort"
    BY DEF IInv, ClientInv, PlaceInv, ReadAbort
  <2>2. /\ pc' = [pc EXCEPT ![k] = "idle"]
        /\ outcome' = [outcome EXCEPT ![k] = "answered"]
        /\ UNCHANGED <<at, reply, request, response>>
    BY <1>2 DEF ReadAbort, Return, connVars
  <2>3. Alone(k) /\ pc'[k] = "idle" /\ outcome'[k] = "answered"
    BY <2>2 DEF IInv, TypeOK, Alone
  <2>4. reply[k] # None /\ reply[k].fresh = at[k]
    BY <2>1 DEF ReplyInv
  <2>5. \A j \in Clients : ReplyInv(j)'
    <3>1. ReplyInv(k)'
      BY <2>2, <2>3, <2>4 DEF ReplyInv
    <3> QED
      BY <2>3, <3>1, OthersKeepReply
  <2>6. at[k] \in Conns /\ at[k] \in Nat /\ IsRequest(at[k])
    <3>1. /\ session[k] \in Presentable /\ at[k] \in Nat
          /\ request[at[k]] = RequestRecords(at[k], session[k])
      BY <2>1, AskingFacts DEF IInv, Answered, Asking
    <3>2. /\ request[at[k]] # <<>>
          /\ Hello(at[k]) = PskHello(at[k], session[k].ticket)
      BY <3>1, RequestKinds DEF Hello
    <3>3. at[k] \in 1..opened /\ opened \in 0..MaxConns
      BY <2>1 DEF Answered, Asking, IInv, TypeOK
    <3>4. at[k] \in Conns
      BY <3>3, ShortLinkAssumption DEF Conns
    <3> QED
      BY <3>1, <3>2, <3>4 DEF IsRequest, PskHello, Message
  <2>7. response[at[k]] # <<>>
    <3>1. PICK n \in Nat, e \in Nat, s \in Presentable :
            n = at[k] /\ e = served[at[k]] /\ s = session[k]
      BY <2>1, AskingFacts DEF IInv, Answered
    <3>2. response[at[k]] = AnswerTo(n, s, e)
      BY <2>1, <3>1 DEF Answered, Asking, AnswerTo
    <3>3. AnswerTo(n, s, e) # <<>>
      BY PskRecordsFacts
    <3> QED
      BY <3>2, <3>3
  <2>8. Question[k] = at[k] /\ Question'[k] = 0 /\ Answer'[k] = at[k]
    BY <2>1, <2>2, <2>3, <2>4 DEF Question, Answer, AskingPlaces, EchoOf
  <2>9. Question[k] \in Handled
    BY <2>6, <2>7, <2>8 DEF Handled
  <2>10. Asked' = Asked /\ Handled' = Handled
    BY <2>2, MappedConns
  <2>11. Service!Answer(k)
    BY <2>3, <2>8, <2>9, <2>10, MappedAlone DEF Service!Answer
  <2> QED
    BY <2>5, <2>11 DEF Service!Next
<1> QED
  BY <1>1, <1>2 DEF ReadAbort

\* Every step of a client is one of the service, or changes nothing in it.
LEMMA ClientSim ==
  ASSUME IInv, \A j \in Clients : ReplyInv(j), NEW k \in Clients,
         ClientStep(k) \/ CallerStep(k) \/ ClientFault(k)
  PROVE  /\ \A j \in Clients : ReplyInv(j)'
         /\ Service!Next \/ UNCHANGED Service!vars
<1>1. ASSUME Quiet(k), Asked' = Asked, Handled' = Handled
      PROVE  (\A j \in Clients : ReplyInv(j)') /\ Service!Next
  BY <1>1, QuietStep, QuietKeepsReply
<1>2. CASE SendRequest(k)
  BY <1>2, SendRequestSim
<1>3. CASE ReadData(k)
  BY <1>3, ReadDataSim
<1>4. CASE ReadAbort(k)
  BY <1>4, ReadAbortSim
<1>5. CASE \/ ReceiveResponse(k) \/ ReceiveFails(k)
           \/ ReadServerHello(k) \/ ReadSignature(k) \/ ReadTicket(k)
           \/ ReadFinish(k) \/ ReadPskHello(k) \/ ReadPskFinish(k)
  BY <1>1, <1>5, ReadingQuiet, MappedConns DEF IInv
<1>6. CASE HandshakeAgain(k) \/ StartRequest(k) \/ ClientFault(k)
  BY <1>1, <1>6, CallingQuiet, MappedConns DEF IInv
<1>7. CASE \E api \in {"handshake", "request"} : StartHandshake(k, api)
  BY <1>1, <1>7, StartHandshakeSim
<1>8. CASE SaveSession(k) \/ LoadSession(k)
  <2>1. UNCHANGED <<pc, outcome, at, reply, request, response>>
    BY <1>8 DEF SaveSession, LoadSession, callVars, clientVars, connVars
  <2> QED
    BY <2>1, MappedClients, MappedConns DEF Service!vars
<1> QED
  BY <1>2, <1>3, <1>4, <1>5, <1>6, <1>7, <1>8 DEF ClientStep, CallerStep

-----------------------------------------------------------------------------
(* The steps of the server and the network.                                 *)

\* Answering a request handles the question it asks.
LEMMA AnswerRequestSim ==
  ASSUME IInv, NEW c \in Conns, AnswerRequest(c), \A j \in Clients : ReplyInv(j)
  PROVE  (\A j \in Clients : ReplyInv(j)') /\ Service!Next
<1>1. /\ UNCHANGED <<pc, outcome, at, reply, request>>
      /\ \E r : response' = [response EXCEPT ![c] = r]
  BY DEF AnswerRequest, callVars, clientVars
<1>2. stage[c] = "sent" /\ Hello(c).msg = "pskHello"
  BY DEF AnswerRequest
<1>3. response[c] = <<>>
  BY <1>2, WaitingRequest DEF Unserved
<1>4. PICK t \in Conns, s \in Presentable : request[c] = RequestRecords(c, s)
                                            /\ s = SessionOf(t)
  <2>1. Issued(Hello(c).ref) /\ request[c] = RequestRecords(c, SessionOf(Hello(c).ref))
    BY <1>2, WaitingRequest
  <2>2. SessionOf(Hello(c).ref) \in Presentable /\ Hello(c).ref \in Conns
    BY <2>1, IssuedFacts DEF IInv, Issued
  <2> QED
    BY <2>1, <2>2
<1>5. c \in Nat /\ epoch \in Nat
  BY ShortLinkAssumption DEF IInv, TypeOK, Conns, Epochs
<1>6. IsRequest(c) /\ request[c] # <<>>
  BY <1>2, <1>4, <1>5, RequestKinds DEF IsRequest
<1>7. response'[c] # <<>>
  BY DEF AnswerRequest, PskRecords, IInv, TypeOK
<1>8. Asked' = Asked
  BY <1>1 DEF Asked, IsRequest, Hello
<1>9. c \in Asked \ Handled /\ Handled' = Handled \cup {c}
  BY <1>1, <1>3, <1>6, <1>7 DEF IInv, TypeOK, Asked, Handled, IsRequest, Hello
<1>10. /\ Question' = Question /\ Answer' = Answer
       /\ \A j \in Clients : ReplyInv(j)'
  BY <1>1, MappedClients
<1>11. Service!Handle(c)
  BY <1>8, <1>9, <1>10 DEF Service!Handle
<1> QED
  BY <1>10, <1>11 DEF Service!Next

\* Every other step of the server and the network changes nothing in the service.
LEMMA OutsideSim ==
  ASSUME IInv, \A j \in Clients : ReplyInv(j),
         \/ \E c \in Conns : IssueTicket(c) \/ RefuseRequest(c) \/ Respond(c) \/ Lose(c)
         \/ ServerRestart
         \/ UNCHANGED vars
  PROVE  (\A j \in Clients : ReplyInv(j)') /\ UNCHANGED Service!vars
<1>1. UNCHANGED <<pc, outcome, at, reply, request>>
  BY DEF IssueTicket, RefuseRequest, Respond, Lose, ServerRestart, vars, callVars,
     clientVars, connVars
<1>2. /\ Question' = Question /\ Answer' = Answer
      /\ \A j \in Clients : ReplyInv(j)'
  BY <1>1, MappedClients
<1>3. Asked' = Asked
  BY <1>1 DEF Asked, IsRequest, Hello
<1>4. Handled' = Handled
  <2>1. CASE UNCHANGED response
    BY <1>1, <2>1, MappedConns
  <2>2. CASE \E c \in Conns : IssueTicket(c)
    <3>1. PICK c \in Conns : IssueTicket(c)
      BY <2>2
    <3>2. ~ IsRequest(c)
      BY <3>1 DEF IssueTicket, IsRequest
    <3>3. \A d \in Conns \ {c} : response'[d] = response[d]
      BY <3>1 DEF IssueTicket, IInv, TypeOK
    <3> QED
      BY <1>1, <3>2, <3>3 DEF Handled, IsRequest, Hello
  <2>3. UNCHANGED response \/ \E c \in Conns : IssueTicket(c)
    BY DEF RefuseRequest, Respond, Lose, ServerRestart, vars, connVars
  <2> QED
    BY <2>1, <2>2, <2>3
<1> QED
  BY <1>2, <1>3, <1>4 DEF Service!vars

-----------------------------------------------------------------------------
\* No step leaves ReplyInv, and every step is one of the service.
LEMMA NextSim ==
  ASSUME IInv, \A j \in Clients : ReplyInv(j), [Next]_vars
  PROVE  /\ \A j \in Clients : ReplyInv(j)'
         /\ [Service!Next]_(Service!vars)
<1>1. ASSUME NEW k \in Clients, ClientStep(k) \/ CallerStep(k) \/ ClientFault(k)
      PROVE  /\ \A j \in Clients : ReplyInv(j)'
             /\ [Service!Next]_(Service!vars)
  BY <1>1, ClientSim
<1>2. ASSUME NEW c \in Conns, AnswerRequest(c)
      PROVE  /\ \A j \in Clients : ReplyInv(j)'
             /\ [Service!Next]_(Service!vars)
  BY <1>2, AnswerRequestSim
<1>3. CASE \/ \E c \in Conns :
                IssueTicket(c) \/ RefuseRequest(c) \/ Respond(c) \/ Lose(c)
           \/ ServerRestart
           \/ UNCHANGED vars
  BY <1>3, OutsideSim
<1> QED
  BY <1>1, <1>2, <1>3 DEF Next, ServerStep

\* request() handles a question at most once, and hands its caller the answer
\* to the question of that very call, once it was handled, or none.
THEOREM RequestReplySteps ==
  Spec => Service!Init /\ [][Service!Next]_(Service!vars)
<1>1. Init => Service!Init
  BY DEF Init, Service!Init, Asked, Handled, Question, Answer, IsRequest,
     AskingPlaces
<1>2. Init => \A j \in Clients : ReplyInv(j)
  BY DEF Init, ReplyInv
<1>3. IInv /\ (\A j \in Clients : ReplyInv(j)) /\ [Next]_vars
        => (\A j \in Clients : ReplyInv(j))'
  BY NextSim
<1>4. IInv /\ (\A j \in Clients : ReplyInv(j)) /\ [Next]_vars
        => [Service!Next]_(Service!vars)
  BY NextSim
<1> QED
  BY <1>1, <1>2, <1>3, <1>4, Invariance, PTL DEF Spec
=============================================================================
