-------------------------- MODULE LongLinkNonceProofs --------------------------
(***************************************************************************)
(* No key and nonce of the long link seal two records, for every set of    *)
(* clients and every bound.  The records of a handshake, and the answer to *)
(* a noop, are where their key and sequence number say.  The requests of   *)
(* noops, which a client may send on any connection, are told apart by an  *)
(* invariant of their own: what a client has sent under its application    *)
(* key is numbered below its client_seq_num.                               *)
(***************************************************************************)
EXTENDS LongLinkProofs

-----------------------------------------------------------------------------
(* The inductive invariant of noops.                                        *)

\* A record sealed under the client's half of an application key.
IsNoop(r) ==
  /\ r.key # None
  /\ r.key.label = "application data key expansion"
  /\ r.key.part = "client"

\* The connection of the task that shares its key: the key tells the transcript,
\* and the second message of that bears the connection's number.
KeyConn(r) == r.key.hash[2].fresh

\* No request of a noop.
Plain(r) == ~ IsNoop(r) /\ (r.key # None => r.body # NoopRequest)

\* Noops are sealed under application keys that clients have adopted;
NoopKeys ==
  \A c \in Conns : \A i \in DOMAIN up[c] :
    ~ Plain(up[c][i]) => IsNoop(up[c][i]) /\ KeyConn(up[c][i]) \in Spent

\* a client numbers each above all it has sent under the key it holds;
NoopsCounted ==
  \A k \in Clients : status[k] = 1 =>
    \A c \in Conns : \A i \in DOMAIN up[c] :
      IsNoop(up[c][i]) /\ KeyConn(up[c][i]) = session[k].ticket
        => up[c][i].seq < cseq[k]

\* and so no two of them have both key and number in common.
NoopsDiffer ==
  \A c, d \in Conns : \A i \in DOMAIN up[c], j \in DOMAIN up[d] :
    /\ IsNoop(up[c][i]) /\ IsNoop(up[d][j])
    /\ up[c][i].key = up[d][j].key
    /\ up[c][i].seq = up[d][j].seq
    => c = d /\ i = j

NoopInv == NoopKeys /\ NoopsCounted /\ NoopsDiffer

-----------------------------------------------------------------------------
(* Steps that send no noop.                                                 *)

\* A client that holds a key holds the one it held, and its count is not set
\* back; or else nothing was ever sent under its key.
GoesOn(k) ==
  status'[k] = 1 =>
    \/ /\ status[k] = 1
       /\ session'[k].ticket = session[k].ticket
       /\ cseq'[k] >= cseq[k]
    \/ session'[k].ticket \notin Spent

\* What is added to the streams is plain, and nothing else changes there.
AddsPlain ==
  /\ Spent \subseteq Spent'
  /\ \A c \in Conns : \A i \in DOMAIN up'[c] :
       \/ i \in DOMAIN up[c] /\ up'[c][i] = up[c][i]
       \/ Plain(up'[c][i])

\* Such steps keep the invariant.
LEMMA NoopFrame ==
  ASSUME IInv, IInv', NoopInv, AddsPlain, \A k \in Clients : GoesOn(k)
  PROVE  NoopInv'
<1>1. ASSUME NEW c \in Conns, NEW i \in DOMAIN up'[c], ~ Plain(up'[c][i])
      PROVE  /\ i \in DOMAIN up[c] /\ up'[c][i] = up[c][i]
             /\ IsNoop(up'[c][i]) /\ KeyConn(up'[c][i]) \in Spent
  BY <1>1 DEF AddsPlain, NoopInv, NoopKeys
<1>2. \A r : IsNoop(r) => ~ Plain(r)
  BY DEF Plain
<1>3. NoopKeys'
  BY <1>1 DEF NoopKeys, AddsPlain
<1>4. NoopsCounted'
  <2>1. SUFFICES ASSUME NEW k \in Clients, status'[k] = 1,
                        NEW c \in Conns, NEW i \in DOMAIN up'[c],
                        IsNoop(up'[c][i]), KeyConn(up'[c][i]) = session'[k].ticket
                 PROVE  up'[c][i].seq < cseq'[k]
    BY DEF NoopsCounted
  <2>2. PICK r : r = up[c][i] /\ r = up'[c][i] /\ KeyConn(r) \in Spent /\ i \in DOMAIN up[c]
    BY <1>1, <1>2, <2>1
  <2>3. /\ status[k] = 1 /\ session'[k].ticket = session[k].ticket
        /\ cseq'[k] >= cseq[k]
    BY <2>1, <2>2 DEF GoesOn
  <2>4. r.seq < cseq[k]
    BY <2>1, <2>2, <2>3 DEF NoopInv, NoopsCounted
  <2>5. r.seq \in Nat
    <3>1. up[c] \in Seq(Records)
      BY DEF IInv, TypeOK
    <3>2. \A S : \A s \in Seq(S) : \A n \in DOMAIN s : s[n] \in S
      OBVIOUS
    <3>3. r \in Records
      BY <2>2, <3>1, <3>2
    <3> QED
      BY <3>3 DEF Records
  <2>6. cseq[k] \in Nat /\ cseq'[k] \in Nat
    BY LongLinkAssumption DEF IInv, TypeOK
  <2> QED
    BY <2>2, <2>3, <2>4, <2>5, <2>6
<1>5. NoopsDiffer'
  BY <1>1, <1>2 DEF NoopInv, NoopsDiffer
<1> QED
  BY <1>3, <1>4, <1>5 DEF NoopInv

\* Where nothing is written, nothing is added.
LEMMA NothingAdded ==
  ASSUME UNCHANGED up
  PROVE  AddsPlain
BY DEF AddsPlain, Spent, FinishedOn

\* One record is added.
LEMMA RecordAdded ==
  ASSUME IInv, NEW l \in Conns, NEW r \in Records,
         up' = [up EXCEPT ![l] = Append(@, r)]
  PROVE  /\ Spent \subseteq Spent'
         /\ \A c \in Conns : \A i \in DOMAIN up'[c] :
              \/ i \in DOMAIN up[c] /\ up'[c][i] = up[c][i]
              \/ c = l /\ i \notin DOMAIN up[l] /\ up'[c][i] = r
         /\ \A i, j \in DOMAIN up'[l] \ DOMAIN up[l] : i = j
<1>1. up \in [Conns -> Seq(Records)]
  BY DEF IInv, TypeOK
<1>2. PICK s \in Seq(Records) : s = up[l]
  BY <1>1
<1>3. up'[l] = Append(s, r) /\ \A c \in Conns \ {l} : up'[c] = up[c]
  BY <1>1, <1>2
<1>4. \A i \in DOMAIN Append(s, r) :
        \/ i \in DOMAIN s /\ Append(s, r)[i] = s[i]
        \/ i = Len(s) + 1 /\ i \notin DOMAIN s /\ Append(s, r)[i] = r
  OBVIOUS
<1>5. \A i \in DOMAIN s : i \in DOMAIN Append(s, r) /\ Append(s, r)[i] = s[i]
  OBVIOUS
<1>6. \A i, j \in DOMAIN up'[l] \ DOMAIN up[l] : i = j
  BY <1>2, <1>3, <1>4
<1>7. ASSUME NEW c \in Conns, NEW i \in DOMAIN up'[c]
      PROVE  \/ i \in DOMAIN up[c] /\ up'[c][i] = up[c][i]
             \/ c = l /\ i \notin DOMAIN up[l] /\ up'[c][i] = r
  <2>1. CASE c # l
    BY <1>3, <1>7, <2>1
  <2>2. CASE c = l
    BY <1>2, <1>3, <1>4, <1>7, <2>2
  <2> QED
    BY <2>1, <2>2
<1>8. Spent \subseteq Spent'
  <2>1. ASSUME NEW c \in Conns, NEW i \in DOMAIN up[c]
        PROVE  i \in DOMAIN up'[c] /\ up'[c][i] = up[c][i]
    <3>1. CASE c # l
      BY <1>3, <2>1, <3>1
    <3>2. CASE c = l
      BY <1>2, <1>3, <1>5, <2>1, <3>2
    <3> QED
      BY <3>1, <3>2
  <2>2. ASSUME NEW c \in Conns, FinishedOn(c) PROVE FinishedOn(c)'
    BY <2>1, <2>2 DEF FinishedOn
  <2> QED
    BY <2>2 DEF Spent
<1> QED
  BY <1>6, <1>7, <1>8

\* Only client k changes what it holds or counts.
Apart(k) ==
  \A j \in Clients \ {k} : /\ status'[j] = status[j]
                            /\ session'[j] = session[j]
                            /\ cseq'[j] = cseq[j]

\* The others go on.
LEMMA OthersGoOn ==
  ASSUME TypeOK, NEW k \in Clients, Apart(k)
  PROVE  \A j \in Clients \ {k} : GoesOn(j)
<1>1. \A j \in Clients : cseq[j] \in Nat
  BY LongLinkAssumption DEF TypeOK
<1> QED
  BY <1>1 DEF GoesOn, Apart

\* Steps of a client that write nothing.
LEMMA QuietClientOK ==
  ASSUME IInv, IInv', NoopInv, NEW k \in Clients, UNCHANGED up, Apart(k),
         status'[k] = 1 =>
           status[k] = 1 /\ session'[k] = session[k] /\ cseq'[k] >= cseq[k]
  PROVE  NoopInv'
<1>1. GoesOn(k)
  BY DEF GoesOn
<1>2. \A j \in Clients \ {k} : GoesOn(j)
  BY OthersGoOn DEF IInv
<1> QED
  BY <1>1, <1>2, NothingAdded, NoopFrame

\* The steps of a handshake that read.
LEMMA HandshakeReadOK ==
  ASSUME IInv, IInv', NoopInv, NEW k \in Clients,
         \/ ReadServerHello(k) \/ ReadSignature(k)
         \/ ReadTicket(k) \/ ReadServerFinish(k)
  PROVE  NoopInv'
<1>1. status[k] = 0
  BY DEF ReadServerHello, ReadSignature, ReadTicket, ReadServerFinish, IInv,
     ClientInv, PlaceInv, Shaking
<1>2. UNCHANGED <<up, status, cseq>>
  BY DEF ReadServerHello, ReadSignature, ReadTicket, ReadServerFinish, TakeRecord,
     Fail
<1>3. \A j \in Clients \ {k} : session'[j] = session[j]
  <2>1. session' = session \/ \E x : session' = [session EXCEPT ![k] = x]
    BY DEF ReadServerHello, ReadSignature, ReadTicket, ReadServerFinish, Fail
  <2> QED
    BY <2>1 DEF IInv, TypeOK
<1>4. Apart(k)
  BY <1>2, <1>3 DEF Apart
<1> QED
  BY <1>1, <1>2, <1>4, QuietClientOK

\* The other steps of a client that write nothing.
LEMMA ShortStepOK ==
  ASSUME IInv, IInv', NoopInv, NEW k \in Clients,
         \/ ClientFinishFails(k) \/ ReadFails(k) \/ ReadGarbage(k) \/ Cancel(k)
         \/ HandshakeAgain(k) \/ ConnectFails(k) \/ NoopUnready(k)
         \/ NoopUnconnected(k) \/ NoopFails(k) \/ Close(k) \/ Reconnect(k)
         \/ HelloFails(k) \/ ReadNoop(k) \/ ClientRestart(k)
  PROVE  NoopInv'
<1>1. cseq[k] \in Nat
  BY LongLinkAssumption DEF IInv, TypeOK
<1>2. UNCHANGED up
  BY DEF ClientFinishFails, ReadFails, ReadGarbage, Cancel, HandshakeAgain,
     ConnectFails, NoopUnready, NoopUnconnected, NoopFails, Close, Reconnect,
     HelloFails, ReadNoop, TakeRecord, ClientRestart, streams
<1>3. CASE \/ ClientFinishFails(k) \/ ReadFails(k) \/ ReadGarbage(k) \/ Cancel(k)
           \/ HandshakeAgain(k) \/ ConnectFails(k) \/ NoopUnready(k)
           \/ NoopFails(k) \/ Close(k) \/ Reconnect(k) \/ ReadNoop(k)
  <2>1. UNCHANGED <<status, session, cseq>>
    BY <1>3 DEF ClientFinishFails, ReadFails, ReadGarbage, Cancel, HandshakeAgain,
       ConnectFails, NoopUnready, NoopFails, Close, Reconnect, ReadNoop, Fail,
       clientVars
  <2> QED
    BY <1>1, <1>2, <2>1, QuietClientOK DEF Apart
<1>4. CASE NoopUnconnected(k)
  <2>1. Apart(k)
    BY <1>4 DEF NoopUnconnected, Apart, IInv, TypeOK
  <2>2. UNCHANGED <<status, session>>
    BY <1>4 DEF NoopUnconnected
  <2>3. cseq'[k] = cseq[k] + 1
    BY <1>4 DEF NoopUnconnected, IInv, TypeOK
  <2>4. cseq'[k] >= cseq[k]
    BY <1>1, <2>3
  <2> QED
    BY <1>2, <2>1, <2>2, <2>4, QuietClientOK
<1>5. CASE HelloFails(k)
  <2>1. Apart(k)
    BY <1>5 DEF HelloFails, DrawHello, Apart, IInv, TypeOK
  <2>2. status'[k] = 0
    BY <1>5 DEF HelloFails, DrawHello
  <2> QED
    BY <1>2, <2>1, <2>2, QuietClientOK
<1>6. CASE ClientRestart(k)
  <2>1. Apart(k) /\ status'[k] = 0
    BY <1>6 DEF ClientRestart, Apart, IInv, TypeOK
  <2> QED
    BY <1>2, <2>1, QuietClientOK
<1> QED
  BY <1>3, <1>4, <1>5, <1>6

\* The server and the network write nothing on a client's stream.
LEMMA OutsideOK ==
  ASSUME IInv, IInv', NoopInv,
         \/ \E c \in Conns : ServerStep(c) \/ Break(c)
         \/ ServerRestart
         \/ UNCHANGED vars
  PROVE  NoopInv'
<1>1. UNCHANGED <<up, status, session, cseq>>
  BY DEF ServerStep, ReadClientHello, SendServerHello, SendSignature, SendTicket,
     StoreSession, SendServerFinish, ReadClientFinish, ReadNoopRequest,
     SendNoopResponse, TaskFails, TakeUp, SendSealed, Send, Break, ServerRestart,
     vars, clientVars, streams
<1>2. \A k \in Clients : GoesOn(k)
  <2>1. \A k \in Clients : cseq[k] \in Nat
    BY LongLinkAssumption DEF IInv, TypeOK
  <2> QED
    BY <1>1, <2>1 DEF GoesOn
<1> QED
  BY <1>1, <1>2, NothingAdded, NoopFrame

-----------------------------------------------------------------------------
(* Steps of a client that write a record.                                   *)

\* A record of a handshake, hello or finish, is plain.
LEMMA PlainAdded ==
  ASSUME IInv, IInv', NoopInv, NEW l \in Conns, NEW r \in Records, Plain(r),
         up' = [up EXCEPT ![l] = Append(@, r)], \A k \in Clients : GoesOn(k)
  PROVE  NoopInv'
<1>1. /\ Spent \subseteq Spent'
      /\ \A c \in Conns : \A i \in DOMAIN up'[c] :
           \/ i \in DOMAIN up[c] /\ up'[c][i] = up[c][i]
           \/ c = l /\ i \notin DOMAIN up[l] /\ up'[c][i] = r
  BY RecordAdded, ZenonT(60)
<1>2. AddsPlain
  BY <1>1 DEF AddsPlain
<1> QED
  BY <1>2, NoopFrame

\* A handshake starts before there is a key.
LEMMA HelloPlain ==
  ASSUME IInv, IInv', NoopInv, NEW k \in Clients, StartHandshake(k)
  PROVE  NoopInv'
<1>1. PICK l \in Conns : l = Link(k)
  BY DEF StartHandshake, DrawHello, Connect
<1>2. PICK m \in Messages : m = NextHello(k)
  <2>1. hellos + 1 \in Nat
    BY LongLinkAssumption DEF IInv, TypeOK
  <2> QED
    BY <2>1, MessageTypes DEF NextHello
<1>3. Clear(m) \in Records /\ Clear(m).key = None
  BY DEF Clear, Records
<1>4. Plain(Clear(m))
  BY <1>3 DEF Plain, IsNoop
<1>5. up' = [up EXCEPT ![l] = Append(@, Clear(m))]
  BY <1>1, <1>2 DEF StartHandshake
<1>6. GoesOn(k)
  BY DEF StartHandshake, DrawHello, GoesOn
<1>7. Apart(k)
  BY DEF StartHandshake, DrawHello, Apart, IInv, TypeOK
<1>8. \A j \in Clients \ {k} : GoesOn(j)
  BY <1>7, OthersGoOn DEF IInv
<1> QED
  BY <1>3, <1>4, <1>5, <1>6, <1>8, PlainAdded

\* The keys of a handshake and of noops, told apart by what they are derived for.
LEMMA KeyTells ==
  ASSUME NEW c
  PROVE  /\ TrafficKeyOf(c).client.label = "handshake key expansion"
         /\ TrafficKeyOf(c).client.part = "client"
         /\ TrafficKeyOf(c).server.part = "server"
         /\ AppKeyOf(c).client.label = "application data key expansion"
         /\ AppKeyOf(c).client.part = "client"
         /\ AppKeyOf(c).server.part = "server"
         /\ TrafficKeyOf(c).client.hash = SubSeq(thash[c], 1, 2)
         /\ TrafficKeyOf(c).server.hash = SubSeq(thash[c], 1, 2)
         /\ AppKeyOf(c).client.hash = thash[c]
         /\ AppKeyOf(c).server.hash = thash[c]
<1>1. PICK x, h, g : x = SecretOf(c) /\ h = SubSeq(thash[c], 1, 2) /\ g = thash[c]
  OBVIOUS
<1>2. PICK y, z : y = HandshakeKey(x, h) /\ z = AppKey(x, g)
  OBVIOUS
<1>3. TrafficKeyOf(c) = y /\ AppKeyOf(c) = z
  BY <1>1, <1>2 DEF TrafficKeyOf, HandshakeKey, AppKeyOf
<1>4. /\ y.client.label = "handshake key expansion"
      /\ y.client.part = "client" /\ y.server.part = "server"
      /\ y.client.hash = h /\ y.server.hash = h
  BY <1>2 DEF HandshakeKey, TrafficKey56, Half
<1>5. /\ z.client.label = "application data key expansion"
      /\ z.client.part = "client" /\ z.server.part = "server"
      /\ z.client.hash = g /\ z.server.hash = g
  BY <1>2 DEF AppKey, TrafficKey56, Half
<1> QED
  BY <1>1, <1>3, <1>4, <1>5, Zenon

\* The second message of a task's transcript bears the connection's number.
LEMMA HashNamesConn ==
  ASSUME IInv, NEW c \in Conns, Len(thash[c]) >= 2
  PROVE  /\ thash[c][2].fresh = c
         /\ SubSeq(thash[c], 1, 2)[2] = thash[c][2]
<1>1. thash[c][2] = ServerHello(c, EpochOf(c))
  BY DEF IInv, ConnInv, HashInv
<1>2. \A n, e : ServerHello(n, e).fresh = n
  BY DEF ServerHello, Message
<1>3. thash[c] \in Seq(Messages)
  BY HashTypes DEF IInv
<1>4. SubSeq(thash[c], 1, 2)[2] = thash[c][2]
  <2>1. ASSUME NEW S, NEW s \in Seq(S), Len(s) >= 2 PROVE SubSeq(s, 1, 2)[2] = s[2]
    BY <2>1
  <2> QED
    BY <1>3, <2>1
<1> QED
  BY <1>1, <1>2, <1>4

\* A ClientFinish is plain, and nothing was sent under the key adopted with it.
LEMMA FinishPlain ==
  ASSUME IInv, IInv', NoopInv, NEW k \in Clients, SendClientFinish(k)
  PROVE  NoopInv'
<1>1. PICK c : c = conn[k]
  OBVIOUS
<1>2. Shaking(k, c, 4) /\ Agreed(k, c, 4) /\ hasher[k] = thash[c] /\ Ticketed(k, c)
  BY <1>1 DEF SendClientFinish, IInv, ClientInv, PlaceInv
<1>3. c \in Conns
  BY <1>2, LongLinkAssumption DEF Shaking, IInv, TypeOK, Conns
<1>4. PICK b, x, r : b = ClientFinishOf(c) /\ x = TrafficKeyOf(c).client /\ r = Seal(b, x, 1)
  OBVIOUS
<1>5. up' = [up EXCEPT ![c] = Append(@, r)]
  <2>1. Finish("client finished", secret[k], hasher[k]) = b
    BY <1>2, <1>4 DEF Agreed, ClientFinishOf
  <2>2. key[k].client = x /\ cseq[k] = 1
    BY <1>2, <1>4 DEF Agreed, Shaking
  <2> QED
    BY <1>1, <1>4, <2>1, <2>2 DEF SendClientFinish
<1>6. x \in Halves /\ SecretOf(c) \in ComKeys
  <2>1. Len(thash[c]) = 4
    BY <1>2 DEF Shaking
  <2>2. Len(thash[c]) >= 2
    BY <2>1
  <2> QED
    BY <1>3, <1>4, <2>2, DerivedTypes DEF IInv
<1>7. b \in Finishes
  BY <1>3, <1>4, <1>6, FinishTypes DEF ClientFinishOf, IInv, TypeOK, Secrets
<1>8. r \in Records /\ r.key = x /\ r.body = b
  BY <1>4, <1>6, <1>7, SentTypes
<1>9. Plain(r)
  <2>1. x.label = "handshake key expansion"
    BY <1>4, KeyTells
  <2>2. b # NoopRequest
    <3>1. "mac" \in DOMAIN b
      BY <1>4 DEF ClientFinishOf, Finish
    <3>2. "mac" \notin DOMAIN NoopRequest
      BY DEF NoopRequest, Message
    <3> QED
      BY <3>1, <3>2
  <2> QED
    BY <1>8, <2>1, <2>2 DEF Plain, IsNoop
<1>10. GoesOn(k)
  <2>1. session'[k].ticket = c
    <3>1. PICK y : session' = [session EXCEPT ![k].app = y]
      BY DEF SendClientFinish
    <3>2. session[k] \in Sessions /\ session[k].ticket = c
      BY <1>2 DEF Ticketed, IInv, TypeOK
    <3>3. session'[k] = [session[k] EXCEPT !.app = y]
      BY <3>1 DEF IInv, TypeOK
    <3> QED
      BY <3>2, <3>3 DEF Sessions
  <2>2. c \notin Spent
    BY <1>2 DEF Shaking, HelloUp, Spent, FinishedOn
  <2> QED
    BY <2>1, <2>2 DEF GoesOn
<1>11. Apart(k)
  BY DEF SendClientFinish, Apart, IInv, TypeOK
<1>12. \A j \in Clients \ {k} : GoesOn(j)
  BY <1>11, OthersGoOn DEF IInv
<1> QED
  BY <1>3, <1>5, <1>8, <1>9, <1>10, <1>12, PlainAdded

\* A noop is numbered above all that its client, or anybody else, has sent under
\* the key it is sealed with.
LEMMA NoopCounted ==
  ASSUME IInv, IInv', NoopInv, NEW k \in Clients, StartNoop(k)
  PROVE  NoopInv'
<1>1. PICK l, t, n, x, r :
        /\ l = conn[k] /\ t = session[k].ticket /\ n = cseq[k]
        /\ x = session[k].app.client /\ r = Seal(NoopRequest, x, n)
  OBVIOUS
<1>2. /\ HasAppKey(k)
      /\ up' = [up EXCEPT ![l] = Append(@, r)]
      /\ cseq' = [cseq EXCEPT ![k] = n + 1]
      /\ UNCHANGED <<status, session>>
      /\ l # 0
  BY <1>1 DEF StartNoop, NoopRequest
<1>3. /\ l \in Conns /\ t \in Conns /\ n \in Nat /\ status[k] = 1
      /\ FinishUp(t) /\ session[k].app = AppKeyOf(t)
  <2>1. status[k] = 1 /\ Settled(k, t, l)
    BY <1>1, <1>2 DEF IInv, ClientInv
  <2>2. l \in Conns /\ n \in Nat
    BY <1>1, <1>2, LongLinkAssumption DEF IInv, TypeOK, Conns
  <2>3. t \in Conns
    BY <1>1, <1>2 DEF IInv, TypeOK, Sessions, HasAppKey
  <2> QED
    BY <2>1, <2>2, <2>3 DEF Settled
<1>4. Len(thash[t]) = 4 /\ x = AppKeyOf(t).client
  BY <1>1, <1>3 DEF FinishUp
<1>5. x \in Halves /\ x # None
  BY <1>3, <1>4, DerivedTypes, NoneAssumption DEF IInv
<1>6. NoopRequest \in Messages
  BY MessageTypes
<1>7. r \in Records /\ r.key = x /\ r.seq = n
  BY <1>1, <1>3, <1>5, <1>6, SentTypes
<1>8. IsNoop(r) /\ KeyConn(r) = t
  <2>1. x.label = "application data key expansion" /\ x.part = "client" /\ x.hash = thash[t]
    BY <1>4, KeyTells
  <2>2. Len(thash[t]) >= 2
    BY <1>4
  <2>3. thash[t][2].fresh = t
    BY <1>3, <2>2, HashNamesConn
  <2> QED
    BY <1>5, <1>7, <2>1, <2>3 DEF IsNoop, KeyConn
<1>9. t \in Spent
  <2>1. 2 \in DOMAIN up[t] /\ up[t][2].key # None
    BY <1>3, FinishIsSealed DEF IInv
  <2>2. up[t][2].body = ClientFinishOf(t)
    BY <1>3 DEF FinishUp, Seal
  <2>3. "mac" \in DOMAIN ClientFinishOf(t)
    BY DEF ClientFinishOf, Finish
  <2> QED
    BY <1>3, <2>1, <2>2, <2>3 DEF Spent, FinishedOn
<1>10. /\ Spent \subseteq Spent'
       /\ \A c \in Conns : \A i \in DOMAIN up'[c] :
            \/ i \in DOMAIN up[c] /\ up'[c][i] = up[c][i]
            \/ c = l /\ i \notin DOMAIN up[l] /\ up'[c][i] = r
       /\ \A i, j \in DOMAIN up'[l] \ DOMAIN up[l] : i = j
  BY <1>2, <1>3, <1>7, RecordAdded, Zenon
<1>11. ASSUME NEW c \in Conns, NEW i \in DOMAIN up[c], IsNoop(up[c][i]), KeyConn(up[c][i]) = t
       PROVE  up[c][i].seq < n
  BY <1>1, <1>3, <1>11 DEF NoopInv, NoopsCounted
<1>12. NoopKeys'
  BY <1>8, <1>9, <1>10 DEF NoopInv, NoopKeys
<1>13. NoopsDiffer'
  <2>1. SUFFICES ASSUME NEW c \in Conns, NEW d \in Conns,
                        NEW i \in DOMAIN up'[c], NEW j \in DOMAIN up'[d],
                        IsNoop(up'[c][i]), IsNoop(up'[d][j]),
                        up'[c][i].key = up'[d][j].key, up'[c][i].seq = up'[d][j].seq
                 PROVE  c = d /\ i = j
    BY DEF NoopsDiffer
  <2>2. CASE /\ i \in DOMAIN up[c] /\ up'[c][i] = up[c][i]
             /\ j \in DOMAIN up[d] /\ up'[d][j] = up[d][j]
    BY <2>1, <2>2 DEF NoopInv, NoopsDiffer
  <2>3. ASSUME NEW e \in Conns, NEW h \in DOMAIN up[e], IsNoop(up[e][h]),
               up[e][h].key = x, up[e][h].seq = n
        PROVE  FALSE
    <3>1. KeyConn(up[e][h]) = t
      BY <1>7, <1>8, <2>3 DEF KeyConn
    <3>2. n < n
      BY <1>11, <2>3, <3>1
    <3> QED
      BY <1>3, <3>2
  <2>4. CASE c = l /\ i \notin DOMAIN up[l] /\ up'[c][i] = r
    <3>1. d = l /\ j \notin DOMAIN up[l]
      BY <1>7, <1>10, <2>1, <2>3, <2>4
    <3> QED
      BY <1>10, <2>1, <2>4, <3>1
  <2>5. CASE d = l /\ j \notin DOMAIN up[l] /\ up'[d][j] = r
    <3>1. c = l /\ i \notin DOMAIN up[l]
      BY <1>7, <1>10, <2>1, <2>3, <2>5
    <3> QED
      BY <1>10, <2>1, <2>5, <3>1
  <2> QED
    BY <1>10, <2>1, <2>2, <2>4, <2>5
<1>14. NoopsCounted'
  <2>1. SUFFICES ASSUME NEW j \in Clients, status'[j] = 1,
                        NEW c \in Conns, NEW i \in DOMAIN up'[c],
                        IsNoop(up'[c][i]), KeyConn(up'[c][i]) = session'[j].ticket
                 PROVE  up'[c][i].seq < cseq'[j]
    BY DEF NoopsCounted
  <2>2. status[j] = 1 /\ session'[j].ticket = session[j].ticket
    BY <1>2, <2>1
  <2>3. CASE j = k
    <3>1. cseq'[j] = n + 1
      BY <1>2, <2>3 DEF IInv, TypeOK
    <3>2. CASE i \in DOMAIN up[c] /\ up'[c][i] = up[c][i]
      <4>1. up[c][i].seq < n
        BY <1>1, <1>11, <2>1, <2>2, <2>3, <3>2
      <4>2. up[c][i].seq \in Nat
        <5>1. up[c] \in Seq(Records)
          BY DEF IInv, TypeOK
        <5>2. \A S : \A s \in Seq(S) : \A m \in DOMAIN s : s[m] \in S
          OBVIOUS
        <5>3. up[c][i] \in Records
          BY <3>2, <5>1, <5>2
        <5> QED
          BY <5>3 DEF Records
      <4> QED
        BY <1>3, <3>1, <3>2, <4>1, <4>2
    <3>3. CASE up'[c][i] = r
      BY <1>3, <1>7, <3>1, <3>3
    <3> QED
      BY <1>10, <3>2, <3>3
  <2>4. CASE j # k
    <3>1. cseq'[j] = cseq[j]
      BY <1>2, <2>4 DEF IInv, TypeOK
    <3>2. session[j].ticket # t
      <4>1. Owns(k, t) /\ (session[j].ticket = t => Owns(j, t))
        BY <1>1, <1>3, <2>2 DEF Owns
      <4> QED
        BY <1>3, <2>4, <4>1 DEF IInv, Owned
    <3>3. up'[c][i] # r
      BY <1>8, <2>1, <2>2, <3>2
    <3>4. i \in DOMAIN up[c] /\ up'[c][i] = up[c][i]
      BY <1>10, <2>1, <3>3
    <3> QED
      BY <2>1, <2>2, <3>1, <3>4 DEF NoopInv, NoopsCounted
  <2> QED
    BY <2>3, <2>4
<1> QED
  BY <1>12, <1>13, <1>14 DEF NoopInv

-----------------------------------------------------------------------------
(* The records of a connection, by the keys they are sealed under.          *)

\* So the keys of a connection name it.
LEMMA KeyNamesConn ==
  ASSUME IInv, NEW c \in Conns, Len(thash[c]) >= 2
  PROVE  /\ TrafficKeyOf(c).server.part = "server"
         /\ TrafficKeyOf(c).server.hash[2].fresh = c
         /\ TrafficKeyOf(c).client.part = "client"
         /\ TrafficKeyOf(c).client.hash[2].fresh = c
         /\ AppKeyOf(c).server.part = "server"
         /\ AppKeyOf(c).server.hash[2].fresh = c
<1>1. PICK h, g : h = SubSeq(thash[c], 1, 2) /\ g = thash[c]
  OBVIOUS
<1>2. h[2].fresh = c /\ g[2].fresh = c
  BY <1>1, HashNamesConn
<1>3. /\ TrafficKeyOf(c).server.part = "server" /\ TrafficKeyOf(c).server.hash = h
      /\ TrafficKeyOf(c).client.part = "client" /\ TrafficKeyOf(c).client.hash = h
      /\ AppKeyOf(c).server.part = "server" /\ AppKeyOf(c).server.hash = g
  BY <1>1, KeyTells, Zenon
<1> QED
  BY <1>2, <1>3

\* A sealed record of the server is where its key and number say.
LEMMA DownPlace ==
  ASSUME IInv, NEW c \in Conns, NEW i \in DOMAIN down[c], down[c][i].key # None
  PROVE  /\ down[c][i].key.part = "server" /\ KeyConn(down[c][i]) = c
         /\ down[c][i].seq + 1 = i
<1>1. down[c] \in Seq(Records) /\ Len(down[c]) \in Nat /\ Len(down[c]) <= 5 /\ DownInv(c)
  BY DEF IInv, TypeOK, ConnInv, DownInv
<1>2. i \in 1..5 /\ i <= Len(down[c])
  <2>1. DOMAIN down[c] = 1..Len(down[c])
    BY <1>1
  <2>2. \A n \in Nat : \A j \in 1..n : n <= 5 => j \in 1..5 /\ j <= n
    OBVIOUS
  <2> QED
    BY <1>1, <2>1, <2>2
<1>3. \A n \in Nat : \A m \in 1..5 : m <= n => \A j \in 1..m : n >= j
  OBVIOUS
<1>4. \A b, x, n : Seal(b, x, n).key = x /\ Seal(b, x, n).seq = n
  BY DEF Seal
<1>5. Len(down[c]) >= 1 => Len(thash[c]) >= 2
  BY <1>1 DEF DownInv
<1>6. Len(thash[c]) >= 2
  BY <1>1, <1>2, <1>3, <1>5
<1>7. PICK x, y : /\ x = TrafficKeyOf(c).server /\ y = AppKeyOf(c).server
                  /\ x.part = "server" /\ x.hash[2].fresh = c
                  /\ y.part = "server" /\ y.hash[2].fresh = c
  BY <1>6, KeyNamesConn
<1>8. i # 1
  <2>1. down[c][1].key = None
    BY <1>1, <1>2, <1>3 DEF DownInv, Clear
  <2> QED
    BY <2>1
<1>9. CASE i = 2
  <2>1. down[c][i].key = x /\ down[c][i].seq = 1
    BY <1>1, <1>2, <1>3, <1>4, <1>7, <1>9 DEF DownInv
  <2> QED
    BY <1>7, <1>9, <2>1 DEF KeyConn
<1>10. CASE i = 3
  <2>1. down[c][i].key = x /\ down[c][i].seq = 2
    BY <1>1, <1>2, <1>3, <1>4, <1>7, <1>10 DEF DownInv
  <2> QED
    BY <1>7, <1>10, <2>1 DEF KeyConn
<1>11. CASE i = 4
  <2>1. down[c][i].key = x /\ down[c][i].seq = 3
    BY <1>1, <1>2, <1>3, <1>4, <1>7, <1>11 DEF DownInv
  <2> QED
    BY <1>7, <1>11, <2>1 DEF KeyConn
<1>12. CASE i = 5
  <2>1. Len(down[c]) = 5
    <3>1. \A n \in Nat : n <= 5 /\ 5 <= n => n = 5
      OBVIOUS
    <3> QED
      BY <1>1, <1>2, <1>12, <3>1
  <2>2. down[c][i].key = y /\ down[c][i].seq = 4
    BY <1>1, <1>4, <1>7, <1>12, <2>1 DEF DownInv
  <2> QED
    BY <1>7, <1>12, <2>2 DEF KeyConn
<1> QED
  BY <1>2, <1>8, <1>9, <1>10, <1>11, <1>12

\* A sealed record of a client is a noop, or the ClientFinish of its connection.
LEMMA UpPlace ==
  ASSUME IInv, NoopInv, NEW c \in Conns, NEW i \in DOMAIN up[c], up[c][i].key # None
  PROVE  /\ up[c][i].key.part = "client"
         /\ ~ IsNoop(up[c][i]) => i = 2 /\ KeyConn(up[c][i]) = c
<1>1. CASE IsNoop(up[c][i])
  BY <1>1 DEF IsNoop
<1>2. CASE ~ IsNoop(up[c][i])
  <2>1. up[c][i].body # NoopRequest
    BY <1>2 DEF NoopInv, NoopKeys, Plain
  <2>2. FinishUp(c)
    BY <2>1 DEF IInv, ConnInv, UpInv, HelloUp, NoopUp
  <2>3. Len(thash[c]) = 4 /\ ConnInv(c)
    BY <2>2 DEF FinishUp, IInv
  <2>4. Len(thash[c]) >= 1 /\ Len(thash[c]) >= 2
    BY <2>3
  <2>5. i # 1
    BY <2>3, <2>4 DEF ConnInv, HashInv
  <2>6. i = 2
    <3>1. SUFFICES ASSUME i # 2 PROVE FALSE
      OBVIOUS
    <3>2. i \in 3..Len(up[c])
      <4>1. up[c] \in Seq(Records)
        BY DEF IInv, TypeOK
      <4>2. DOMAIN up[c] = 1..Len(up[c]) /\ Len(up[c]) \in Nat
        BY <4>1
      <4>3. \A n \in Nat : \A j \in 1..n : j # 1 /\ j # 2 => j \in 3..n
        OBVIOUS
      <4> QED
        BY <2>5, <3>1, <4>2, <4>3
    <3>3. PICK x : x = AppKeyOf(c).client
      OBVIOUS
    <3>4. up[c][i] = Seal(NoopRequest, x, i - 1)
      BY <2>2, <3>2, <3>3 DEF FinishUp
    <3>5. \A b, y, n : Seal(b, y, n).body = b
      BY DEF Seal
    <3> QED
      BY <2>1, <3>4, <3>5
  <2>7. up[c][2].key = TrafficKeyOf(c).client
    <3>1. \A b, y, n : Seal(b, y, n).key = y
      BY DEF Seal
    <3> QED
      BY <2>2, <3>1 DEF FinishUp
  <2>8. TrafficKeyOf(c).client.part = "client" /\ TrafficKeyOf(c).client.hash[2].fresh = c
    BY <2>4, KeyNamesConn
  <2> QED
    BY <1>2, <2>6, <2>7, <2>8 DEF KeyConn
<1> QED
  BY <1>1, <1>2

-----------------------------------------------------------------------------
\* No step leaves the invariant of noops.
LEMMA NextNoopInv ==
  ASSUME IInv, IInv', NoopInv, [Next]_vars
  PROVE  NoopInv'
<1>1. ASSUME NEW k \in Clients, ClientStep(k) \/ CallerStep(k) \/ ClientFault(k)
      PROVE  NoopInv'
  BY <1>1, HandshakeReadOK, ShortStepOK, HelloPlain, FinishPlain, NoopCounted
     DEF ClientStep, CallerStep, ClientFault
<1> QED
  BY <1>1, OutsideOK DEF Next

\* No AES-GCM key and nonce seal two records of the long link, although
\* client_seq_num and the application key outlive a connection, and a handshake
\* may start over on one.
THEOREM NoNonceTwice == Spec => []NoNonceReuse
<1>1. Init => NoopInv
  BY DEF Init, NoopInv, NoopKeys, NoopsCounted, NoopsDiffer
<1>2. IInv /\ IInv' /\ NoopInv /\ [Next]_vars => NoopInv'
  BY NextNoopInv
<1>3. IInv /\ NoopInv => NoNonceReuse
  <2>1. SUFFICES ASSUME IInv, NoopInv, NEW p \in Sealed, NEW q \in Sealed,
                        RecordAt(p).seq = RecordAt(q).seq,
                        RecordAt(p).key = RecordAt(q).key
                 PROVE  p = q
    BY DEF NoNonceReuse
  <2>2. /\ p = <<p[1], p[2], p[3]>> /\ q = <<q[1], q[2], q[3]>>
        /\ p[1] \in Conns /\ q[1] \in Conns
        /\ p[2] \in {"up", "down"} /\ q[2] \in {"up", "down"}
        /\ p[3] \in DOMAIN Written(p) /\ q[3] \in DOMAIN Written(q)
        /\ RecordAt(p).key # None /\ RecordAt(q).key # None
    BY <2>1 DEF Sealed
  <2>3. SUFFICES p[1] = q[1] /\ p[2] = q[2] /\ p[3] = q[3]
    BY <2>2
  <2>4. ASSUME NEW s \in Sealed, s[2] = "down", s[1] \in Conns,
               s[3] \in DOMAIN Written(s), RecordAt(s).key # None
        PROVE  /\ RecordAt(s).key.part = "server" /\ KeyConn(RecordAt(s)) = s[1]
               /\ RecordAt(s).seq + 1 = s[3]
    BY <2>1, <2>4, DownPlace DEF RecordAt, Written
  <2>5. ASSUME NEW s \in Sealed, s[2] = "up", s[1] \in Conns,
               s[3] \in DOMAIN Written(s), RecordAt(s).key # None
        PROVE  /\ RecordAt(s).key.part = "client"
               /\ ~ IsNoop(RecordAt(s)) => s[3] = 2 /\ KeyConn(RecordAt(s)) = s[1]
               /\ s[3] \in DOMAIN up[s[1]] /\ RecordAt(s) = up[s[1]][s[3]]
    BY <2>1, <2>5, UpPlace DEF RecordAt, Written
  <2>6. KeyConn(RecordAt(p)) = KeyConn(RecordAt(q)) /\ (IsNoop(RecordAt(p)) <=> IsNoop(RecordAt(q)))
    BY <2>1 DEF KeyConn, IsNoop
  <2>7. CASE p[2] = "down"
    <3>1. q[2] = "down"
      BY <2>1, <2>2, <2>4, <2>5, <2>7
    <3> QED
      BY <2>1, <2>2, <2>4, <2>6, <2>7, <3>1
  <2>8. CASE p[2] = "up"
    <3>1. q[2] = "up"
      BY <2>1, <2>2, <2>4, <2>5, <2>8
    <3>2. CASE IsNoop(RecordAt(p))
      BY <2>1, <2>2, <2>5, <2>6, <2>8, <3>1, <3>2 DEF NoopInv, NoopsDiffer
    <3>3. CASE ~ IsNoop(RecordAt(p))
      BY <2>1, <2>2, <2>5, <2>6, <2>8, <3>1, <3>3
    <3> QED
      BY <3>2, <3>3
  <2> QED
    BY <2>2, <2>7, <2>8
<1> QED
  BY <1>1, <1>2, <1>3, Invariance, PTL DEF Spec
=============================================================================
