---------------------------- MODULE LongLinkProofs ----------------------------
(***************************************************************************)
(* Proofs about the long link, for every set of clients and every bound.   *)
(*                                                                         *)
(* The invariant says what a connection carries: what the task there has   *)
(* hashed decides every record it wrote, and clients have written hellos   *)
(* alone, one handshake with its noops, or noops alone.  A client reads a  *)
(* record under the key of its own transcript only where that transcript   *)
(* is the task's: its hello is then the one the task read, so it is the    *)
(* first of the connection, and, the client's hello being the latest       *)
(* there, the only one.                                                    *)
(***************************************************************************)
EXTENDS LongLink, TLAPS

-----------------------------------------------------------------------------
(* The inductive invariant: what a connection carries.                      *)

NoopRequest  == Message("noopRequest", 0, 0)
NoopResponse == Message("noopResponse", 0, 0)

\* The server process whose key the task of connection c used.
EpochOf(c) == thash[c][2].ref

\* What the two ends finish its handshake with.
ServerFinishOf(c) == Finish("server finished", SecretOf(c), thash[c])
ClientFinishOf(c) == Finish("client finished", SecretOf(c), thash[c])

\* The key of a handshake, from its shared secret and the two hellos.
HandshakeKey(x, h) == TrafficKey56(x, "handshake key expansion", h)

\* A connection not opened yet.
Unopened(c) ==
  /\ task[c] = "none"
  /\ up[c] = <<>>
  /\ downRead[c] = 0

\* What the task has hashed: the first record it read, a hello and a ticket that
\* bear the connection's number, and the epoch the task runs in.
HashInv(c) ==
  /\ Len(thash[c]) <= 4
  /\ Len(thash[c]) >= 1 =>
       /\ up[c] # <<>>
       /\ up[c][1].key = None
       /\ up[c][1].body = thash[c][1]
  /\ Len(thash[c]) >= 2 =>
       /\ thash[c][2] = ServerHello(c, EpochOf(c))
       /\ EpochOf(c) \in 1..epoch
       /\ Running(c) => EpochOf(c) = epoch
  /\ Len(thash[c]) = 4 => thash[c][4] = NewSessionTicket(c)

\* What it has written, record by record.
DownInv(c) ==
  /\ downRead[c] <= Len(down[c])
  /\ Len(down[c]) <= 5
  /\ Len(down[c]) >= 1 =>
       /\ Len(thash[c]) >= 2
       /\ down[c][1] = Clear(thash[c][2])
  /\ Len(down[c]) >= 2 =>
       /\ Len(thash[c]) >= 3
       /\ down[c][2] = Seal(thash[c][3], TrafficKeyOf(c).server, 1)
  /\ Len(down[c]) >= 3 =>
       /\ Len(thash[c]) = 4
       /\ down[c][3] = Seal(thash[c][4], TrafficKeyOf(c).server, 2)
  /\ Len(down[c]) >= 4 =>
       down[c][4] = Seal(ServerFinishOf(c), TrafficKeyOf(c).server, 3)
  /\ Len(down[c]) = 5 => down[c][5] = Seal(NoopResponse, AppKeyOf(c).server, 4)

\* What clients have written.  Either hellos alone, each drawn after the last;
HelloUp(c) ==
  \A i \in DOMAIN up[c] :
    /\ up[c][i].key = None
    /\ up[c][i].body \in Messages
    /\ up[c][i].body.fresh <= hellos
    /\ \A j \in 1..i - 1 : up[c][j].body.fresh < up[c][i].body.fresh

\* or a whole handshake, and the noops that follow it;
FinishUp(c) ==
  /\ Len(thash[c]) = 4
  /\ Len(down[c]) >= 4
  /\ Len(up[c]) >= 2
  /\ up[c][2] = Seal(ClientFinishOf(c), TrafficKeyOf(c).client, 1)
  /\ \A i \in 3..Len(up[c]) :
       up[c][i] = Seal(NoopRequest, AppKeyOf(c).client, i - 1)

\* or noops alone, of a client that reconnected.
NoopUp(c) ==
  \A i \in DOMAIN up[c] : up[c][i].body = NoopRequest /\ up[c][i].key # None

UpInv(c) == HelloUp(c) \/ FinishUp(c) \/ NoopUp(c)

\* How far the task has come.
Progress(c, hashed, written, read) ==
  /\ Len(thash[c]) = hashed
  /\ Len(down[c]) = written
  /\ upRead[c] = read

TaskInv(c) ==
  /\ task[c] \in {"none", "hello"}         => Progress(c, 0, 0, 0)
  /\ task[c] = "serverHello"               => Progress(c, 1, 0, 1)
  /\ task[c] = "signature"                 => Progress(c, 2, 1, 1)
  /\ task[c] = "ticket"                    => Progress(c, 3, 2, 1)
  /\ task[c] \in {"store", "serverFinish"} => Progress(c, 4, 3, 1)
  /\ task[c] = "clientFinish"              => Progress(c, 4, 4, 1)
  /\ task[c] = "noop"                      => Progress(c, 4, 4, 2) /\ FinishUp(c)
  /\ task[c] = "noopReply"                 => Progress(c, 4, 4, 3) /\ FinishUp(c)
  /\ task[c] = "done"                      => Progress(c, 4, 5, 3) /\ FinishUp(c)
  /\ task[c] \in {"rejected", "failed"}    => Len(down[c]) <= 4
  /\ task[c] = "rejected"                  => Reused(c) \/ 1 \notin HellosOn(c)

\* The session of the connection is in the map before ServerFinish is written,
\* and until the process that put it there dies.
MapInv(c) ==
  /\ task[c] = "serverFinish" => sessions[c] = PskOf(c)
  /\ Len(down[c]) >= 4 =>
       sessions[c] = IF EpochOf(c) = epoch THEN PskOf(c) ELSE None

ConnInv(c) ==
  /\ c > opened => Unopened(c)
  /\ HashInv(c)
  /\ DownInv(c)
  /\ UpInv(c)
  /\ TaskInv(c)
  /\ MapInv(c)

-----------------------------------------------------------------------------
(* The inductive invariant: where a client is.                              *)

\* A handshake in progress on connection c: its hello is the last one there.
Shaking(k, c, hashed) ==
  /\ c \in 1..opened
  /\ status[k] = 0
  /\ cseq[k] = 1
  /\ Len(hasher[k]) = hashed
  /\ HelloUp(c)
  /\ up[c] # <<>>
  /\ up[c][Len(up[c])].body = hasher[k][1]
  /\ Len(up[c]) = 1 => downRead[c] = sseq[k]

\* A handshake that has read i records under the key of the task there.
Agreed(k, c, i) ==
  /\ Len(up[c]) = 1
  /\ Len(down[c]) >= i
  /\ sseq[k] = i
  /\ secret[k] = SecretOf(c)
  /\ key[k] = TrafficKeyOf(c)

Ticketed(k, c) ==
  /\ session[k] # None
  /\ session[k].ticket = c
  /\ session[k].psk = PskOf(c)
  /\ session[k].app = None

PlaceInv(k, c) ==
  /\ pc[k] = "serverHello" => Shaking(k, c, 1) /\ sseq[k] = 0
  /\ pc[k] = "signature" =>
       /\ Shaking(k, c, 2)
       /\ Len(down[c]) >= 1
       /\ sseq[k] = 1
       /\ hasher[k][2] = thash[c][2]
       /\ secret[k] = Ecdh(hasher[k][1].fresh, EpochOf(c))
       /\ key[k] = HandshakeKey(secret[k], hasher[k])
  /\ pc[k] = "ticket" =>
       Shaking(k, c, 3) /\ Agreed(k, c, 2) /\ hasher[k] = SubSeq(thash[c], 1, 3)
  /\ pc[k] = "serverFinish" =>
       /\ Shaking(k, c, 4) /\ Agreed(k, c, 3) /\ hasher[k] = thash[c]
       /\ Ticketed(k, c)
  /\ pc[k] = "clientFinish" =>
       /\ Shaking(k, c, 4) /\ Agreed(k, c, 4) /\ hasher[k] = thash[c]
       /\ Ticketed(k, c)
  /\ pc[k] = "noop" => c # 0 /\ status[k] = 1

\* A client that completed the handshake of connection t, and is on connection c.
Settled(k, t, c) ==
  /\ FinishUp(t)
  /\ session[k].psk = PskOf(t)
  /\ session[k].app = AppKeyOf(t)
  /\ sseq[k] >= 4
  /\ downRead[t] = sseq[k]
  /\ c = t => cseq[k] = Len(up[t])
  /\ c \notin {0, t} => NoopUp(c)

ClientInv(k) ==
  /\ conn[k] \in 0..opened
  /\ PlaceInv(k, conn[k])
  /\ status[k] = 1 <=> HasAppKey(k)
  /\ status[k] = 1 => Settled(k, session[k].ticket, conn[k])
  /\ status[k] = 0 /\ conn[k] # 0 => HelloUp(conn[k]) /\ up[conn[k]] # <<>>
  /\ outcome[k] = "alive" => status[k] = 1 /\ sseq[k] = 5
  /\ pc[k] = "idle" /\ outcome[k] = "protocol" /\ conn[k] # 0
       => Reused(conn[k]) \/ conn[k] \in torn

\* The connections a client is on, or holds the application key of, are its own.
Owns(k, c) == conn[k] = c \/ (status[k] = 1 /\ session[k].ticket = c)
Owned == \A c \in Conns : \A k, j \in Clients : Owns(k, c) /\ Owns(j, c) => k = j

IInv ==
  /\ TypeOK
  /\ \A c \in Conns : ConnInv(c)
  /\ \A k \in Clients : ClientInv(k)
  /\ Owned

-----------------------------------------------------------------------------
(* Sequences that grow at the end.                                          *)

\* Appending leaves what a sequence holds in place.
LEMMA Appended ==
  ASSUME NEW S, NEW s \in Seq(S), NEW x \in S
  PROVE  /\ Append(s, x) \in Seq(S)
         /\ Append(s, x) # <<>>
         /\ Len(Append(s, x)) = Len(s) + 1
         /\ Append(s, x)[Len(s) + 1] = x
         /\ \A i \in 1..Len(s) : Append(s, x)[i] = s[i]
OBVIOUS

\* So do its prefixes.
LEMMA PrefixStays ==
  ASSUME NEW S, NEW s \in Seq(S), NEW x \in S, NEW i \in 0..Len(s)
  PROVE  SubSeq(Append(s, x), 1, i) = SubSeq(s, 1, i)
OBVIOUS

\* What a prefix is.
LEMMA PrefixFacts ==
  ASSUME NEW S, NEW s \in Seq(S), NEW i \in 0..Len(s)
  PROVE  /\ SubSeq(s, 1, i) \in Seq(S)
         /\ Len(SubSeq(s, 1, i)) = i
         /\ \A j \in 1..i : SubSeq(s, 1, i)[j] = s[j]
         /\ i = Len(s) => SubSeq(s, 1, i) = s
OBVIOUS

\* A prefix grows by the next element.
LEMMA PrefixGrows ==
  ASSUME NEW S, NEW s \in Seq(S), NEW i \in Nat, i < Len(s)
  PROVE  Append(SubSeq(s, 1, i), s[i + 1]) = SubSeq(s, 1, i + 1)
OBVIOUS

\* Sequences are equal if their lengths and elements are.
LEMMA SameElements ==
  ASSUME NEW S, NEW s \in Seq(S), NEW t \in Seq(S), Len(s) = Len(t),
         \A i \in 1..Len(s) : s[i] = t[i]
  PROVE  s = t
OBVIOUS

-----------------------------------------------------------------------------
(* Messages, keys and records.                                              *)

\* The messages of the long link, and what they carry.
LEMMA MessageTypes ==
  ASSUME NEW n \in Nat, NEW e \in Nat
  PROVE  /\ EcdheHello(n) \in Messages /\ EcdheHello(n).fresh = n
         /\ ServerHello(n, e) \in Messages
         /\ ServerHello(n, e).fresh = n /\ ServerHello(n, e).ref = e
         /\ Signature(n, e) \in Messages
         /\ NewSessionTicket(n) \in Messages /\ NewSessionTicket(n).fresh = n
         /\ NoopRequest \in Messages /\ NoopRequest.msg = "noopRequest"
         /\ NoopResponse \in Messages /\ NoopResponse.msg = "noopResponse"
BY DEF EcdheHello, ServerHello, Signature, NewSessionTicket, NoopRequest,
       NoopResponse, Message, Messages, MessageKinds

\* The traffic key of a secret and a transcript.
LEMMA TrafficKeyTypes ==
  ASSUME NEW x \in Secrets, NEW label \in KeyLabels, NEW h \in Transcripts
  PROVE  /\ TrafficKey56(x, label, h) \in KeyPairs
         /\ TrafficKey56(x, label, h).client \in Halves
         /\ TrafficKey56(x, label, h).server \in Halves
         /\ TrafficKey56(x, label, h).client = Half(x, label, h, "client")
         /\ TrafficKey56(x, label, h).server = Half(x, label, h, "server")
BY DEF TrafficKey56, Half, Halves, KeyPairs

\* A handshake key is nobody else's: it tells secret and transcript.
LEMMA HandshakeKeyFacts ==
  ASSUME NEW x \in Secrets, NEW h \in Transcripts
  PROVE  /\ HandshakeKey(x, h) \in KeyPairs
         /\ HandshakeKey(x, h).client \in Halves
         /\ HandshakeKey(x, h).server \in Halves
         /\ HandshakeKey(x, h).server # None
         /\ \A y \in Secrets, g \in Transcripts :
              HandshakeKey(x, h).server = HandshakeKey(y, g).server => x = y /\ h = g
<1>1. /\ HandshakeKey(x, h) \in KeyPairs
      /\ HandshakeKey(x, h).client \in Halves
      /\ HandshakeKey(x, h).server \in Halves
  BY TrafficKeyTypes DEF HandshakeKey, KeyLabels
<1>2. \A y \in Secrets, g \in Transcripts :
        HandshakeKey(x, h).server = HandshakeKey(y, g).server => x = y /\ h = g
  BY DEF HandshakeKey, TrafficKey56, Half
<1> QED
  BY <1>1, <1>2, NoneAssumption

\* A record that is sent clear, or sealed under half a key.
LEMMA SentTypes ==
  ASSUME NEW b \in Messages \cup Finishes, NEW x \in Halves, NEW i \in Nat
  PROVE  /\ Clear(b) \in Records /\ Seal(b, x, i) \in Records
         /\ Clear(b).key = None /\ Clear(b).body = b
         /\ Seal(b, x, i).key = x /\ Seal(b, x, i).body = b
         /\ Seal(b, x, i).seq = i
BY DEF Clear, Seal, Records

\* A finish message has its type, and no message has a "mac".
LEMMA FinishTypes ==
  ASSUME NEW x \in Secrets, NEW h \in Transcripts
  PROVE  /\ Finish("server finished", x, h) \in Finishes
         /\ Finish("client finished", x, h) \in Finishes
         /\ "mac" \in DOMAIN Finish("client finished", x, h)
         /\ \A m \in Messages : "mac" \notin DOMAIN m
BY DEF Finish, HkdfExpand, Finishes, Messages

\* What the task of a connection has hashed, and what it derives from it.
LEMMA HashTypes ==
  ASSUME TypeOK, NEW c \in Conns
  PROVE  /\ thash[c] \in Seq(Messages)
         /\ Len(thash[c]) \in Nat
         /\ \A i \in 1..Len(thash[c]) :
              /\ thash[c][i] \in Messages
              /\ thash[c][i].fresh \in Nat /\ thash[c][i].ref \in Nat
<1>1. thash[c] \in Seq(Messages)
  BY DEF TypeOK, Transcripts
<1>2. \A m \in Messages : m.fresh \in Nat /\ m.ref \in Nat
  BY DEF Messages
<1>3. Len(thash[c]) \in Nat /\ \A i \in 1..Len(thash[c]) : thash[c][i] \in Messages
  BY <1>1
<1> QED
  BY <1>1, <1>2, <1>3

\* The keys derived from it have their types.
LEMMA DerivedTypes ==
  ASSUME TypeOK, NEW c \in Conns
  PROVE  /\ Len(thash[c]) >= 2 =>
              /\ SecretOf(c) \in ComKeys
              /\ SecretOf(c).server = EpochOf(c)
              /\ TrafficKeyOf(c) \in KeyPairs
              /\ TrafficKeyOf(c).client \in Halves
              /\ TrafficKeyOf(c).server \in Halves
              /\ TrafficKeyOf(c) # None
         /\ Len(thash[c]) >= 3 =>
              PskOf(c) \in Psks /\ PskOf(c).secret = SecretOf(c)
         /\ Len(thash[c]) = 4 =>
              /\ AppKeyOf(c) \in KeyPairs
              /\ AppKeyOf(c).client \in Halves
              /\ AppKeyOf(c).server \in Halves
              /\ AppKeyOf(c) # None
<1>1. /\ thash[c] \in Seq(Messages) /\ Len(thash[c]) \in Nat
      /\ \A i \in 1..Len(thash[c]) :
              thash[c][i].fresh \in Nat /\ thash[c][i].ref \in Nat
  BY HashTypes
<1>2. ASSUME Len(thash[c]) >= 2
      PROVE  /\ SecretOf(c) \in ComKeys
             /\ SecretOf(c).server = EpochOf(c)
  <2>1. thash[c][1].fresh \in Nat /\ thash[c][2].ref \in Nat
    BY <1>1, <1>2
  <2> QED
    BY <2>1 DEF SecretOf, EpochOf, Ecdh, ComKeys
<1>3. ASSUME Len(thash[c]) >= 2
      PROVE  /\ TrafficKeyOf(c) \in KeyPairs
             /\ TrafficKeyOf(c).client \in Halves
             /\ TrafficKeyOf(c).server \in Halves
             /\ TrafficKeyOf(c) # None
  <2>1. SecretOf(c) \in Secrets
    BY <1>2, <1>3 DEF Secrets
  <2>2. SubSeq(thash[c], 1, 2) \in Transcripts
    BY <1>1, <1>3, PrefixFacts DEF Transcripts
  <2> QED
    BY <2>1, <2>2, TrafficKeyTypes, NoneAssumption DEF TrafficKeyOf, KeyLabels
<1>4. ASSUME Len(thash[c]) >= 3
      PROVE  PskOf(c) \in Psks /\ PskOf(c).secret = SecretOf(c)
  <2>1. SecretOf(c) \in ComKeys
    BY <1>1, <1>2, <1>4
  <2>2. SubSeq(thash[c], 1, 3) \in Transcripts
    BY <1>1, <1>4, PrefixFacts DEF Transcripts
  <2> QED
    BY <2>1, <2>2 DEF PskOf, HkdfExpand, Psks
<1>5. ASSUME Len(thash[c]) = 4
      PROVE  /\ AppKeyOf(c) \in KeyPairs
             /\ AppKeyOf(c).client \in Halves
             /\ AppKeyOf(c).server \in Halves
             /\ AppKeyOf(c) # None
  <2>1. SecretOf(c) \in ComKeys /\ thash[c] \in Transcripts
    BY <1>1, <1>2, <1>5 DEF Transcripts
  <2>2. HkdfExpand(SecretOf(c), "expanded secret", thash[c]) \in Secrets
    BY <2>1 DEF HkdfExpand, ExpandedSecrets, Secrets
  <2> QED
    BY <2>1, <2>2, TrafficKeyTypes, NoneAssumption DEF AppKeyOf, AppKey, KeyLabels
<1> QED
  BY <1>2, <1>3, <1>4, <1>5

-----------------------------------------------------------------------------
(* What later steps leave alone.                                            *)

\* A task hashes and writes one thing more, or nothing.
Grows(c) ==
  /\ \/ thash'[c] = thash[c]
     \/ \E m \in Messages : thash'[c] = Append(thash[c], m)
  /\ \/ down'[c] = down[c]
     \/ \E r \in Records : down'[c] = Append(down[c], r)

SameConn(c) ==
  /\ up'[c] = up[c]
  /\ down'[c] = down[c]
  /\ upRead'[c] = upRead[c]
  /\ downRead'[c] = downRead[c]
  /\ task'[c] = task[c]
  /\ thash'[c] = thash[c]
  /\ sessions'[c] = sessions[c]

SameClient(k) ==
  /\ pc'[k] = pc[k]
  /\ outcome'[k] = outcome[k]
  /\ conn'[k] = conn[k]
  /\ status'[k] = status[k]
  /\ session'[k] = session[k]
  /\ hasher'[k] = hasher[k]
  /\ cseq'[k] = cseq[k]
  /\ sseq'[k] = sseq[k]
  /\ secret'[k] = secret[k]
  /\ key'[k] = key[k]

\* Connections opened and hellos drawn are only ever counted up.
Counts ==
  /\ opened <= opened'
  /\ hellos <= hellos'

\* Where a transcript stays, so does all that is derived from it.
LEMMA SameHash ==
  ASSUME NEW c, thash'[c] = thash[c]
  PROVE  /\ EpochOf(c)' = EpochOf(c) /\ SecretOf(c)' = SecretOf(c)
         /\ TrafficKeyOf(c)' = TrafficKeyOf(c)
         /\ PskOf(c)' = PskOf(c) /\ AppKeyOf(c)' = AppKeyOf(c)
         /\ ServerFinishOf(c)' = ServerFinishOf(c)
         /\ ClientFinishOf(c)' = ClientFinishOf(c)
<1>1. EpochOf(c)' = EpochOf(c) /\ SecretOf(c)' = SecretOf(c)
  BY DEF EpochOf, SecretOf
<1> QED
  BY <1>1 DEF TrafficKeyOf, PskOf, AppKeyOf, ServerFinishOf, ClientFinishOf

\* What is derived from a transcript outlives its growth.
LEMMA DerivedStay ==
  ASSUME TypeOK, NEW c \in Conns, Grows(c), Len(thash'[c]) <= 4
  PROVE  /\ Len(thash'[c]) >= Len(thash[c])
         /\ Len(down'[c]) >= Len(down[c])
         /\ \A i \in 1..Len(thash[c]) : thash'[c][i] = thash[c][i]
         /\ \A i \in 1..Len(down[c]) : down'[c][i] = down[c][i]
         /\ Len(thash[c]) >= 2 =>
              /\ EpochOf(c)' = EpochOf(c)
              /\ SecretOf(c)' = SecretOf(c)
              /\ TrafficKeyOf(c)' = TrafficKeyOf(c)
         /\ Len(thash[c]) >= 3 =>
              /\ PskOf(c)' = PskOf(c)
              /\ SubSeq(thash'[c], 1, 3) = SubSeq(thash[c], 1, 3)
         /\ Len(thash[c]) = 4 =>
              /\ thash'[c] = thash[c] /\ AppKeyOf(c)' = AppKeyOf(c)
              /\ ServerFinishOf(c)' = ServerFinishOf(c)
              /\ ClientFinishOf(c)' = ClientFinishOf(c)
<1>1. /\ thash[c] \in Seq(Messages) /\ down[c] \in Seq(Records)
      /\ Len(thash[c]) \in Nat /\ Len(down[c]) \in Nat
  BY HashTypes DEF TypeOK
<1>2. /\ Len(thash'[c]) >= Len(thash[c])
      /\ \A i \in 1..Len(thash[c]) : thash'[c][i] = thash[c][i]
      /\ \A i \in 0..Len(thash[c]) : SubSeq(thash'[c], 1, i) = SubSeq(thash[c], 1, i)
      /\ Len(thash[c]) = 4 => thash'[c] = thash[c]
  <2>1. CASE thash'[c] = thash[c]
    BY <1>1, <2>1
  <2>2. CASE \E m \in Messages : thash'[c] = Append(thash[c], m)
    <3>1. PICK m \in Messages : thash'[c] = Append(thash[c], m)
      BY <2>2
    <3> QED
      BY <1>1, <3>1, Appended, PrefixStays
  <2> QED
    BY <2>1, <2>2 DEF Grows
<1>3. /\ Len(down'[c]) >= Len(down[c])
      /\ \A i \in 1..Len(down[c]) : down'[c][i] = down[c][i]
  <2>1. CASE down'[c] = down[c]
    BY <1>1, <2>1
  <2>2. CASE \E r \in Records : down'[c] = Append(down[c], r)
    <3>1. PICK r \in Records : down'[c] = Append(down[c], r)
      BY <2>2
    <3> QED
      BY <1>1, <3>1, Appended
  <2> QED
    BY <2>1, <2>2 DEF Grows
<1>4. ASSUME Len(thash[c]) >= 2
      PROVE  /\ EpochOf(c)' = EpochOf(c)
             /\ SecretOf(c)' = SecretOf(c)
             /\ TrafficKeyOf(c)' = TrafficKeyOf(c)
  <2>1. thash'[c][1] = thash[c][1] /\ thash'[c][2] = thash[c][2]
    BY <1>1, <1>2, <1>4
  <2>2. SubSeq(thash'[c], 1, 2) = SubSeq(thash[c], 1, 2)
    BY <1>1, <1>2, <1>4
  <2> QED
    BY <2>1, <2>2 DEF EpochOf, SecretOf, TrafficKeyOf
<1>5. ASSUME Len(thash[c]) >= 3
      PROVE  /\ PskOf(c)' = PskOf(c)
             /\ SubSeq(thash'[c], 1, 3) = SubSeq(thash[c], 1, 3)
  <2>1. SecretOf(c)' = SecretOf(c)
    BY <1>1, <1>4, <1>5
  <2>2. SubSeq(thash'[c], 1, 3) = SubSeq(thash[c], 1, 3)
    BY <1>1, <1>2, <1>5
  <2> QED
    BY <2>1, <2>2 DEF PskOf
<1>6. ASSUME Len(thash[c]) = 4
      PROVE  /\ thash'[c] = thash[c] /\ AppKeyOf(c)' = AppKeyOf(c)
             /\ ServerFinishOf(c)' = ServerFinishOf(c)
             /\ ClientFinishOf(c)' = ClientFinishOf(c)
  <2>1. thash'[c] = thash[c]
    BY <1>2, <1>6
  <2> QED
    BY <2>1, SameHash
<1> QED
  BY <1>2, <1>3, <1>4, <1>5, <1>6

\* A connection no step touches keeps its invariant.
LEMMA ConnStable ==
  ASSUME TypeOK, TypeOK', Counts, epoch' = epoch, NEW c \in Conns, SameConn(c),
         c > opened => c > opened', ConnInv(c)
  PROVE  ConnInv(c)'
<1>1. /\ SecretOf(c)' = SecretOf(c) /\ TrafficKeyOf(c)' = TrafficKeyOf(c)
      /\ PskOf(c)' = PskOf(c) /\ AppKeyOf(c)' = AppKeyOf(c)
      /\ ServerFinishOf(c)' = ServerFinishOf(c)
      /\ ClientFinishOf(c)' = ClientFinishOf(c)
      /\ EpochOf(c)' = EpochOf(c) /\ Running(c)' = Running(c)
      /\ HellosOn(c)' = HellosOn(c)
  BY SameHash DEF SameConn, Running, HellosOn
<1>2. Reused(c)' = Reused(c)
  BY <1>1 DEF Reused
<1>3. (c > opened)' => Unopened(c)'
  <2>1. (c > opened)' => c > opened
    BY LongLinkAssumption DEF Counts, TypeOK, Conns
  <2> QED
    BY <2>1 DEF ConnInv, Unopened, SameConn
<1>4. HashInv(c)' /\ DownInv(c)'
  <2>1. HashInv(c)'
    BY <1>1 DEF ConnInv, SameConn, HashInv
  <2>2. DownInv(c)'
    BY <1>1 DEF ConnInv, SameConn, DownInv
  <2> QED
    BY <2>1, <2>2
<1>5. UpInv(c)' /\ (FinishUp(c) => FinishUp(c)')
  <2>1. HelloUp(c) => HelloUp(c)'
    <3>1. \A i \in DOMAIN up[c] : up[c][i].body \in Messages => up[c][i].body.fresh \in Nat
      BY DEF Messages
    <3>2. hellos \in Nat /\ hellos' \in Nat
      BY DEF TypeOK
    <3> QED
      BY <3>1, <3>2 DEF HelloUp, SameConn, Counts
  <2>2. FinishUp(c) => FinishUp(c)'
    BY <1>1 DEF FinishUp, SameConn
  <2>3. NoopUp(c) => NoopUp(c)'
    BY DEF NoopUp, SameConn
  <2> QED
    BY <2>1, <2>2, <2>3 DEF ConnInv, UpInv
<1>6. TaskInv(c)'
  BY <1>1, <1>2, <1>5 DEF ConnInv, SameConn, TaskInv, Progress
<1>7. MapInv(c)'
  BY <1>1 DEF ConnInv, SameConn, MapInv
<1> QED
  BY <1>3, <1>4, <1>5, <1>6, <1>7 DEF ConnInv

\* Hellos stay the latest of their connection until another is drawn there.
LEMMA HelloUpStable ==
  ASSUME TypeOK, TypeOK', Counts, NEW c \in Conns, up'[c] = up[c], HelloUp(c)
  PROVE  HelloUp(c)'
<1>1. \A m \in Messages : m.fresh \in Nat
  BY DEF Messages
<1>2. hellos \in Nat /\ hellos' \in Nat
  BY DEF TypeOK
<1> QED
  BY <1>1, <1>2 DEF HelloUp, Counts

\* What another step may do to the connections of client k.
Undisturbed(k) ==
  /\ SameClient(k)
  /\ \A c \in Conns :
       /\ Grows(c)
       /\ Len(thash'[c]) <= 4
       /\ Owns(k, c) => up'[c] = up[c] /\ downRead'[c] = downRead[c]

\* A handshake nobody disturbs goes on from where it was.
LEMMA PlaceStable ==
  ASSUME TypeOK, TypeOK', Counts, \A c \in Conns : ConnInv(c),
         NEW k \in Clients, Undisturbed(k), conn[k] \in 0..opened,
         PlaceInv(k, conn[k])
  PROVE  PlaceInv(k, conn[k])'
<1>0. PICK c : c = conn[k]
  OBVIOUS
<1>1. /\ pc'[k] = pc[k] /\ conn'[k] = c /\ status'[k] = status[k]
      /\ session'[k] = session[k] /\ hasher'[k] = hasher[k]
      /\ cseq'[k] = cseq[k] /\ sseq'[k] = sseq[k]
      /\ secret'[k] = secret[k] /\ key'[k] = key[k]
  BY <1>0 DEF Undisturbed, SameClient
<1>2. CASE pc[k] \in {"idle", "noop"}
  BY <1>0, <1>1, <1>2 DEF PlaceInv
<1>3. CASE pc[k] \in Places \ {"idle", "noop"}
  <2>1. c \in 1..opened /\ c \in Conns
    <3>1. c \in 1..opened
      BY <1>0, <1>3 DEF PlaceInv, Shaking, Places
    <3> QED
      BY <1>0, <3>1, LongLinkAssumption DEF TypeOK, Conns
  <2>2. up'[c] = up[c] /\ downRead'[c] = downRead[c] /\ Grows(c)
        /\ Len(thash'[c]) <= 4
    BY <1>0, <2>1 DEF Undisturbed, Owns
  <2>3. /\ Len(down'[c]) >= Len(down[c])
        /\ \A i \in 1..Len(thash[c]) : thash'[c][i] = thash[c][i]
        /\ Len(thash[c]) >= 2 =>
              /\ EpochOf(c)' = EpochOf(c)
              /\ SecretOf(c)' = SecretOf(c)
              /\ TrafficKeyOf(c)' = TrafficKeyOf(c)
        /\ Len(thash[c]) >= 3 =>
              /\ PskOf(c)' = PskOf(c)
              /\ SubSeq(thash'[c], 1, 3) = SubSeq(thash[c], 1, 3)
        /\ Len(thash[c]) = 4 => thash'[c] = thash[c]
    BY <1>0, <2>1, <2>2, DerivedStay
  <2>4. /\ Len(down[c]) \in Nat /\ Len(down'[c]) \in Nat /\ Len(thash[c]) \in Nat
        /\ Len(down[c]) >= 1 => Len(thash[c]) >= 2
        /\ Len(down[c]) >= 2 => Len(thash[c]) >= 3
        /\ Len(down[c]) >= 3 => Len(thash[c]) = 4
    <3>1. DownInv(c)
      BY <2>1 DEF ConnInv
    <3>2. Len(down[c]) \in Nat /\ Len(down'[c]) \in Nat
      BY SMTT(20), <2>1 DEF TypeOK
    <3>3. Len(thash[c]) \in Nat
      BY <2>1, HashTypes
    <3> QED
      BY <3>1, <3>2, <3>3 DEF DownInv
  <2>5. ASSUME NEW i \in Nat, Shaking(k, c, i) PROVE Shaking(k, conn[k], i)'
    <3>1. HelloUp(c)'
      BY <1>0, <2>1, <2>2, <2>5, HelloUpStable DEF Shaking
    <3>2. c \in 1..opened'
      BY <1>0, <2>1 DEF Counts, TypeOK
    <3> QED
      BY <1>0, <1>1, <2>2, <2>5, <3>1, <3>2 DEF Shaking
  <2>6. ASSUME NEW i \in 2..4, Agreed(k, c, i) PROVE Agreed(k, conn[k], i)'
    BY <1>0, <1>1, <2>2, <2>3, <2>4, <2>6 DEF Agreed
  <2>7. CASE pc[k] = "serverHello"
    BY <1>0, <1>1, <2>5, <2>7 DEF PlaceInv
  <2>8. CASE pc[k] = "signature"
    <3>1. Shaking(k, c, 2) /\ Len(down[c]) >= 1
      BY <1>0, <2>8 DEF PlaceInv
    <3>2. Shaking(k, conn[k], 2)'
      BY <1>0, <2>5, <3>1
    <3>3. thash'[c][2] = thash[c][2] /\ EpochOf(c)' = EpochOf(c)
          /\ Len(down'[c]) >= 1
      BY <1>0, <2>3, <2>4, <3>1
    <3> QED
      BY <1>0, <1>1, <2>8, <3>2, <3>3 DEF PlaceInv, EpochOf
  <2>9. CASE pc[k] = "ticket"
    <3>1. Shaking(k, c, 3) /\ Agreed(k, c, 2)
      BY <1>0, <2>9 DEF PlaceInv
    <3>2. Shaking(k, conn[k], 3)' /\ Agreed(k, conn[k], 2)'
      BY <1>0, <2>5, <2>6, <3>1
    <3>3. SubSeq(thash'[c], 1, 3) = SubSeq(thash[c], 1, 3)
      BY <1>0, <2>3, <2>4, <3>1 DEF Agreed
    <3> QED
      BY <1>0, <1>1, <2>9, <3>2, <3>3 DEF PlaceInv
  <2>10. CASE pc[k] \in {"serverFinish", "clientFinish"}
    <3>1. PICK i \in {3, 4} : /\ Shaking(k, c, 4) /\ Agreed(k, c, i)
                              /\ pc[k] = "serverFinish" => i = 3
                              /\ pc[k] = "clientFinish" => i = 4
      BY <1>0, <2>10 DEF PlaceInv
    <3>2. Shaking(k, conn[k], 4)' /\ Agreed(k, conn[k], i)'
      BY <1>0, <2>5, <2>6, <3>1
    <3>3. Len(thash[c]) = 4
      BY <1>0, <2>4, <3>1 DEF Agreed
    <3>4. thash'[c] = thash[c] /\ PskOf(c)' = PskOf(c)
      BY <1>0, <2>3, <3>3
    <3>5. hasher[k] = thash[c] /\ Ticketed(k, c)
      BY <1>0, <2>10 DEF PlaceInv
    <3>6. hasher'[k] = thash'[c] /\ Ticketed(k, conn[k])'
      BY <1>0, <1>1, <3>4, <3>5 DEF Ticketed
    <3> QED
      BY <1>0, <1>1, <2>10, <3>1, <3>2, <3>6 DEF PlaceInv
  <2> QED
    BY <1>0, <1>3, <2>7, <2>8, <2>9, <2>10 DEF Places
<1> QED
  BY <1>0, <1>2, <1>3 DEF TypeOK

\* What a completed handshake left behind stays, too.
LEMMA SettledStable ==
  ASSUME TypeOK, TypeOK', \A c \in Conns : ConnInv(c),
         NEW k \in Clients, Undisturbed(k), status[k] = 1, session[k] # None,
         conn[k] \in 0..opened, Settled(k, session[k].ticket, conn[k])
  PROVE  Settled(k, session[k].ticket, conn[k])'
<1>0. PICK t, c : t = session[k].ticket /\ c = conn[k]
  OBVIOUS
<1>1. t \in Conns /\ Owns(k, t)
  BY <1>0 DEF TypeOK, Sessions, Owns
<1>2. /\ up'[t] = up[t] /\ downRead'[t] = downRead[t]
      /\ Grows(t) /\ Len(thash'[t]) <= 4
  BY <1>0, <1>1 DEF Undisturbed
<1>3. /\ session'[k] = session[k] /\ conn'[k] = conn[k] /\ cseq'[k] = cseq[k]
      /\ sseq'[k] = sseq[k]
  BY <1>0 DEF Undisturbed, SameClient
<1>4. Len(thash[t]) = 4
  BY <1>0 DEF Settled, FinishUp
<1>5. /\ Len(down'[t]) >= Len(down[t])
      /\ thash'[t] = thash[t]
      /\ PskOf(t)' = PskOf(t) /\ SecretOf(t)' = SecretOf(t)
      /\ TrafficKeyOf(t)' = TrafficKeyOf(t) /\ AppKeyOf(t)' = AppKeyOf(t)
      /\ ClientFinishOf(t)' = ClientFinishOf(t)
  <2>1. Len(thash[t]) >= 2 /\ Len(thash[t]) >= 3
    BY <1>4
  <2> QED
    BY <1>1, <1>2, <1>4, <2>1, DerivedStay
<1>6. FinishUp(t)'
  <2>1. Len(down[t]) >= 4 /\ Len(down'[t]) \in Nat /\ Len(down[t]) \in Nat
    <3>1. Len(down[t]) >= 4
      BY <1>0 DEF Settled, FinishUp
    <3> QED
      BY SMTT(20), <1>1, <3>1 DEF TypeOK
  <2>2. Len(down'[t]) >= 4
    BY <1>5, <2>1
  <2> QED
    BY <1>0, <1>2, <1>5, <2>2 DEF Settled, FinishUp
<1>7. c \notin {0, t} => NoopUp(c)'
  <2>1. SUFFICES ASSUME c \notin {0, t} PROVE NoopUp(c)'
    OBVIOUS
  <2>2. c \in Conns
    BY <1>0, <2>1, LongLinkAssumption DEF TypeOK, Conns
  <2>3. up'[c] = up[c]
    BY <1>0, <2>2 DEF Undisturbed, Owns
  <2> QED
    BY <1>0, <2>1, <2>3 DEF Settled, NoopUp
<1> QED
  BY <1>0, <1>2, <1>3, <1>5, <1>6, <1>7 DEF Settled

\* A client that takes no step keeps its invariant, whatever others do.
LEMMA ClientStable ==
  ASSUME TypeOK, TypeOK', Counts, torn \subseteq torn', \A c \in Conns : ConnInv(c),
         NEW k \in Clients, Undisturbed(k), ClientInv(k)
  PROVE  ClientInv(k)'
<1>0. PICK c : c = conn[k]
  OBVIOUS
<1>1. /\ pc'[k] = pc[k] /\ outcome'[k] = outcome[k]
      /\ conn'[k] = conn[k] /\ status'[k] = status[k] /\ session'[k] = session[k]
      /\ sseq'[k] = sseq[k]
  BY <1>0 DEF Undisturbed, SameClient
<1>2. c \in 0..opened /\ c \in 0..opened'
  BY <1>0 DEF ClientInv, Counts, TypeOK
<1>3. c # 0 => c \in Conns /\ up'[c] = up[c]
  <2>1. SUFFICES ASSUME c # 0 PROVE c \in Conns /\ up'[c] = up[c]
    OBVIOUS
  <2>2. c \in Conns
    BY <1>0, <1>2, <2>1, LongLinkAssumption DEF TypeOK, Conns
  <2> QED
    BY <1>0, <2>2 DEF Undisturbed, Owns
<1>4. PlaceInv(k, conn[k])'
  BY <1>0, <1>2, PlaceStable DEF ClientInv
<1>5. status'[k] = 1 => Settled(k, session[k].ticket, conn[k])'
  BY <1>0, <1>1, <1>2, SettledStable DEF ClientInv, HasAppKey
<1>6. status'[k] = 0 /\ c # 0 => HelloUp(c)' /\ up'[c] # <<>>
  BY <1>0, <1>1, <1>3, HelloUpStable DEF ClientInv
<1>7. c # 0 => Reused(c)' = Reused(c)
  BY <1>0, <1>3 DEF Reused, HellosOn
<1> QED
  BY <1>0, <1>1, <1>2, <1>3, <1>4, <1>5, <1>6, <1>7 DEF ClientInv, HasAppKey

-----------------------------------------------------------------------------
(* Which parts of the invariant a step has to restore.                      *)

\* The invariant holds in the initial states.
LEMMA InitIInv == Init => IInv
<1> SUFFICES ASSUME Init PROVE IInv
  OBVIOUS
<1>1. TypeOK
  <2>1. 0 \in 0..MaxConns /\ 0 \in 0..MaxHellos /\ 0 \in 0..MaxSeq + 1 /\ 1 \in Epochs
    BY LongLinkAssumption DEF Epochs
  <2>2. <<>> \in Transcripts /\ <<>> \in Seq(Records) /\ Len(<<>>) <= 4
    BY DEF Transcripts
  <2> QED
    BY <2>1, <2>2 DEF Init, TypeOK, Places, Stages
<1>2. ASSUME NEW c \in Conns PROVE ConnInv(c)
  <2>1. /\ up[c] = <<>> /\ down[c] = <<>> /\ thash[c] = <<>>
        /\ task[c] = "none" /\ upRead[c] = 0 /\ downRead[c] = 0
    BY DEF Init
  <2>2. Len(<<>>) = 0
    OBVIOUS
  <2>3. Unopened(c) /\ HashInv(c) /\ DownInv(c)
    BY <2>1, <2>2 DEF Unopened, HashInv, DownInv
  <2>4. UpInv(c)
    BY <2>1 DEF UpInv, NoopUp
  <2>5. TaskInv(c) /\ MapInv(c)
    BY <2>1, <2>2 DEF TaskInv, Progress, MapInv
  <2> QED
    BY <2>3, <2>4, <2>5 DEF ConnInv
<1>3. ASSUME NEW k \in Clients PROVE ClientInv(k)
  BY DEF Init, ClientInv, PlaceInv, HasAppKey
<1>4. Owned
  BY DEF Init, Owned, Owns, Conns
<1> QED
  BY <1>1, <1>2, <1>3, <1>4 DEF IInv

\* A step of client k on connection c restores what is said of those two, and
\* comes to own no other connection.
LEMMA ClientFrame ==
  ASSUME IInv, TypeOK', NEW k \in Clients, NEW c \in Conns,
         Counts, epoch' = epoch, torn \subseteq torn',
         \A j \in Clients \ {k} : SameClient(j) /\ ~ Owns(j, c),
         \A d \in Conns \ {c} : SameConn(d) /\ (d > opened => d > opened'),
         thash'[c] = thash[c], down'[c] = down[c],
         \A d \in Conns \ {c} : Owns(k, d)' => Owns(k, d),
         ConnInv(c)', ClientInv(k)'
  PROVE  IInv'
<1>1. ASSUME NEW d \in Conns PROVE ConnInv(d)'
  <2>1. CASE d = c
    BY <2>1
  <2>2. CASE d # c
    BY <2>2, ConnStable DEF IInv
  <2> QED
    BY <2>1, <2>2
<1>2. ASSUME NEW j \in Clients PROVE ClientInv(j)'
  <2>1. CASE j = k
    BY <2>1
  <2>2. CASE j # k
    <3>1. ASSUME NEW d \in Conns
          PROVE  /\ Grows(d) /\ Len(thash'[d]) <= 4
                 /\ Owns(j, d) => up'[d] = up[d] /\ downRead'[d] = downRead[d]
      <4>1. thash'[d] = thash[d] /\ down'[d] = down[d]
        BY DEF SameConn
      <4>2. Len(thash[d]) <= 4
        BY DEF IInv, ConnInv, HashInv
      <4>3. Owns(j, d) => d # c
        BY <2>2
      <4> QED
        BY <4>1, <4>2, <4>3 DEF Grows, SameConn
    <3>2. Undisturbed(j)
      BY <2>2, <3>1 DEF Undisturbed
    <3> QED
      BY <3>2, ClientStable DEF IInv
  <2> QED
    BY <2>1, <2>2
<1>3. Owned'
  <2>1. SUFFICES ASSUME NEW d \in Conns, NEW i \in Clients, NEW j \in Clients,
                        Owns(i, d)', Owns(j, d)', j # k
                 PROVE  i = j
    BY DEF Owned
  <2>2. Owns(j, d) /\ ~ Owns(j, c)
    BY <2>1 DEF Owns, SameClient
  <2>3. d # c
    BY <2>2
  <2>4. Owns(i, d)
    <3>1. CASE i = k
      BY <2>1, <2>3, <3>1
    <3>2. CASE i # k
      BY <2>1, <3>2 DEF Owns, SameClient
    <3> QED
      BY <3>1, <3>2
  <2> QED
    BY <2>2, <2>4 DEF IInv, Owned
<1> QED
  BY <1>1, <1>2, <1>3 DEF IInv

\* A step of client k that leaves every connection as it was restores what is
\* said of that client.
LEMMA LocalFrame ==
  ASSUME IInv, TypeOK', NEW k \in Clients,
         UNCHANGED <<opened, up, down, upRead, downRead, serverVars, taskVars>>,
         torn \subseteq torn', hellos <= hellos',
         \A j \in Clients \ {k} : SameClient(j),
         \A d \in Conns : Owns(k, d)' => Owns(k, d),
         ClientInv(k)'
  PROVE  IInv'
<1>1. Counts /\ epoch' = epoch
  BY DEF Counts, IInv, TypeOK, serverVars
<1>2. \A d \in Conns : SameConn(d) /\ (d > opened => d > opened')
  BY DEF SameConn, serverVars, taskVars
<1>3. ASSUME NEW d \in Conns PROVE ConnInv(d)'
  BY <1>1, <1>2, ConnStable DEF IInv
<1>4. ASSUME NEW j \in Clients PROVE ClientInv(j)'
  <2>1. CASE j = k
    BY <2>1
  <2>2. CASE j # k
    <3>1. \A d \in Conns : Len(thash[d]) <= 4
      BY DEF IInv, ConnInv, HashInv
    <3>2. Undisturbed(j)
      BY <2>2, <3>1 DEF Undisturbed, Grows, taskVars
    <3> QED
      BY <1>1, <3>2, ClientStable DEF IInv
  <2> QED
    BY <2>1, <2>2
<1>5. Owned'
  <2>1. \A d \in Conns, j \in Clients : Owns(j, d)' => Owns(j, d)
    BY DEF Owns, SameClient
  <2> QED
    BY <2>1 DEF IInv, Owned
<1> QED
  BY <1>3, <1>4, <1>5 DEF IInv

\* A step of the task of connection c restores what is said of that connection.
LEMMA ServerFrame ==
  ASSUME IInv, TypeOK', NEW c \in Conns,
         UNCHANGED <<callVars, clientVars, drawn, up, downRead, torn, epoch>>,
         \A d \in Conns \ {c} : SameConn(d),
         Grows(c), ConnInv(c)'
  PROVE  IInv'
<1>1. Counts
  BY DEF Counts, IInv, TypeOK, drawn
<1>2. ASSUME NEW d \in Conns PROVE ConnInv(d)'
  <2>1. CASE d = c
    BY <2>1
  <2>2. CASE d # c
    BY <1>1, <2>2, ConnStable DEF IInv, drawn
  <2> QED
    BY <2>1, <2>2
<1>3. ASSUME NEW j \in Clients PROVE ClientInv(j)'
  <2>1. SameClient(j)
    BY DEF SameClient, callVars, clientVars
  <2>2. ASSUME NEW d \in Conns
        PROVE  Grows(d) /\ Len(thash'[d]) <= 4
    <3>1. Len(thash'[d]) <= 4
      BY <1>2 DEF ConnInv, HashInv
    <3> QED
      BY <3>1 DEF Grows, SameConn
  <2>3. Undisturbed(j)
    BY <2>1, <2>2 DEF Undisturbed
  <2> QED
    BY <1>1, <2>3, ClientStable DEF IInv
<1>4. Owned'
  BY DEF IInv, Owned, Owns, clientVars
<1> QED
  BY <1>2, <1>3, <1>4 DEF IInv

-----------------------------------------------------------------------------
(* Steps of a client that no connection takes part in.                      *)

\* A call ends; its client keeps connection, session and numbers.
EndsCall(k, why) ==
  /\ Return(k, why)
  /\ UNCHANGED <<conn, status, session, hasher, cseq, sseq>>
  /\ DropLocals(k) \/ UNCHANGED <<secret, key>>

\* A call that ends keeps the invariant, if it ends in a protocol error only
\* on a connection left in the middle of a record.
LEMMA EndsCallOK ==
  ASSUME IInv, NEW k \in Clients,
         NEW why \in {"handshaken", "unready", "io", "protocol", "cancelled"},
         EndsCall(k, why),
         UNCHANGED <<drawn, up, down, upRead, downRead, broken, serverVars, taskVars>>,
         torn \subseteq torn', torn' \subseteq Conns,
         why = "protocol" => conn[k] \in torn
  PROVE  IInv'
<1>1. /\ pc' = [pc EXCEPT ![k] = "idle"]
      /\ outcome' = [outcome EXCEPT ![k] = why]
      /\ UNCHANGED <<conn, status, session, hasher, cseq, sseq>>
      /\ secret' \in {secret, [secret EXCEPT ![k] = None]}
      /\ key' \in {key, [key EXCEPT ![k] = None]}
  BY DEF EndsCall, Return, DropLocals
<1>2. TypeOK'
  <2>1. secret' \in [Clients -> ComKeys \cup {None}] /\ key' \in [Clients -> KeyPairs \cup {None}]
    BY <1>1 DEF IInv, TypeOK
  <2>2. pc' \in [Clients -> Places]
    BY <1>1 DEF IInv, TypeOK, Places
  <2> QED
    BY <1>1, <2>1, <2>2 DEF IInv, TypeOK, drawn, serverVars, taskVars
<1>3. pc'[k] = "idle" /\ outcome'[k] = why
  BY <1>1 DEF IInv, TypeOK
<1>4. PICK c, t : c = conn[k] /\ t = session[k].ticket
  OBVIOUS
<1>5. ClientInv(k)
  BY DEF IInv
<1>6. status[k] = 1 => Settled(k, t, c)'
  <2>1. status[k] = 1 => Settled(k, t, c)
    BY <1>4, <1>5 DEF ClientInv
  <2> QED
    BY <1>1, <2>1, SameHash DEF Settled, FinishUp, NoopUp, taskVars
<1>7. HelloUp(c)' = HelloUp(c) /\ Reused(c)' = Reused(c)
  BY DEF HelloUp, Reused, HellosOn, drawn
<1>8. ClientInv(k)'
  BY <1>1, <1>3, <1>4, <1>5, <1>6, <1>7 DEF ClientInv, PlaceInv, HasAppKey, drawn
<1>9. \A j \in Clients \ {k} : SameClient(j)
  BY <1>1 DEF IInv, TypeOK, SameClient
<1>10. \A d \in Conns : Owns(k, d)' => Owns(k, d)
  BY <1>1 DEF Owns
<1>11. hellos <= hellos'
  BY DEF IInv, TypeOK, drawn
<1> QED
  BY <1>2, <1>8, <1>9, <1>10, <1>11, LocalFrame DEF drawn

\* A call that returns at once, or that its reads, its write or its caller end.
LEMMA ShortCallsOK ==
  ASSUME IInv, NEW k \in Clients,
         \/ HandshakeAgain(k) \/ ConnectFails(k) \/ NoopUnready(k) \/ NoopFails(k)
         \/ ClientFinishFails(k) \/ ReadFails(k) \/ ReadGarbage(k) \/ Cancel(k)
  PROVE  IInv'
<1>1. torn \subseteq Conns /\ conn[k] \in 0..MaxConns
  BY DEF IInv, TypeOK
<1>2. CASE \/ HandshakeAgain(k) \/ ConnectFails(k) \/ NoopUnready(k) \/ NoopFails(k)
  <2>1. PICK why \in {"handshaken", "unready", "io"} :
          Return(k, why) /\ UNCHANGED <<clientVars, drawn, streams, serverVars, taskVars>>
    BY <1>2 DEF HandshakeAgain, ConnectFails, NoopUnready, NoopFails
  <2>2. EndsCall(k, why)
    BY <2>1 DEF EndsCall, clientVars
  <2> QED
    BY <1>1, <2>1, <2>2, EndsCallOK DEF streams
<1>3. CASE ClientFinishFails(k) \/ ReadFails(k) \/ ReadGarbage(k)
  <2>1. PICK why \in {"io", "protocol"} :
          /\ Fail(k, why) /\ UNCHANGED <<drawn, streams, serverVars, taskVars>>
          /\ why = "protocol" => conn[k] \in torn
    BY <1>3 DEF ClientFinishFails, ReadFails, ReadGarbage
  <2>2. EndsCall(k, why)
    BY <2>1 DEF EndsCall, Fail
  <2> QED
    BY <1>1, <2>1, <2>2, EndsCallOK DEF streams
<1>4. CASE Cancel(k)
  <2>1. EndsCall(k, "cancelled")
    BY <1>4 DEF EndsCall, Fail, Cancel
  <2>2. torn \subseteq torn' /\ torn' \subseteq Conns
    <3>1. DownHasNext(conn[k]) => conn[k] \in Conns
      <4>1. pc[k] \in Reading => conn[k] # 0
        <5>1. PlaceInv(k, conn[k])
          BY DEF IInv, ClientInv
        <5>2. PICK c : c = conn[k]
          OBVIOUS
        <5>3. \A i : Shaking(k, c, i) => c # 0
          BY DEF Shaking
        <5> QED
          BY <5>1, <5>2, <5>3 DEF PlaceInv, Reading
      <4> QED
        BY <1>1, <1>4, <4>1, LongLinkAssumption DEF Cancel, Conns
    <3> QED
      BY <1>1, <1>4, <3>1 DEF Cancel
  <2> QED
    BY <1>4, <2>1, <2>2, EndsCallOK DEF Cancel
<1> QED
  BY <1>2, <1>3, <1>4

\* A client that counts a noop it has no connection for keeps the invariant.
LEMMA NoopUnconnectedOK ==
  ASSUME IInv, NEW k \in Clients, NoopUnconnected(k)
  PROVE  IInv'
<1>1. /\ pc' = [pc EXCEPT ![k] = "idle"]
      /\ outcome' = [outcome EXCEPT ![k] = "unready"]
      /\ cseq' = [cseq EXCEPT ![k] = @ + 1]
      /\ UNCHANGED <<conn, status, session, hasher, sseq, secret, key, drawn,
                     streams, serverVars, taskVars>>
      /\ conn[k] = 0 /\ cseq[k] < MaxSeq
  BY DEF NoopUnconnected, Return
<1>2. TypeOK'
  <2>1. pc' \in [Clients -> Places]
    BY <1>1 DEF IInv, TypeOK, Places
  <2>2. cseq' \in [Clients -> 0..MaxSeq + 1]
    BY <1>1, LongLinkAssumption DEF IInv, TypeOK
  <2> QED
    BY <1>1, <2>1, <2>2 DEF IInv, TypeOK, drawn, streams, serverVars, taskVars
<1>3. pc'[k] = "idle" /\ outcome'[k] = "unready"
  BY <1>1 DEF IInv, TypeOK
<1>4. PICK t : t = session[k].ticket
  OBVIOUS
<1>5. ClientInv(k)
  BY DEF IInv
<1>6. status[k] = 1 => Settled(k, t, 0)'
  <2>1. SUFFICES ASSUME status[k] = 1 PROVE Settled(k, t, 0)'
    OBVIOUS
  <2>2. Settled(k, t, 0)
    BY <1>1, <1>4, <1>5, <2>1 DEF ClientInv
  <2>3. t # 0
    BY <1>4, <1>5, <2>1, LongLinkAssumption
       DEF ClientInv, HasAppKey, IInv, TypeOK, Sessions, Conns
  <2> QED
    BY <1>1, <2>2, <2>3, SameHash DEF Settled, FinishUp, NoopUp, streams, taskVars
<1>7. ClientInv(k)'
  BY <1>1, <1>3, <1>4, <1>5, <1>6 DEF ClientInv, PlaceInv, HasAppKey, drawn
<1>8. \A j \in Clients \ {k} : SameClient(j)
  BY <1>1 DEF IInv, TypeOK, SameClient
<1>9. \A d \in Conns : Owns(k, d)' => Owns(k, d)
  BY <1>1 DEF Owns
<1>10. hellos <= hellos'
  BY <1>1 DEF IInv, TypeOK, drawn
<1> QED
  BY <1>1, <1>2, <1>7, <1>8, <1>9, <1>10, LocalFrame DEF drawn, streams

\* A client that lets go of its connection keeps the invariant.
LEMMA CloseOK ==
  ASSUME IInv, NEW k \in Clients, Close(k)
  PROVE  IInv'
<1>1. /\ conn' = [conn EXCEPT ![k] = 0]
      /\ UNCHANGED <<callVars, status, session, hasher, cseq, sseq, secret, key,
                     drawn, streams, serverVars, taskVars>>
      /\ pc[k] = "idle"
  BY DEF Close
<1>2. TypeOK'
  <2>1. conn' \in [Clients -> 0..MaxConns]
    BY <1>1, LongLinkAssumption DEF IInv, TypeOK
  <2> QED
    BY <1>1, <2>1 DEF IInv, TypeOK, callVars, drawn, streams, serverVars, taskVars
<1>3. conn'[k] = 0
  BY <1>1 DEF IInv, TypeOK
<1>4. PICK t, c : t = session[k].ticket /\ c = conn[k]
  OBVIOUS
<1>5. ClientInv(k)
  BY DEF IInv
<1>6. status[k] = 1 => Settled(k, t, 0)'
  <2>1. SUFFICES ASSUME status[k] = 1 PROVE Settled(k, t, 0)'
    OBVIOUS
  <2>2. Settled(k, t, c)
    BY <1>4, <1>5, <2>1 DEF ClientInv
  <2>3. t # 0
    BY <1>4, <1>5, <2>1, LongLinkAssumption
       DEF ClientInv, HasAppKey, IInv, TypeOK, Sessions, Conns
  <2> QED
    BY <1>1, <2>2, <2>3, SameHash DEF Settled, FinishUp, streams, taskVars
<1>7. ClientInv(k)'
  <2>1. 0 \in 0..opened'
    BY <1>1 DEF IInv, TypeOK, drawn
  <2> QED
    BY <1>1, <1>3, <1>4, <1>5, <1>6, <2>1
       DEF ClientInv, PlaceInv, HasAppKey, callVars
<1>8. \A j \in Clients \ {k} : SameClient(j)
  BY <1>1 DEF IInv, TypeOK, SameClient, callVars
<1>9. \A d \in Conns : Owns(k, d)' => Owns(k, d)
  BY <1>1, <1>3, LongLinkAssumption DEF Owns, Conns
<1>10. hellos <= hellos'
  BY <1>1 DEF IInv, TypeOK, drawn
<1> QED
  BY <1>1, <1>2, <1>7, <1>8, <1>9, <1>10, LocalFrame DEF drawn, streams

\* A client process that restarts keeps the invariant.
LEMMA ClientRestartOK ==
  ASSUME IInv, NEW k \in Clients, ClientRestart(k)
  PROVE  IInv'
<1>1. /\ pc' = [pc EXCEPT ![k] = "idle"]
      /\ outcome' = [outcome EXCEPT ![k] = "none"]
      /\ conn' = [conn EXCEPT ![k] = 0]
      /\ status' = [status EXCEPT ![k] = 0]
      /\ session' = [session EXCEPT ![k] = None]
      /\ hasher' = [hasher EXCEPT ![k] = <<>>]
      /\ cseq' = [cseq EXCEPT ![k] = 0]
      /\ sseq' = [sseq EXCEPT ![k] = 0]
      /\ secret' = [secret EXCEPT ![k] = None]
      /\ key' = [key EXCEPT ![k] = None]
      /\ UNCHANGED <<drawn, streams, serverVars, taskVars>>
  BY DEF ClientRestart, Return, DropLocals
<1>2. TypeOK'
  <2>1. 0 \in 0..MaxConns /\ 0 \in 0..MaxSeq + 1
    BY LongLinkAssumption
  <2>2. <<>> \in Transcripts /\ Len(<<>>) <= 4
    BY DEF Transcripts
  <2>3. /\ pc' \in [Clients -> Places]
        /\ conn' \in [Clients -> 0..MaxConns]
        /\ cseq' \in [Clients -> 0..MaxSeq + 1]
        /\ hasher' \in [Clients -> Transcripts]
        /\ \A j \in Clients : Len(hasher'[j]) <= 4
    BY <1>1, <2>1, <2>2 DEF IInv, TypeOK, Places
  <2> QED
    BY <1>1, <2>3 DEF IInv, TypeOK, drawn, streams, serverVars, taskVars
<1>3. /\ pc'[k] = "idle" /\ outcome'[k] = "none" /\ conn'[k] = 0 /\ status'[k] = 0
      /\ session'[k] = None
  BY <1>1 DEF IInv, TypeOK
<1>4. ClientInv(k)'
  <2>1. 0 \in 0..opened'
    BY <1>1 DEF IInv, TypeOK, drawn
  <2> QED
    BY <1>3, <2>1 DEF ClientInv, PlaceInv, HasAppKey
<1>5. \A j \in Clients \ {k} : SameClient(j)
  BY <1>1 DEF IInv, TypeOK, SameClient
<1>6. \A d \in Conns : Owns(k, d)' => Owns(k, d)
  BY <1>3, LongLinkAssumption DEF Owns, Conns
<1>7. hellos <= hellos'
  BY <1>1 DEF IInv, TypeOK, drawn
<1> QED
  BY <1>1, <1>2, <1>4, <1>5, <1>6, <1>7, LocalFrame DEF drawn, streams

\* A hello that cannot be written is drawn and counted all the same: the
\* invariant holds on.
LEMMA HelloFailsOK ==
  ASSUME IInv, NEW k \in Clients, HelloFails(k)
  PROVE  IInv'
<1>0. conn[k] # 0 /\ pc[k] = "idle" /\ status[k] = 0 /\ hellos < MaxHellos
      /\ hellos' = hellos + 1
  BY DEF HelloFails, DrawHello
<1>1. hellos \in Nat /\ hellos' \in 0..MaxHellos /\ hellos <= hellos'
  BY <1>0, LongLinkAssumption DEF IInv, TypeOK
<1>2. PICK h : h = <<NextHello(k)>>
  OBVIOUS
<1>3. h \in Transcripts /\ Len(h) <= 4
  <2>1. NextHello(k) \in Messages
    BY <1>1, MessageTypes DEF NextHello
  <2> QED
    BY <1>2, <2>1 DEF Transcripts
<1>4. /\ pc' = [pc EXCEPT ![k] = "idle"]
      /\ outcome' = [outcome EXCEPT ![k] = "io"]
      /\ hasher' = [hasher EXCEPT ![k] = h]
      /\ cseq' = [cseq EXCEPT ![k] = 0]
      /\ sseq' = [sseq EXCEPT ![k] = 0]
      /\ UNCHANGED <<conn, opened, task, status, session, secret, key, up, down,
                     upRead, downRead, broken, torn, serverVars, thash>>
  BY <1>0, <1>2 DEF HelloFails, DrawHello, Connect, Link, Return, IInv, TypeOK
<1>5. TypeOK'
  <2>1. /\ pc' \in [Clients -> Places]
        /\ cseq' \in [Clients -> 0..MaxSeq + 1]
        /\ hasher' \in [Clients -> Transcripts]
        /\ \A j \in Clients : Len(hasher'[j]) <= 4
    BY <1>3, <1>4, LongLinkAssumption DEF IInv, TypeOK, Places
  <2> QED
    BY <1>1, <1>4, <2>1 DEF IInv, TypeOK, serverVars
<1>6. pc'[k] = "idle" /\ outcome'[k] = "io"
  BY <1>4 DEF IInv, TypeOK
<1>7. PICK c : c = conn[k]
  OBVIOUS
<1>8. ClientInv(k)'
  <2>1. c \in 0..opened /\ ~ HasAppKey(k) /\ HelloUp(c) /\ up[c] # <<>>
    BY <1>0, <1>7 DEF IInv, ClientInv
  <2>2. HelloUp(c)'
    <3>1. c \in Conns
      BY <1>0, <1>7, <2>1, LongLinkAssumption DEF IInv, TypeOK, Conns
    <3>2. Counts
      BY <1>1, <1>4 DEF Counts, IInv, TypeOK
    <3> QED
      BY <1>4, <1>5, <2>1, <3>1, <3>2, HelloUpStable DEF IInv
  <2> QED
    <3>1. /\ conn'[k] = c /\ status'[k] = 0 /\ up'[c] # <<>> /\ opened' = opened
          /\ ~ HasAppKey(k)'
      BY <1>0, <1>4, <1>7, <2>1 DEF HasAppKey
    <3> QED
      BY <1>6, <2>1, <2>2, <3>1 DEF ClientInv, PlaceInv
<1>9. \A j \in Clients \ {k} : SameClient(j)
  BY <1>4 DEF IInv, TypeOK, SameClient
<1>10. \A d \in Conns : Owns(k, d)' => Owns(k, d)
  BY <1>4 DEF Owns
<1> QED
  BY <1>1, <1>4, <1>5, <1>8, <1>9, <1>10, LocalFrame DEF serverVars, taskVars

-----------------------------------------------------------------------------
(* Steps of a client that read a record.                                    *)

\* The record a client reads next, by its place on the connection.
LEMMA NextRecord ==
  ASSUME TypeOK, NEW c \in Conns, ConnInv(c), DownHasNext(c),
         NEW i, i = downRead[c] + 1
  PROVE  /\ i \in 1..5 /\ i <= Len(down[c])
         /\ Len(thash[c]) >= 2
         /\ i = 1 => DownNext(c).key = None /\ DownNext(c).body = thash[c][2]
         /\ i > 1 => DownNext(c).key # None /\ DownNext(c).seq = i - 1
         /\ i \in 2..4 => DownNext(c).key = TrafficKeyOf(c).server
         /\ i = 2 => Len(thash[c]) >= 3 /\ DownNext(c).body = thash[c][3]
         /\ i >= 3 => Len(thash[c]) = 4
         /\ i = 3 => DownNext(c).body = thash[c][4]
         /\ i = 4 => DownNext(c).body = ServerFinishOf(c)
         /\ i = 5 => /\ DownNext(c).key = AppKeyOf(c).server
                     /\ DownNext(c).body = NoopResponse
<1>1. /\ downRead[c] \in 0..5 /\ Len(down[c]) \in Nat /\ Len(thash[c]) \in Nat
      /\ DownInv(c)
  <2>1. Len(thash[c]) \in Nat
    BY HashTypes
  <2> QED
    BY <2>1 DEF TypeOK, ConnInv
<1>0. DownNext(c) = down[c][i]
  BY DEF DownNext
<1>2. i \in 1..5 /\ i <= Len(down[c])
  <2>1. i \in 1..6
    BY <1>1
  <2>2. i <= Len(down[c])
    BY <1>1, <2>1 DEF DownHasNext
  <2>3. Len(down[c]) <= 5
    BY <1>1 DEF DownInv
  <2> QED
    BY <1>1, <2>1, <2>2, <2>3
<1>3. Len(thash[c]) >= 2
  <2>1. Len(down[c]) >= 1
    BY <1>1, <1>2
  <2> QED
    BY <1>1, <2>1 DEF DownInv
<1>4. TrafficKeyOf(c).server \in Halves /\ TrafficKeyOf(c).server # None
  BY <1>3, DerivedTypes, NoneAssumption
<1>5. CASE i = 1
  <2>1. Len(down[c]) >= 1 /\ DownNext(c) = down[c][1]
    BY <1>0, <1>1, <1>2, <1>5
  <2>2. DownNext(c).key = None /\ DownNext(c).body = thash[c][2]
    BY <1>1, <2>1 DEF DownInv, Clear
  <2> QED
    BY <1>2, <1>3, <1>5, <2>2
<1>6. CASE i = 2
  <2>1. Len(down[c]) >= 2 /\ DownNext(c) = down[c][2]
    BY <1>0, <1>1, <1>2, <1>6
  <2>2. /\ DownNext(c) = Seal(thash[c][3], TrafficKeyOf(c).server, 1)
        /\ Len(thash[c]) >= 3
    BY <1>1, <2>1 DEF DownInv
  <2> QED
    BY <1>2, <1>3, <1>4, <1>6, <2>2 DEF Seal
<1>7. CASE i = 3
  <2>1. Len(down[c]) >= 3 /\ DownNext(c) = down[c][3]
    BY <1>0, <1>1, <1>2, <1>7
  <2>2. Len(thash[c]) = 4 /\ DownNext(c).key = TrafficKeyOf(c).server
        /\ DownNext(c).seq = 2
        /\ DownNext(c).body = thash[c][4]
    BY <1>1, <2>1 DEF DownInv, Seal
  <2> QED
    BY <1>2, <1>3, <1>4, <1>7, <2>2
<1>8. CASE i = 4
  <2>1. Len(down[c]) >= 4 /\ DownNext(c) = down[c][4]
    BY <1>0, <1>1, <1>2, <1>8
  <2>2. Len(down[c]) >= 3
    BY <1>1, <2>1
  <2>3. Len(thash[c]) = 4 /\ DownNext(c).key = TrafficKeyOf(c).server
        /\ DownNext(c).seq = 3
        /\ DownNext(c).body = ServerFinishOf(c)
    BY <1>1, <2>1, <2>2 DEF DownInv, Seal
  <2> QED
    BY <1>2, <1>3, <1>4, <1>8, <2>3
<1>9. CASE i = 5
  <2>1. Len(down[c]) >= 5 /\ DownNext(c) = down[c][5]
    BY <1>0, <1>1, <1>2, <1>9
  <2>2. Len(down[c]) >= 3 /\ Len(down[c]) = 5
    <3>1. Len(down[c]) <= 5 /\ Len(down[c]) >= 5
      BY <1>1, <2>1 DEF DownInv
    <3>2. ASSUME NEW n \in Nat, n <= 5, n >= 5 PROVE n >= 3 /\ n = 5
      BY <3>2
    <3> QED
      BY <1>1, <3>1, <3>2
  <2>3. Len(thash[c]) = 4 /\ DownNext(c) = Seal(NoopResponse, AppKeyOf(c).server, 4)
    BY <1>1, <2>1, <2>2 DEF DownInv
  <2>4. AppKeyOf(c).server # None
    BY <2>3, DerivedTypes, NoneAssumption
  <2> QED
    BY <1>2, <1>3, <1>9, <2>3, <2>4 DEF Seal
<1> QED
  BY <1>2, <1>5, <1>6, <1>7, <1>8, <1>9

\* What a read does to the connection, and to those of others: nothing but
\* count the record.
LEMMA ReadFacts ==
  ASSUME IInv, NEW k \in Clients, pc[k] \in Reading, TakeRecord(k),
         NEW c, c = conn[k]
  PROVE  /\ c \in Conns /\ c \in 1..opened /\ DownHasNext(c)
         /\ downRead' = [downRead EXCEPT ![c] = downRead[c] + 1]
         /\ downRead'[c] = downRead[c] + 1
         /\ downRead' \in [Conns -> 0..5]
         /\ UNCHANGED <<drawn, up, down, upRead, broken, torn, serverVars, taskVars>>
         /\ ConnInv(c) /\ ConnInv(c)'
         /\ ClientInv(k)
         /\ PlaceInv(k, c)
         /\ Len(thash[c]) >= 2
<1>1. ClientInv(k) /\ PlaceInv(k, c)
  BY DEF IInv, ClientInv
<1>2. c \in Conns /\ c \in 1..opened
  <2>1. \A i : Shaking(k, c, i) => c # 0
    BY DEF Shaking
  <2>2. c # 0
    BY <1>1, <2>1 DEF PlaceInv, Reading
  <2> QED
    BY <1>1, <2>2, LongLinkAssumption DEF ClientInv, IInv, TypeOK, Conns
<1>3. /\ DownHasNext(c)
      /\ downRead' = [downRead EXCEPT ![c] = downRead[c] + 1]
      /\ UNCHANGED <<drawn, up, down, upRead, broken, torn, serverVars, taskVars>>
  BY DEF TakeRecord, ReadDown
<1>4. ConnInv(c)
  BY <1>2 DEF IInv
<1>5. /\ downRead'[c] = downRead[c] + 1 /\ downRead'[c] \in 0..5
      /\ downRead'[c] <= Len(down[c]) /\ Len(thash[c]) >= 2
  <2>1. downRead'[c] = downRead[c] + 1
    BY <1>2, <1>3 DEF IInv, TypeOK
  <2>2. PICK i : i = downRead[c] + 1
    OBVIOUS
  <2>3. i \in 1..5 /\ i <= Len(down[c]) /\ Len(thash[c]) >= 2
    BY <1>2, <1>3, <1>4, <2>2, NextRecord DEF IInv
  <2> QED
    BY <2>1, <2>2, <2>3
<1>6. downRead' \in [Conns -> 0..5]
  BY <1>3, <1>5 DEF IInv, TypeOK
<1>7. ConnInv(c)'
  <2>1. /\ SecretOf(c)' = SecretOf(c) /\ TrafficKeyOf(c)' = TrafficKeyOf(c)
        /\ PskOf(c)' = PskOf(c) /\ AppKeyOf(c)' = AppKeyOf(c)
        /\ ServerFinishOf(c)' = ServerFinishOf(c)
        /\ ClientFinishOf(c)' = ClientFinishOf(c)
        /\ EpochOf(c)' = EpochOf(c) /\ Running(c)' = Running(c)
        /\ HellosOn(c)' = HellosOn(c)
    BY <1>3, SameHash DEF Running, HellosOn, taskVars
  <2>2. Reused(c)' = Reused(c) /\ FinishUp(c)' = FinishUp(c)
    BY <1>3, <2>1 DEF Reused, FinishUp, taskVars
  <2>3. ~ (c > opened)'
    BY <1>2, <1>3 DEF drawn, IInv, TypeOK
  <2>4. HashInv(c)'
    BY <1>3, <1>4, <2>1 DEF ConnInv, HashInv, serverVars, taskVars
  <2>5. DownInv(c)'
    BY <1>3, <1>4, <1>5, <2>1 DEF ConnInv, DownInv, taskVars
  <2>6. UpInv(c)'
    BY <1>3, <1>4, <2>2 DEF ConnInv, UpInv, HelloUp, NoopUp, drawn
  <2>7. TaskInv(c)'
    BY <1>3, <1>4, <2>1, <2>2 DEF ConnInv, TaskInv, Progress, taskVars
  <2>8. MapInv(c)'
    BY <1>3, <1>4, <2>1 DEF ConnInv, MapInv, serverVars, taskVars
  <2> QED
    BY <2>3, <2>4, <2>5, <2>6, <2>7, <2>8 DEF ConnInv
<1> QED
  BY <1>1, <1>2, <1>3, <1>4, <1>5, <1>6, <1>7

\* A read restores what is said of its client.
LEMMA ReadFrame ==
  ASSUME IInv, TypeOK', NEW k \in Clients, pc[k] \in Reading, TakeRecord(k),
         \A j \in Clients \ {k} : SameClient(j),
         conn' = conn, status'[k] = status[k],
         status[k] = 1 => session'[k] = session[k],
         ClientInv(k)'
  PROVE  IInv'
<1>1. PICK c : c = conn[k]
  OBVIOUS
<1>2. /\ c \in Conns
      /\ downRead' = [downRead EXCEPT ![c] = downRead[c] + 1]
      /\ UNCHANGED <<drawn, up, down, upRead, broken, torn, serverVars, taskVars>>
      /\ ConnInv(c)'
  BY <1>1, ReadFacts
<1>3. Counts /\ epoch' = epoch
  BY <1>2 DEF Counts, IInv, TypeOK, drawn, serverVars
<1>4. \A j \in Clients \ {k} : ~ Owns(j, c)
  BY <1>1, <1>2 DEF IInv, Owned, Owns
<1>5. \A d \in Conns \ {c} : SameConn(d) /\ (d > opened => d > opened')
  BY <1>2 DEF SameConn, drawn, serverVars, taskVars, IInv, TypeOK
<1>6. \A d \in Conns : Owns(k, d)' => Owns(k, d)
  BY DEF Owns
<1> QED
  BY <1>2, <1>3, <1>4, <1>5, <1>6, ClientFrame DEF taskVars

\* A handshake that gives up on a record keeps the invariant, if it finds fault
\* with the protocol only on a connection that carries a second hello.
LEMMA ReadRefusedOK ==
  ASSUME IInv, NEW k \in Clients, pc[k] \in Reading \ {"noop"}, TakeRecord(k),
         NEW why \in {"protocol", "unverified"}, Fail(k, why),
         why = "protocol" => Reused(conn[k])
  PROVE  IInv'
<1>1. PICK c : c = conn[k]
  OBVIOUS
<1>2. /\ c \in Conns /\ c \in 1..opened
      /\ downRead' \in [Conns -> 0..5]
      /\ UNCHANGED <<drawn, up, down, upRead, broken, torn, serverVars, taskVars>>
      /\ ClientInv(k) /\ PlaceInv(k, c)
  BY <1>1, ReadFacts
<1>3. /\ pc' = [pc EXCEPT ![k] = "idle"]
      /\ outcome' = [outcome EXCEPT ![k] = why]
      /\ UNCHANGED <<conn, status, session, hasher, cseq, sseq>>
      /\ secret' = [secret EXCEPT ![k] = None]
      /\ key' = [key EXCEPT ![k] = None]
  BY DEF Fail, Return, DropLocals
<1>4. TypeOK'
  <2>1. pc' \in [Clients -> Places]
    BY <1>3 DEF IInv, TypeOK, Places
  <2> QED
    BY <1>2, <1>3, <2>1 DEF IInv, TypeOK, drawn, serverVars, taskVars
<1>5. pc'[k] = "idle" /\ outcome'[k] = why
  BY <1>3 DEF IInv, TypeOK
<1>6. status[k] = 0 /\ HelloUp(c) /\ up[c] # <<>>
  <2>1. \A i : Shaking(k, c, i) => status[k] = 0 /\ HelloUp(c) /\ up[c] # <<>>
    BY DEF Shaking
  <2> QED
    BY <1>2, <2>1 DEF PlaceInv, Reading
<1>7. HelloUp(c)' /\ Reused(c)' = Reused(c)
  BY <1>2, <1>6 DEF HelloUp, Reused, HellosOn, drawn
<1>8. ClientInv(k)'
  <2>1. /\ conn'[k] = c /\ status'[k] = 0 /\ up'[c] # <<>> /\ opened' = opened
        /\ ~ HasAppKey(k)' /\ c \in 0..opened
    BY <1>1, <1>2, <1>3, <1>6 DEF ClientInv, HasAppKey, drawn
  <2> QED
    BY <1>1, <1>5, <1>7, <2>1 DEF ClientInv, PlaceInv
<1>9. \A j \in Clients \ {k} : SameClient(j)
  BY <1>3 DEF IInv, TypeOK, SameClient
<1> QED
  BY <1>3, <1>4, <1>8, <1>9, ReadFrame

\* On a connection taken up twice there are two hellos.
LEMMA TwoHellos ==
  ASSUME TypeOK, NEW c \in Conns, HelloUp(c), up[c] # <<>>, Len(up[c]) # 1
  PROVE  Reused(c)
<1>1. up[c] \in Seq(Records)
  BY DEF TypeOK
<1>2. Len(up[c]) \in Nat /\ Len(up[c]) # 0 /\ DOMAIN up[c] = 1..Len(up[c])
  BY <1>1
<1>3. 1 \in DOMAIN up[c] /\ 2 \in DOMAIN up[c]
  <2>1. ASSUME NEW n \in Nat, n # 0, n # 1
        PROVE  1 \in 1..n /\ 2 \in 1..n
    BY <2>1
  <2> QED
    BY <1>2, <2>1
<1> QED
  BY <1>3 DEF HelloUp, Reused, HellosOn

\* A handshake that has read what it waited for is still the last one on its
\* connection.
LEMMA ShakingGoesOn ==
  ASSUME IInv, NEW k \in Clients, pc[k] \in Reading, TakeRecord(k),
         NEW c, c = conn[k], NEW n \in 1..4, Shaking(k, c, n),
         status'[k] = status[k], cseq'[k] = cseq[k], sseq'[k] = sseq[k] + 1,
         \/ hasher'[k] = hasher[k]
         \/ \E m \in Messages : hasher'[k] = Append(hasher[k], m),
         NEW l, Len(hasher'[k]) = l
  PROVE  Shaking(k, c, l)'
<1>1. /\ c \in 1..opened /\ c \in Conns
      /\ downRead'[c] = downRead[c] + 1
      /\ UNCHANGED <<opened, hellos, up>>
  BY ReadFacts DEF drawn
<1>2. hasher'[k][1] = hasher[k][1]
  <2>1. hasher[k] \in Seq(Messages) /\ Len(hasher[k]) = n
    BY DEF IInv, TypeOK, Transcripts, Shaking
  <2>2. ASSUME NEW m \in Messages, hasher'[k] = Append(hasher[k], m)
        PROVE  hasher'[k][1] = hasher[k][1]
    BY <2>1, <2>2, Appended
  <2> QED
    BY <2>2
<1>3. HelloUp(c)'
  BY <1>1 DEF Shaking, HelloUp
<1> QED
  BY <1>1, <1>2, <1>3 DEF Shaking

\* The first record a handshake reads is a ServerHello, unless another
\* handshake has read that before.
LEMMA ReadServerHelloOK ==
  ASSUME IInv, NEW k \in Clients, ReadServerHello(k)
  PROVE  IInv'
<1>1. PICK c, i : c = conn[k] /\ i = downRead[c] + 1
  OBVIOUS
<1>2. pc[k] = "serverHello" /\ pc[k] \in Reading \ {"noop"} /\ TakeRecord(k)
  BY DEF ReadServerHello, Reading
<1>3. /\ c \in Conns /\ DownHasNext(c) /\ downRead' \in [Conns -> 0..5]
      /\ UNCHANGED <<drawn, up, down, upRead, broken, torn, serverVars, taskVars>>
      /\ ConnInv(c) /\ ClientInv(k) /\ PlaceInv(k, c)
  BY <1>1, <1>2, ReadFacts
<1>4. Shaking(k, c, 1) /\ sseq[k] = 0
  BY <1>2, <1>3 DEF PlaceInv
<1>5. /\ i \in 1..5 /\ i <= Len(down[c]) /\ Len(thash[c]) >= 2
      /\ i = 1 => DownNext(c).key = None /\ DownNext(c).body = thash[c][2]
      /\ i > 1 => DownNext(c).key # None
  BY <1>1, <1>3, NextRecord DEF IInv
<1>6. CASE DownNext(c).key # None
  <2>1. Fail(k, "protocol")
    BY <1>1, <1>6 DEF ReadServerHello
  <2>2. Len(up[c]) # 1
    BY <1>1, <1>4, <1>5, <1>6 DEF Shaking
  <2>3. Reused(c)
    BY <1>3, <1>4, <2>2, TwoHellos DEF IInv, Shaking
  <2> QED
    BY <1>1, <1>2, <2>1, <2>3, ReadRefusedOK
<1>7. CASE DownNext(c).key = None
  <2>1. i = 1 /\ downRead[c] = 0 /\ DownNext(c).body = thash[c][2]
    <3>1. i = 1
      BY <1>5, <1>7
    <3>2. downRead[c] \in 0..5
      BY <1>3 DEF IInv, TypeOK
    <3> QED
      BY <1>1, <1>5, <3>1, <3>2
  <2>2. PICK h, x : /\ h = Append(hasher[k], thash[c][2])
                    /\ x = Ecdh(Head(hasher[k]).fresh, thash[c][2].ref)
    OBVIOUS
  <2>3. /\ pc' = [pc EXCEPT ![k] = "signature"] /\ outcome' = outcome
        /\ hasher' = [hasher EXCEPT ![k] = h]
        /\ sseq' = [sseq EXCEPT ![k] = 1]
        /\ secret' = [secret EXCEPT ![k] = x]
        /\ key' = [key EXCEPT ![k] = HandshakeKey(x, h)]
        /\ UNCHANGED <<conn, status, session, cseq>>
    BY <1>1, <1>4, <1>7, <2>1, <2>2 DEF ReadServerHello, NextBody, Goto, HandshakeKey
  <2>4. /\ hasher[k] \in Seq(Messages) /\ Len(hasher[k]) = 1
        /\ thash[c][2] \in Messages /\ thash[c][2].ref \in Nat
    <3>1. hasher[k] \in Seq(Messages) /\ Len(hasher[k]) = 1
      BY <1>4 DEF IInv, TypeOK, Transcripts, Shaking
    <3> QED
      BY <1>3, <1>5, <3>1, HashTypes DEF IInv
  <2>5. /\ h \in Transcripts /\ Len(h) = 2 /\ h[1] = hasher[k][1] /\ h[2] = thash[c][2]
        /\ x = Ecdh(hasher[k][1].fresh, thash[c][2].ref)
        /\ hasher[k][1] \in Messages
    BY <2>2, <2>4, Appended DEF Transcripts
  <2>6. x \in ComKeys /\ HandshakeKey(x, h) \in KeyPairs
    <3>1. x \in ComKeys
      BY <2>4, <2>5 DEF Ecdh, ComKeys, Messages
    <3> QED
      BY <2>5, <3>1, TrafficKeyTypes DEF HandshakeKey, KeyLabels, Secrets
  <2>7. TypeOK'
    <3>1. /\ pc' \in [Clients -> Places]
          /\ sseq' \in [Clients -> 0..5]
          /\ hasher' \in [Clients -> Transcripts]
          /\ \A j \in Clients : Len(hasher'[j]) <= 4
      <4>1. Len(h) <= 4
        BY <2>5
      <4>2. pc' \in [Clients -> Places] /\ sseq' \in [Clients -> 0..5]
        BY SMTT(20), <2>3 DEF IInv, TypeOK, Places
      <4>3. /\ hasher' \in [Clients -> Transcripts]
            /\ \A j \in Clients : Len(hasher'[j]) <= 4
        BY <2>3, <2>5, <4>1 DEF IInv, TypeOK
      <4> QED
        BY <4>2, <4>3
    <3> QED
      BY <1>3, <2>3, <2>6, <3>1 DEF IInv, TypeOK, drawn, serverVars, taskVars
  <2>8. /\ pc'[k] = "signature" /\ hasher'[k] = h /\ sseq'[k] = 1
        /\ secret'[k] = x /\ key'[k] = HandshakeKey(x, h)
        /\ conn'[k] = c /\ status'[k] = 0
    BY <1>1, <1>4, <2>3 DEF IInv, TypeOK, Shaking
  <2>9. Shaking(k, c, 2)'
    <3>1. /\ hasher'[k] = Append(hasher[k], thash[c][2]) /\ thash[c][2] \in Messages
          /\ Len(hasher'[k]) = 2 /\ sseq'[k] = sseq[k] + 1
          /\ status'[k] = status[k] /\ cseq'[k] = cseq[k]
      BY <1>4, <2>2, <2>3, <2>4, <2>5, <2>8
    <3> QED
      BY <1>1, <1>2, <1>4, <3>1, ShakingGoesOn
  <2>10. PlaceInv(k, c)'
    BY <1>3, <1>5, <2>1, <2>5, <2>8, <2>9 DEF PlaceInv, EpochOf, taskVars
  <2>11. ClientInv(k)'
    BY <1>1, <1>3, <1>4, <2>3, <2>8, <2>9, <2>10
       DEF ClientInv, HasAppKey, Shaking, drawn
  <2>12. \A j \in Clients \ {k} : SameClient(j)
    BY <2>3 DEF IInv, TypeOK, SameClient
  <2> QED
    BY <1>2, <2>3, <2>7, <2>11, <2>12, ReadFrame
<1> QED
  BY <1>6, <1>7

\* A handshake opens the second record exactly if its hello is the only one of
\* the connection: then the task has hashed that hello, and the two derived the
\* same key.
LEMMA SignatureOpens ==
  ASSUME IInv, NEW k \in Clients, pc[k] = "signature",
         NEW c \in Conns, c = conn[k], DownHasNext(c)
  PROVE  /\ Len(up[c]) = 1 => NextOpens(k)
         /\ NextOpens(k) =>
              /\ Len(up[c]) = 1
              /\ downRead[c] = 1
              /\ Len(thash[c]) >= 3
              /\ Len(down[c]) >= 2
              /\ DownNext(c).body = thash[c][3]
              /\ hasher[k] = SubSeq(thash[c], 1, 2)
              /\ secret[k] = SecretOf(c)
              /\ key[k] = TrafficKeyOf(c)
<1>1. PICK i : i = downRead[c] + 1
  OBVIOUS
<1>2. /\ i \in 1..5 /\ i <= Len(down[c]) /\ Len(thash[c]) >= 2
      /\ i = 1 => DownNext(c).key = None
      /\ i > 1 => DownNext(c).key # None /\ DownNext(c).seq = i - 1
      /\ i \in 2..4 => DownNext(c).key = TrafficKeyOf(c).server
      /\ i = 2 => Len(thash[c]) >= 3 /\ DownNext(c).body = thash[c][3]
  BY <1>1, NextRecord DEF IInv
<1>3. /\ Shaking(k, c, 2) /\ sseq[k] = 1 /\ hasher[k][2] = thash[c][2]
      /\ secret[k] = Ecdh(hasher[k][1].fresh, EpochOf(c))
      /\ key[k] = HandshakeKey(secret[k], hasher[k])
  BY DEF IInv, ClientInv, PlaceInv
<1>4. /\ thash[c] \in Seq(Messages) /\ Len(thash[c]) \in Nat
      /\ hasher[k] \in Seq(Messages) /\ Len(hasher[k]) = 2
      /\ up[c] \in Seq(Records) /\ downRead[c] \in 0..5
  BY <1>3, HashTypes DEF IInv, TypeOK, Transcripts, Shaking
<1>5. /\ SubSeq(thash[c], 1, 2) \in Seq(Messages)
      /\ Len(SubSeq(thash[c], 1, 2)) = 2
      /\ SubSeq(thash[c], 1, 2)[1] = thash[c][1]
      /\ SubSeq(thash[c], 1, 2)[2] = thash[c][2]
  BY <1>2, <1>4, PrefixFacts
<1>6. up[c] # <<>> /\ up[c][1].body = thash[c][1]
  BY <1>2, <1>4 DEF IInv, ConnInv, HashInv
<1>7. secret[k] \in Secrets /\ hasher[k] \in Transcripts /\ SecretOf(c) \in Secrets
  <2>1. secret[k] \in ComKeys \cup {None}
    BY DEF IInv, TypeOK
  <2>2. hasher[k][1] \in Messages /\ EpochOf(c) \in Nat
    BY <1>2, <1>4, HashTypes DEF IInv, EpochOf
  <2>3. secret[k] \in ComKeys
    BY <1>3, <2>2 DEF Ecdh, ComKeys, Messages
  <2>4. SecretOf(c) \in ComKeys
    BY <1>2, DerivedTypes DEF IInv
  <2> QED
    BY <1>4, <2>3, <2>4 DEF Transcripts, Secrets
<1>8. /\ key[k].server # None
      /\ TrafficKeyOf(c) = HandshakeKey(SecretOf(c), SubSeq(thash[c], 1, 2))
      /\ key[k].server = TrafficKeyOf(c).server
           => secret[k] = SecretOf(c) /\ hasher[k] = SubSeq(thash[c], 1, 2)
  <2>1. TrafficKeyOf(c) = HandshakeKey(SecretOf(c), SubSeq(thash[c], 1, 2))
    BY DEF HandshakeKey, TrafficKeyOf
  <2>2. SubSeq(thash[c], 1, 2) \in Transcripts
    BY <1>5 DEF Transcripts
  <2>3. PICK x \in Secrets, y \in Secrets, h \in Transcripts, g \in Transcripts :
          /\ x = secret[k] /\ h = hasher[k]
          /\ y = SecretOf(c) /\ g = SubSeq(thash[c], 1, 2)
    BY <1>7, <2>2
  <2>4. /\ HandshakeKey(x, h).server # None
        /\ HandshakeKey(x, h).server = HandshakeKey(y, g).server => x = y /\ h = g
    BY HandshakeKeyFacts
  <2> QED
    BY <1>3, <2>1, <2>3, <2>4
<1>9. ASSUME Len(up[c]) = 1 PROVE NextOpens(k)
  <2>1. i = 2
    BY <1>1, <1>3, <1>9 DEF Shaking
  <2>2. hasher[k][1] = thash[c][1]
    BY <1>3, <1>6, <1>9 DEF Shaking
  <2>3. hasher[k] = SubSeq(thash[c], 1, 2)
    BY <1>3, <1>4, <1>5, <2>2, SameElements
  <2>4. secret[k] = SecretOf(c)
    BY <1>3, <2>2 DEF SecretOf, EpochOf
  <2>5. DownNext(c).key = key[k].server /\ DownNext(c).seq = 1
    <3>1. DownNext(c).key = TrafficKeyOf(c).server /\ DownNext(c).seq = 1
      BY <1>2, <2>1
    <3>2. key[k] = TrafficKeyOf(c)
      BY <1>3, <1>8, <2>3, <2>4
    <3> QED
      BY <3>1, <3>2
  <2> QED
    BY <1>3, <1>8, <2>5 DEF NextOpens, Opens
<1>10. ASSUME NextOpens(k)
       PROVE  /\ Len(up[c]) = 1 /\ downRead[c] = 1
              /\ Len(thash[c]) >= 3 /\ Len(down[c]) >= 2
              /\ DownNext(c).body = thash[c][3]
              /\ hasher[k] = SubSeq(thash[c], 1, 2)
              /\ secret[k] = SecretOf(c) /\ key[k] = TrafficKeyOf(c)
  <2>1. DownNext(c).key = key[k].server /\ DownNext(c).seq = 1
    BY <1>3, <1>10 DEF NextOpens, Opens
  <2>2. i = 2
    <3>1. i # 1
      BY <1>2, <1>8, <2>1
    <3> QED
      BY <1>2, <2>1, <3>1
  <2>3. secret[k] = SecretOf(c) /\ hasher[k] = SubSeq(thash[c], 1, 2)
    BY <1>2, <1>8, <2>1, <2>2
  <2>4. key[k] = TrafficKeyOf(c)
    BY <1>3, <1>8, <2>3
  <2>5. Len(up[c]) = 1
    <3>1. Len(up[c]) \in Nat /\ Len(up[c]) >= 1 /\ DOMAIN up[c] = 1..Len(up[c])
      BY <1>4, <1>6
    <3>2. up[c][Len(up[c])].body = up[c][1].body
      BY <1>3, <1>5, <1>6, <2>3 DEF Shaking
    <3>3. SUFFICES ASSUME NEW n \in Nat, n = Len(up[c]), n > 1 PROVE FALSE
      <4>1. ASSUME NEW n \in Nat, n >= 1, ~ (n > 1) PROVE n = 1
        BY <4>1
      <4> QED
        BY <3>1, <4>1
    <3>4. /\ up[c][n].body \in Messages
          /\ up[c][1].body.fresh < up[c][n].body.fresh
      BY <1>3, <3>1, <3>3 DEF Shaking, HelloUp
    <3>5. up[c][n].body.fresh \in Nat
      BY <3>4 DEF Messages
    <3> QED
      BY <3>2, <3>3, <3>4, <3>5
  <2>6. downRead[c] = 1
    BY <1>1, <1>4, <2>2
  <2>7. Len(thash[c]) >= 3 /\ DownNext(c).body = thash[c][3] /\ Len(down[c]) >= 2
    BY <1>2, <2>2
  <2> QED
    BY <2>3, <2>4, <2>5, <2>6, <2>7
<1> QED
  BY <1>9, <1>10

\* A handshake that shared its connection with another cannot open the second
\* record; one that did not goes on to the ticket, unless it verifies signatures.
LEMMA ReadSignatureOK ==
  ASSUME IInv, NEW k \in Clients, ReadSignature(k)
  PROVE  IInv'
<1>1. PICK c : c = conn[k]
  OBVIOUS
<1>2. pc[k] = "signature" /\ pc[k] \in Reading \ {"noop"} /\ TakeRecord(k)
  BY DEF ReadSignature, Reading
<1>3. /\ c \in Conns /\ DownHasNext(c) /\ downRead' \in [Conns -> 0..5]
      /\ UNCHANGED <<drawn, up, down, upRead, broken, torn, serverVars, taskVars>>
      /\ ConnInv(c) /\ ClientInv(k) /\ PlaceInv(k, c)
  BY <1>1, <1>2, ReadFacts
<1>4. Shaking(k, c, 2) /\ sseq[k] = 1
  BY <1>2, <1>3 DEF PlaceInv
<1>5. /\ Len(up[c]) = 1 => NextOpens(k)
      /\ NextOpens(k) =>
           /\ Len(up[c]) = 1 /\ Len(thash[c]) >= 3 /\ Len(down[c]) >= 2
           /\ DownNext(c).body = thash[c][3]
           /\ hasher[k] = SubSeq(thash[c], 1, 2)
           /\ secret[k] = SecretOf(c) /\ key[k] = TrafficKeyOf(c)
  BY <1>1, <1>2, <1>3, SignatureOpens
<1>6. CASE ~ (NextOpens(k) /\ (k \in Verifying => VerifyEcdsa(NextBody(k))))
  <2>1. PICK why \in {"protocol", "unverified"} :
          Fail(k, why) /\ (why = "protocol" => ~ NextOpens(k))
    BY <1>6 DEF ReadSignature
  <2>2. ~ NextOpens(k) => Reused(c)
    BY <1>3, <1>4, <1>5, TwoHellos DEF IInv, Shaking
  <2> QED
    BY <1>1, <1>2, <2>1, <2>2, ReadRefusedOK
<1>7. CASE NextOpens(k) /\ (k \in Verifying => VerifyEcdsa(NextBody(k)))
  <2>1. PICK h : h = Append(hasher[k], thash[c][3])
    OBVIOUS
  <2>2. /\ pc' = [pc EXCEPT ![k] = "ticket"] /\ outcome' = outcome
        /\ hasher' = [hasher EXCEPT ![k] = h]
        /\ sseq' = [sseq EXCEPT ![k] = 2]
        /\ UNCHANGED <<conn, status, session, cseq, secret, key>>
    BY <1>1, <1>4, <1>5, <1>7, <2>1 DEF ReadSignature, NextBody, Goto
  <2>3. /\ hasher[k] \in Seq(Messages) /\ Len(hasher[k]) = 2
        /\ thash[c] \in Seq(Messages) /\ thash[c][3] \in Messages
        /\ Len(thash[c]) \in Nat
    <3>1. hasher[k] \in Seq(Messages) /\ Len(hasher[k]) = 2
      BY <1>4 DEF IInv, TypeOK, Transcripts, Shaking
    <3> QED
      BY <1>3, <1>5, <1>7, <3>1, HashTypes DEF IInv
  <2>4. h \in Transcripts /\ Len(h) = 3 /\ h = SubSeq(thash[c], 1, 3)
    <3>1. h \in Transcripts /\ Len(h) = 3
      BY SMTT(20), <2>1, <2>3, Appended DEF Transcripts
    <3>2. Append(SubSeq(thash[c], 1, 2), thash[c][3]) = SubSeq(thash[c], 1, 3)
      BY <1>5, <1>7, <2>3, PrefixGrows
    <3> QED
      BY <1>5, <1>7, <2>1, <3>1, <3>2
  <2>5. TypeOK'
    <3>1. Len(h) <= 4
      BY <2>4
    <3>2. pc' \in [Clients -> Places] /\ sseq' \in [Clients -> 0..5]
      BY SMTT(20), <2>2 DEF IInv, TypeOK, Places
    <3>3. /\ hasher' \in [Clients -> Transcripts]
          /\ \A j \in Clients : Len(hasher'[j]) <= 4
      BY <2>2, <2>4, <3>1 DEF IInv, TypeOK
    <3> QED
      BY <1>3, <2>2, <3>2, <3>3 DEF IInv, TypeOK, drawn, serverVars, taskVars
  <2>6. /\ pc'[k] = "ticket" /\ hasher'[k] = h /\ sseq'[k] = 2
        /\ conn'[k] = c /\ status'[k] = 0
    BY <1>1, <1>4, <2>2 DEF IInv, TypeOK, Shaking
  <2>7. Shaking(k, c, 3)'
    <3>1. /\ hasher'[k] = Append(hasher[k], thash[c][3]) /\ thash[c][3] \in Messages
          /\ Len(hasher'[k]) = 3 /\ sseq'[k] = sseq[k] + 1
          /\ status'[k] = status[k] /\ cseq'[k] = cseq[k]
      BY <1>4, <2>1, <2>2, <2>3, <2>4, <2>6
    <3> QED
      BY <1>1, <1>2, <1>4, <3>1, ShakingGoesOn
  <2>8. Agreed(k, c, 2)'
    BY <1>3, <1>5, <1>7, <2>2, <2>6, SameHash DEF Agreed, taskVars
  <2>9. PlaceInv(k, c)'
    BY <1>3, <2>4, <2>6, <2>7, <2>8 DEF PlaceInv, taskVars
  <2>10. ClientInv(k)'
    BY <1>1, <1>3, <1>4, <2>2, <2>6, <2>7, <2>9
       DEF ClientInv, HasAppKey, Shaking, drawn
  <2>11. \A j \in Clients \ {k} : SameClient(j)
    BY <2>2 DEF IInv, TypeOK, SameClient
  <2> QED
    BY <1>2, <2>2, <2>5, <2>10, <2>11, ReadFrame
<1> QED
  BY <1>6, <1>7

\* A handshake that has opened a record opens those that follow.
LEMMA AgreedOpens ==
  ASSUME IInv, NEW k \in Clients, NEW c \in Conns, c = conn[k], DownHasNext(c),
         NEW n \in 2..3, NEW l, Shaking(k, c, l), Agreed(k, c, n)
  PROVE  /\ NextOpens(k)
         /\ downRead[c] = n
         /\ Len(thash[c]) = 4
         /\ Len(down[c]) >= n + 1
         /\ n = 2 => DownNext(c).body = thash[c][4]
         /\ n = 3 => DownNext(c).body = ServerFinishOf(c)
<1>1. PICK i : i = downRead[c] + 1
  OBVIOUS
<1>2. downRead[c] = n /\ sseq[k] = n /\ i = n + 1 /\ i \in 3..4
  BY <1>1 DEF Shaking, Agreed
<1>3. /\ i <= Len(down[c])
      /\ DownNext(c).seq = i - 1
      /\ DownNext(c).key = TrafficKeyOf(c).server
      /\ Len(thash[c]) = 4
      /\ i = 3 => DownNext(c).body = thash[c][4]
      /\ i = 4 => DownNext(c).body = ServerFinishOf(c)
  BY <1>1, <1>2, NextRecord DEF IInv
<1>4. TrafficKeyOf(c).server # None
  <2>1. Len(thash[c]) >= 2
    BY <1>3
  <2> QED
    BY <2>1, DerivedTypes, NoneAssumption DEF IInv
<1>5. DownNext(c).seq = n
  BY <1>2, <1>3
<1>6. NextOpens(k)
  BY <1>2, <1>3, <1>4, <1>5 DEF NextOpens, Opens, Agreed
<1> QED
  BY <1>2, <1>3, <1>6

\* A handshake that shares its connection with none takes the ticket the task
\* issued, and derives the psk_access the task derived.
LEMMA ReadTicketOK ==
  ASSUME IInv, NEW k \in Clients, ReadTicket(k)
  PROVE  IInv'
<1>1. PICK c : c = conn[k]
  OBVIOUS
<1>2. pc[k] = "ticket" /\ pc[k] \in Reading /\ TakeRecord(k)
  BY DEF ReadTicket, Reading
<1>3. /\ c \in Conns /\ DownHasNext(c) /\ downRead' \in [Conns -> 0..5]
      /\ UNCHANGED <<drawn, up, down, upRead, broken, torn, serverVars, taskVars>>
      /\ ConnInv(c) /\ ClientInv(k) /\ PlaceInv(k, c)
  BY <1>1, <1>2, ReadFacts
<1>4. Shaking(k, c, 3) /\ Agreed(k, c, 2) /\ hasher[k] = SubSeq(thash[c], 1, 3)
  BY <1>2, <1>3 DEF PlaceInv
<1>5. /\ NextOpens(k) /\ DownNext(c).body = thash[c][4] /\ Len(thash[c]) = 4
      /\ Len(down[c]) >= 3
  BY <1>1, <1>3, <1>4, AgreedOpens
<1>6. /\ thash[c] \in Seq(Messages) /\ thash[c][4] \in Messages
      /\ thash[c][4].fresh = c
      /\ hasher[k] \in Seq(Messages) /\ Len(hasher[k]) = 3
  <2>1. thash[c] \in Seq(Messages) /\ thash[c][4] \in Messages
    BY <1>3, <1>5, HashTypes DEF IInv
  <2>2. thash[c][4] = NewSessionTicket(c)
    BY <1>3, <1>5 DEF ConnInv, HashInv
  <2>3. hasher[k] \in Seq(Messages) /\ Len(hasher[k]) = 3
    BY <1>4 DEF IInv, TypeOK, Transcripts, Shaking
  <2> QED
    BY <2>1, <2>2, <2>3 DEF NewSessionTicket, Message
<1>7. PICK h, s : /\ h = Append(hasher[k], thash[c][4])
                  /\ s = [ticket |-> c, psk |-> PskOf(c), app |-> None]
  OBVIOUS
<1>8. /\ pc' = [pc EXCEPT ![k] = "serverFinish"] /\ outcome' = outcome
      /\ session' = [session EXCEPT ![k] = s]
      /\ hasher' = [hasher EXCEPT ![k] = h]
      /\ sseq' = [sseq EXCEPT ![k] = 3]
      /\ UNCHANGED <<conn, status, cseq, secret, key>>
  <2>1. HkdfExpand(secret[k], "PSK_ACCESS", hasher[k]) = PskOf(c)
    BY <1>4 DEF Agreed, PskOf
  <2>2. NextBody(k) = thash[c][4] /\ NextBody(k).fresh = c
    BY <1>1, <1>5, <1>6 DEF NextBody
  <2>3. sseq[k] + 1 = 3
    BY <1>4 DEF Agreed
  <2> QED
    BY <1>5, <1>7, <2>1, <2>2, <2>3 DEF ReadTicket, Goto
<1>9. h = thash[c] /\ h \in Transcripts /\ Len(h) = 4
  <2>1. Append(SubSeq(thash[c], 1, 3), thash[c][4]) = SubSeq(thash[c], 1, 4)
    BY <1>5, <1>6, PrefixGrows
  <2>2. SubSeq(thash[c], 1, 4) = thash[c]
    BY <1>5, <1>6, PrefixFacts
  <2> QED
    BY <1>4, <1>5, <1>6, <1>7, <2>1, <2>2 DEF Transcripts
<1>10. s \in Sessions
  <2>1. PskOf(c) \in Psks
    BY <1>3, <1>5, DerivedTypes DEF IInv
  <2> QED
    BY <1>3, <1>7, <2>1 DEF Sessions
<1>11. TypeOK'
  <2>1. Len(h) <= 4
    BY <1>9
  <2>2. /\ pc' \in [Clients -> Places] /\ sseq' \in [Clients -> 0..5]
        /\ session' \in [Clients -> Sessions \cup {None}]
    BY <1>8, <1>10 DEF IInv, TypeOK, Places
  <2>3. /\ hasher' \in [Clients -> Transcripts]
        /\ \A j \in Clients : Len(hasher'[j]) <= 4
    BY <1>8, <1>9, <2>1 DEF IInv, TypeOK
  <2> QED
    BY <1>3, <1>8, <2>2, <2>3 DEF IInv, TypeOK, drawn, serverVars, taskVars
<1>12. /\ pc'[k] = "serverFinish" /\ hasher'[k] = h /\ sseq'[k] = 3
       /\ session'[k] = s /\ conn'[k] = c /\ status'[k] = 0 /\ status[k] = 0
  BY <1>1, <1>4, <1>8 DEF IInv, TypeOK, Shaking
<1>13. Shaking(k, c, 4)'
  <2>1. /\ hasher'[k] = Append(hasher[k], thash[c][4]) /\ Shaking(k, c, 3)
        /\ Len(hasher'[k]) = 4 /\ sseq'[k] = sseq[k] + 1
        /\ status'[k] = status[k] /\ cseq'[k] = cseq[k]
    BY <1>4, <1>7, <1>8, <1>9, <1>12 DEF Agreed
  <2> QED
    BY SMTT(20), <1>1, <1>2, <1>6, <2>1, ShakingGoesOn
<1>14. Agreed(k, c, 3)'
  BY <1>3, <1>4, <1>5, <1>8, <1>12, SameHash DEF Agreed, taskVars
<1>15. Ticketed(k, c)' /\ ~ HasAppKey(k)'
  <2>1. s # None /\ s.ticket = c /\ s.psk = PskOf(c) /\ s.app = None
    <3>1. s \in [ticket: Nat, psk: Psks, app: KeyPairs \cup {None}]
      BY <1>10 DEF Sessions, Conns
    <3> QED
      BY <1>7, <3>1, NoneAssumption
  <2>2. PskOf(c)' = PskOf(c)
    BY <1>3, SameHash DEF taskVars
  <2> QED
    BY <1>12, <2>1, <2>2 DEF Ticketed, HasAppKey
<1>16. PlaceInv(k, c)'
  BY <1>3, <1>9, <1>12, <1>13, <1>14, <1>15 DEF PlaceInv, taskVars
<1>17. ClientInv(k)'
  BY <1>1, <1>3, <1>8, <1>12, <1>13, <1>15, <1>16 DEF ClientInv, Shaking, drawn
<1>18. \A j \in Clients \ {k} : SameClient(j)
  BY <1>8 DEF IInv, TypeOK, SameClient
<1> QED
  BY <1>2, <1>8, <1>11, <1>12, <1>17, <1>18, ReadFrame

\* ServerFinish is what the client of that handshake computes.
LEMMA ReadServerFinishOK ==
  ASSUME IInv, NEW k \in Clients, ReadServerFinish(k)
  PROVE  IInv'
<1>1. PICK c : c = conn[k]
  OBVIOUS
<1>2. pc[k] = "serverFinish" /\ pc[k] \in Reading /\ TakeRecord(k)
  BY DEF ReadServerFinish, Reading
<1>3. /\ c \in Conns /\ DownHasNext(c) /\ downRead' \in [Conns -> 0..5]
      /\ UNCHANGED <<drawn, up, down, upRead, broken, torn, serverVars, taskVars>>
      /\ ConnInv(c) /\ ClientInv(k) /\ PlaceInv(k, c)
  BY <1>1, <1>2, ReadFacts
<1>4. Shaking(k, c, 4) /\ Agreed(k, c, 3) /\ hasher[k] = thash[c] /\ Ticketed(k, c)
  BY <1>2, <1>3 DEF PlaceInv
<1>5. /\ NextOpens(k) /\ DownNext(c).body = ServerFinishOf(c) /\ Len(down[c]) >= 4
  BY <1>1, <1>3, <1>4, AgreedOpens
<1>6. NextBody(k) = Finish("server finished", secret[k], hasher[k])
  <2>1. Finish("server finished", secret[k], hasher[k]) = ServerFinishOf(c)
    BY <1>4 DEF Agreed, ServerFinishOf
  <2> QED
    BY <1>1, <1>5, <2>1 DEF NextBody
<1>7. /\ pc' = [pc EXCEPT ![k] = "clientFinish"] /\ outcome' = outcome
      /\ sseq' = [sseq EXCEPT ![k] = 4]
      /\ UNCHANGED <<conn, status, session, hasher, cseq, secret, key>>
  <2>1. sseq[k] + 1 = 4
    BY <1>4 DEF Agreed
  <2> QED
    BY <1>5, <1>6, <2>1 DEF ReadServerFinish, Goto
<1>8. TypeOK'
  <2>1. pc' \in [Clients -> Places] /\ sseq' \in [Clients -> 0..5]
    BY SMTT(20), <1>7 DEF IInv, TypeOK, Places
  <2> QED
    BY <1>3, <1>7, <2>1 DEF IInv, TypeOK, drawn, serverVars, taskVars
<1>9. /\ pc'[k] = "clientFinish" /\ sseq'[k] = 4 /\ conn'[k] = c /\ status'[k] = 0
  BY <1>1, <1>4, <1>7 DEF IInv, TypeOK, Shaking
<1>10. Shaking(k, c, 4)'
  <2>1. /\ hasher'[k] = hasher[k] /\ Shaking(k, c, 4)
        /\ Len(hasher'[k]) = 4 /\ sseq'[k] = sseq[k] + 1
        /\ status'[k] = status[k] /\ cseq'[k] = cseq[k]
    BY <1>4, <1>7, <1>9 DEF Agreed, Shaking
  <2>2. 4 \in 1..4
    OBVIOUS
  <2> QED
    BY <1>1, <1>2, <2>1, <2>2, ShakingGoesOn, Zenon
<1>11. Agreed(k, c, 4)'
  BY <1>3, <1>4, <1>5, <1>7, <1>9, SameHash DEF Agreed, taskVars
<1>12. Ticketed(k, c)'
  BY <1>3, <1>4, <1>7, SameHash DEF Ticketed, taskVars
<1>13. PlaceInv(k, c)'
  BY <1>3, <1>4, <1>7, <1>9, <1>10, <1>11, <1>12 DEF PlaceInv, taskVars
<1>14. ClientInv(k)'
  BY <1>1, <1>3, <1>4, <1>7, <1>9, <1>10, <1>13
     DEF ClientInv, HasAppKey, Ticketed, Shaking, drawn
<1>15. \A j \in Clients \ {k} : SameClient(j)
  BY <1>7 DEF IInv, TypeOK, SameClient
<1> QED
  BY <1>2, <1>7, <1>8, <1>14, <1>15, ReadFrame

\* On a connection that carries a record of its task, a client that completed a
\* handshake completed it there.
LEMMA SettledThere ==
  ASSUME IInv, NEW k \in Clients, NEW c \in Conns, NEW t, Settled(k, t, c),
         Len(thash[c]) >= 1
  PROVE  c = t
<1>1. Len(thash[c]) \in Nat /\ up[c] \in Seq(Records)
  BY HashTypes DEF IInv, TypeOK
<1>2. up[c] # <<>> /\ up[c][1].key = None
  BY DEF IInv, ConnInv, HashInv
<1>3. 1 \in DOMAIN up[c]
  BY <1>1, <1>2
<1>4. ~ NoopUp(c)
  BY <1>2, <1>3 DEF NoopUp
<1>5. c # 0
  BY LongLinkAssumption DEF Conns
<1> QED
  BY <1>4, <1>5 DEF Settled

\* The record a noop() reads is the answer of the task, under the key it holds.
LEMMA NoopOpens ==
  ASSUME IInv, NEW k \in Clients, pc[k] = "noop",
         NEW c \in Conns, c = conn[k], DownHasNext(c)
  PROVE  /\ status[k] = 1 /\ session[k] # None
         /\ c = session[k].ticket
         /\ Settled(k, c, c)
         /\ sseq[k] = 4 /\ downRead[c] = 4 /\ Len(down[c]) = 5
         /\ Opens(DownNext(c), session[k].app.server, sseq[k])
         /\ DownNext(c).body.msg = "noopResponse"
<1>1. PICK t, i : t = session[k].ticket /\ i = downRead[c] + 1
  OBVIOUS
<1>2. status[k] = 1 /\ session[k] # None /\ Settled(k, t, c)
  BY <1>1 DEF IInv, ClientInv, PlaceInv, HasAppKey
<1>3. /\ i \in 1..5 /\ i <= Len(down[c]) /\ Len(thash[c]) >= 2
      /\ i > 1 => DownNext(c).seq = i - 1
      /\ i >= 3 => Len(thash[c]) = 4
      /\ i = 5 => DownNext(c).key = AppKeyOf(c).server /\ DownNext(c).body = NoopResponse
  BY <1>1, NextRecord DEF IInv
<1>4. c = t
  <2>1. Len(thash[c]) >= 1
    BY <1>3, HashTypes DEF IInv
  <2> QED
    BY <1>2, <2>1, SettledThere
<1>5. i = 5 /\ sseq[k] = 4 /\ downRead[c] = 4
  <2>1. downRead[c] = sseq[k] /\ sseq[k] >= 4 /\ sseq[k] \in 0..5
    BY <1>2, <1>4 DEF Settled, IInv, TypeOK
  <2> QED
    BY <1>1, <1>3, <2>1
<1>6. Len(down[c]) = 5
  <2>1. Len(down[c]) \in Nat /\ Len(down[c]) <= 5 /\ Len(down[c]) >= 5
    BY <1>3, <1>5 DEF IInv, TypeOK, ConnInv, DownInv
  <2>2. ASSUME NEW n \in Nat, n <= 5, n >= 5 PROVE n = 5
    BY <2>2
  <2> QED
    BY <2>1, <2>2
<1>7. /\ DownNext(c).key = AppKeyOf(c).server /\ DownNext(c).seq = 4
      /\ DownNext(c).body = NoopResponse /\ Len(thash[c]) = 4
  BY <1>3, <1>5
<1>8. session[k].app = AppKeyOf(c) /\ AppKeyOf(c).server # None
  BY <1>2, <1>4, <1>7, DerivedTypes, NoneAssumption DEF Settled, IInv
<1>9. Opens(DownNext(c), session[k].app.server, sseq[k])
  BY <1>5, <1>7, <1>8 DEF Opens
<1>10. DownNext(c).body.msg = "noopResponse"
  BY <1>7 DEF NoopResponse, Message
<1> QED
  BY <1>1, <1>2, <1>4, <1>5, <1>6, <1>9, <1>10

\* So noop() never takes exception to a record, and succeeds once.
LEMMA ReadNoopOK ==
  ASSUME IInv, NEW k \in Clients, ReadNoop(k)
  PROVE  IInv'
<1>1. PICK c : c = conn[k]
  OBVIOUS
<1>2. pc[k] = "noop" /\ pc[k] \in Reading /\ TakeRecord(k)
  BY DEF ReadNoop, Reading
<1>3. /\ c \in Conns /\ DownHasNext(c) /\ downRead' \in [Conns -> 0..5]
      /\ downRead'[c] = downRead[c] + 1
      /\ UNCHANGED <<drawn, up, down, upRead, broken, torn, serverVars, taskVars>>
      /\ ClientInv(k)
  BY <1>1, <1>2, ReadFacts
<1>4. /\ status[k] = 1 /\ c = session[k].ticket /\ Settled(k, c, c)
      /\ sseq[k] = 4 /\ downRead[c] = 4
      /\ Opens(DownNext(c), session[k].app.server, sseq[k])
      /\ DownNext(c).body.msg = "noopResponse"
  BY <1>1, <1>2, <1>3, NoopOpens
<1>5. /\ pc' = [pc EXCEPT ![k] = "idle"]
      /\ outcome' = [outcome EXCEPT ![k] = "alive"]
      /\ sseq' = [sseq EXCEPT ![k] = 5]
      /\ UNCHANGED <<conn, status, session, hasher, cseq, secret, key>>
  BY <1>1, <1>4 DEF ReadNoop, NextBody, Return
<1>6. TypeOK'
  <2>1. pc' \in [Clients -> Places] /\ sseq' \in [Clients -> 0..5]
    BY SMTT(20), <1>5 DEF IInv, TypeOK, Places
  <2> QED
    BY <1>3, <1>5, <2>1 DEF IInv, TypeOK, drawn, serverVars, taskVars
<1>7. pc'[k] = "idle" /\ outcome'[k] = "alive" /\ sseq'[k] = 5 /\ downRead'[c] = 5
  BY <1>3, <1>4, <1>5 DEF IInv, TypeOK
<1>8. Settled(k, c, c)'
  BY <1>3, <1>4, <1>5, <1>7, SameHash DEF Settled, FinishUp, taskVars
<1>9. ClientInv(k)'
  <2>1. conn'[k] = c /\ status'[k] = 1 /\ session'[k].ticket = c
    BY <1>1, <1>4, <1>5
  <2>2. HasAppKey(k)'
    BY <1>3, <1>4, <1>5 DEF ClientInv, HasAppKey
  <2>3. conn[k] \in 0..opened'
    BY <1>3 DEF ClientInv, drawn
  <2> QED
    BY <1>1, <1>7, <1>8, <2>1, <2>2, <2>3 DEF ClientInv, PlaceInv
<1>10. \A j \in Clients \ {k} : SameClient(j)
  BY <1>5 DEF IInv, TypeOK, SameClient
<1> QED
  BY <1>2, <1>5, <1>6, <1>9, <1>10, ReadFrame

-----------------------------------------------------------------------------
(* Steps of the server.                                                     *)

\* A task that moves on keeps what clients have written as it was.
LEMMA UpStable ==
  ASSUME TypeOK, TypeOK', NEW c \in Conns, Grows(c), Len(thash'[c]) <= 4,
         up' = up, hellos' = hellos
  PROVE  /\ HelloUp(c) => HelloUp(c)'
         /\ FinishUp(c) => FinishUp(c)'
         /\ NoopUp(c) => NoopUp(c)'
         /\ Reused(c)' = Reused(c)
<1>1. HelloUp(c) => HelloUp(c)'
  BY DEF HelloUp
<1>2. NoopUp(c) => NoopUp(c)'
  BY DEF NoopUp
<1>3. Reused(c)' = Reused(c)
  BY DEF Reused, HellosOn
<1>4. ASSUME FinishUp(c) PROVE FinishUp(c)'
  <2>1. Len(thash[c]) = 4 /\ Len(down[c]) >= 4
    BY <1>4 DEF FinishUp
  <2>2. Len(thash[c]) >= 2
    BY <2>1
  <2>3. /\ Len(down'[c]) >= Len(down[c]) /\ thash'[c] = thash[c]
        /\ ClientFinishOf(c)' = ClientFinishOf(c) /\ AppKeyOf(c)' = AppKeyOf(c)
        /\ TrafficKeyOf(c)' = TrafficKeyOf(c)
    BY <2>1, <2>2, DerivedStay
  <2>4. Len(down'[c]) >= 4
    <3>1. Len(down[c]) \in Nat /\ Len(down'[c]) \in Nat
      BY DEF TypeOK
    <3>2. ASSUME NEW m \in Nat, NEW n \in Nat, m >= 4, n >= m PROVE n >= 4
      BY <3>2
    <3> QED
      BY <2>1, <2>3, <3>1, <3>2
  <2> QED
    BY <1>4, <2>1, <2>3, <2>4 DEF FinishUp
<1> QED
  BY <1>1, <1>2, <1>3, <1>4

\* What a step of a task has to restore: what is said of hash, records and map.
LEMMA TaskFrame ==
  ASSUME IInv, TypeOK', NEW c \in Conns, Running(c),
         UNCHANGED <<callVars, clientVars, drawn, up, downRead, torn, epoch>>,
         \A d \in Conns \ {c} : SameConn(d), Grows(c),
         HashInv(c)', DownInv(c)', TaskInv(c)', MapInv(c)'
  PROVE  IInv'
<1>1. ~ (c > opened)'
  BY DEF IInv, ConnInv, Unopened, Running, drawn
<1>2. UpInv(c)'
  <2>1. Len(thash'[c]) <= 4
    BY DEF HashInv
  <2>2. /\ HelloUp(c) => HelloUp(c)'
        /\ FinishUp(c) => FinishUp(c)'
        /\ NoopUp(c) => NoopUp(c)'
    BY <2>1, UpStable DEF IInv, drawn
  <2> QED
    BY <2>2 DEF IInv, ConnInv, UpInv
<1>3. ConnInv(c)'
  BY <1>1, <1>2 DEF ConnInv
<1> QED
  BY <1>3, ServerFrame

\* A step that neither hashes nor writes has to restore less.
LEMMA QuietTaskFrame ==
  ASSUME IInv, TypeOK', NEW c \in Conns, Running(c),
         UNCHANGED <<callVars, clientVars, drawn, up, down, downRead, torn, epoch,
                     thash>>,
         \A d \in Conns \ {c} : SameConn(d),
         TaskInv(c)', MapInv(c)'
  PROVE  IInv'
<1>1. /\ TrafficKeyOf(c)' = TrafficKeyOf(c) /\ AppKeyOf(c)' = AppKeyOf(c)
      /\ ServerFinishOf(c)' = ServerFinishOf(c) /\ EpochOf(c)' = EpochOf(c)
  BY SameHash
<1>2. ConnInv(c)
  BY DEF IInv
<1>3. HashInv(c)'
  BY <1>1, <1>2 DEF ConnInv, HashInv
<1>4. DownInv(c)'
  BY <1>1, <1>2 DEF ConnInv, DownInv
<1> QED
  BY <1>3, <1>4, TaskFrame DEF Grows

\* A task in its course has not answered.
LEMMA RunningNotDone ==
  ASSUME TypeOK, NEW c \in Conns, TaskInv(c), Running(c)
  PROVE  Len(down[c]) <= 4
<1>1. task[c] \in {"hello", "serverHello", "signature", "ticket", "store",
                   "serverFinish", "clientFinish", "noop", "noopReply"}
  BY DEF TypeOK, Stages, Running
<1>2. Len(down[c]) \in {0, 1, 2, 3, 4}
  BY <1>1 DEF TaskInv, Progress
<1>3. \A n \in {0, 1, 2, 3, 4} : n <= 4
  OBVIOUS
<1> QED
  BY <1>2, <1>3

\* A task that ends keeps the invariant.
LEMMA TaskFailsOK ==
  ASSUME IInv, NEW c \in Conns, TaskFails(c)
  PROVE  IInv'
<1>1. /\ task' = [task EXCEPT ![c] = "failed"] /\ Running(c)
      /\ UNCHANGED <<callVars, clientVars, drawn, streams, serverVars, thash>>
  BY DEF TaskFails, Reach
<1>2. TypeOK'
  <2>1. task' \in [Conns -> Stages]
    BY <1>1 DEF IInv, TypeOK, Stages
  <2> QED
    BY <1>1, <2>1 DEF IInv, TypeOK, callVars, clientVars, drawn, streams, serverVars
<1>3. task'[c] = "failed"
  BY <1>1 DEF IInv, TypeOK
<1>4. Len(down[c]) <= 4
  BY <1>1, RunningNotDone DEF IInv, ConnInv
<1>5. TaskInv(c)'
  BY <1>1, <1>3, <1>4 DEF TaskInv, streams
<1>6. MapInv(c)'
  <2>1. PskOf(c)' = PskOf(c) /\ EpochOf(c)' = EpochOf(c)
    BY <1>1, SameHash
  <2> QED
    BY <1>1, <1>3, <2>1 DEF IInv, ConnInv, MapInv, streams, serverVars
<1>7. \A d \in Conns \ {c} : SameConn(d)
  BY <1>1 DEF IInv, TypeOK, SameConn, streams, serverVars
<1> QED
  BY <1>1, <1>2, <1>5, <1>6, <1>7, QuietTaskFrame DEF streams, serverVars

\* So does one that stores the session of its ticket.
LEMMA StoreSessionOK ==
  ASSUME IInv, NEW c \in Conns, StoreSession(c)
  PROVE  IInv'
<1>1. /\ task[c] = "store" /\ task' = [task EXCEPT ![c] = "serverFinish"]
      /\ sessions' = [sessions EXCEPT ![c] = PskOf(c)]
      /\ UNCHANGED <<callVars, clientVars, drawn, streams, epoch, thash>>
  BY DEF StoreSession, Reach
<1>2. Progress(c, 4, 3, 1) /\ Running(c)
  BY <1>1 DEF IInv, ConnInv, TaskInv, Running
<1>3. TypeOK'
  <2>1. task' \in [Conns -> Stages]
    BY <1>1 DEF IInv, TypeOK, Stages
  <2>2. PskOf(c) \in Psks
    <3>1. Len(thash[c]) >= 3
      BY <1>2 DEF Progress
    <3> QED
      BY <3>1, DerivedTypes DEF IInv
  <2>3. sessions' \in [Conns -> Psks \cup {None}]
    BY <1>1, <2>2 DEF IInv, TypeOK
  <2> QED
    BY <1>1, <2>1, <2>3 DEF IInv, TypeOK, callVars, clientVars, drawn, streams
<1>4. task'[c] = "serverFinish" /\ sessions'[c] = PskOf(c)
  BY <1>1 DEF IInv, TypeOK
<1>5. TaskInv(c)'
  BY <1>1, <1>2, <1>4 DEF TaskInv, Progress, streams
<1>6. MapInv(c)'
  <2>1. PskOf(c)' = PskOf(c) /\ Len(down'[c]) = 3
    BY <1>1, <1>2, SameHash DEF Progress, streams
  <2> QED
    BY <1>4, <2>1 DEF MapInv
<1>7. \A d \in Conns \ {c} : SameConn(d)
  BY <1>1 DEF IInv, TypeOK, SameConn, streams
<1> QED
  BY <1>1, <1>2, <1>3, <1>5, <1>6, <1>7, QuietTaskFrame DEF streams

\* A task takes the first record for its hello only if it is one.
LEMMA ReadClientHelloOK ==
  ASSUME IInv, NEW c \in Conns, ReadClientHello(c)
  PROVE  IInv'
<1>1. /\ task[c] = "hello" /\ UpHasNext(c)
      /\ upRead' = [upRead EXCEPT ![c] = @ + 1]
      /\ UNCHANGED <<callVars, clientVars, drawn, up, down, downRead, broken, torn,
                     serverVars>>
  BY DEF ReadClientHello, TakeUp, ReadUp
<1>2. ConnInv(c) /\ Progress(c, 0, 0, 0) /\ Running(c)
  BY <1>1 DEF IInv, ConnInv, TaskInv, Running
<1>3. /\ thash[c] \in Seq(Messages) /\ down[c] \in Seq(Records)
      /\ up[c] \in Seq(Records) /\ thash[c] = <<>>
  <2>1. thash[c] \in Seq(Messages) /\ down[c] \in Seq(Records) /\ up[c] \in Seq(Records)
    BY HashTypes DEF IInv, TypeOK
  <2>2. Len(thash[c]) = 0
    BY <1>2 DEF Progress
  <2> QED
    BY <2>1, <2>2
<1>4. up[c] # <<>> /\ 1 \in DOMAIN up[c] /\ UpNext(c) = up[c][1]
  BY <1>1, <1>2, <1>3 DEF UpHasNext, UpNext, Progress
<1>5. upRead'[c] = 1 /\ upRead' \in [Conns -> Nat]
  BY <1>1, <1>2 DEF IInv, TypeOK, Progress
<1>6. CASE up[c][1].key = None
  <2>1. PICK m : m = up[c][1].body
    OBVIOUS
  <2>2. m \in Messages
    <3>1. ~ FinishUp(c)
      BY <1>2 DEF FinishUp, Progress
    <3>2. ~ NoopUp(c)
      BY <1>4, <1>6 DEF NoopUp
    <3> QED
      BY <1>2, <1>4, <2>1, <3>1, <3>2 DEF ConnInv, UpInv, HelloUp
  <2>3. /\ task' = [task EXCEPT ![c] = "serverHello"]
        /\ thash' = [thash EXCEPT ![c] = <<m>>]
    BY <1>4, <1>6, <2>1 DEF ReadClientHello, Reach
  <2>4. TypeOK'
    <3>1. task' \in [Conns -> Stages]
      BY <2>3 DEF IInv, TypeOK, Stages
    <3>2. thash' \in [Conns -> Transcripts]
      BY <2>2, <2>3 DEF IInv, TypeOK, Transcripts
    <3> QED
      BY <1>1, <1>5, <3>1, <3>2
         DEF IInv, TypeOK, callVars, clientVars, drawn, serverVars
  <2>5. task'[c] = "serverHello" /\ thash'[c] = <<m>>
    BY <2>3 DEF IInv, TypeOK
  <2>6. Len(thash'[c]) = 1 /\ thash'[c][1] = m /\ Len(down'[c]) = 0
    BY <1>1, <1>2, <2>5 DEF Progress
  <2>7. HashInv(c)'
    BY <1>1, <1>4, <1>6, <2>1, <2>6 DEF HashInv
  <2>8. DownInv(c)'
    BY <1>1, <1>2, <2>6 DEF DownInv, ConnInv, Progress
  <2>9. TaskInv(c)'
    BY <1>5, <2>5, <2>6 DEF TaskInv, Progress
  <2>10. MapInv(c)'
    BY <2>5, <2>6 DEF MapInv
  <2>11. Grows(c)
    BY <1>1, <1>3, <2>2, <2>5 DEF Grows
  <2>12. \A d \in Conns \ {c} : SameConn(d)
    BY <1>1, <2>3 DEF IInv, TypeOK, SameConn, serverVars
  <2> QED
    BY <1>1, <1>2, <2>4, <2>7, <2>8, <2>9, <2>10, <2>11, <2>12, TaskFrame DEF serverVars
<1>7. CASE up[c][1].key # None
  <2>1. task' = [task EXCEPT ![c] = "rejected"] /\ UNCHANGED thash
    BY <1>4, <1>7 DEF ReadClientHello, Reach
  <2>2. TypeOK'
    <3>1. task' \in [Conns -> Stages]
      BY <2>1 DEF IInv, TypeOK, Stages
    <3> QED
      BY <1>1, <1>5, <2>1, <3>1
         DEF IInv, TypeOK, callVars, clientVars, drawn, serverVars
  <2>3. task'[c] = "rejected"
    BY <2>1 DEF IInv, TypeOK
  <2>4. (1 \notin HellosOn(c))' /\ Len(down'[c]) = 0
    BY <1>1, <1>2, <1>7 DEF HellosOn, Progress
  <2>5. TaskInv(c)'
    BY <2>3, <2>4 DEF TaskInv
  <2>6. MapInv(c)'
    BY <2>3, <2>4 DEF MapInv
  <2>7. \A d \in Conns \ {c} : SameConn(d)
    BY <1>1, <2>1 DEF IInv, TypeOK, SameConn, serverVars
  <2> QED
    BY <1>1, <1>2, <2>1, <2>2, <2>5, <2>6, <2>7, QuietTaskFrame DEF serverVars
<1> QED
  BY <1>6, <1>7

\* A task takes a record for ClientFinish only from the client it shook hands
\* with, and rejects another only if that client came to the connection late.
LEMMA ReadClientFinishOK ==
  ASSUME IInv, NEW c \in Conns, ReadClientFinish(c)
  PROVE  IInv'
<1>1. /\ task[c] = "clientFinish" /\ UpHasNext(c)
      /\ upRead' = [upRead EXCEPT ![c] = @ + 1]
      /\ UNCHANGED <<callVars, clientVars, drawn, up, down, downRead, broken, torn,
                     serverVars, thash>>
  BY DEF ReadClientFinish, TakeUp, ReadUp
<1>2. ConnInv(c) /\ Progress(c, 4, 4, 1) /\ Running(c)
  BY <1>1 DEF IInv, ConnInv, TaskInv, Running
<1>3. upRead'[c] = 2 /\ upRead' \in [Conns -> Nat]
  BY <1>1, <1>2 DEF IInv, TypeOK, Progress
<1>4. /\ up[c] \in Seq(Records) /\ Len(up[c]) # 1 /\ 2 \in DOMAIN up[c]
      /\ 1 \in DOMAIN up[c] /\ up[c] # <<>> /\ UpNext(c) = up[c][2]
  <2>1. up[c] \in Seq(Records)
    BY DEF IInv, TypeOK
  <2>2. Len(up[c]) \in Nat /\ Len(up[c]) > 1 /\ DOMAIN up[c] = 1..Len(up[c])
    BY <1>1, <1>2, <2>1 DEF UpHasNext, Progress
  <2>3. \A n \in Nat : n > 1 => n # 1 /\ 1 \in 1..n /\ 2 \in 1..n
    OBVIOUS
  <2>4. UpNext(c) = up[c][2]
    BY <1>2 DEF UpNext, Progress
  <2>5. Len(up[c]) # 1 /\ 1 \in DOMAIN up[c] /\ 2 \in DOMAIN up[c]
    BY <2>2, <2>3
  <2>6. up[c] # <<>>
    BY <2>1, <2>5
  <2> QED
    BY <2>1, <2>4, <2>5, <2>6
<1>5. ~ NoopUp(c)
  <2>1. up[c][1].key = None
    BY <1>2 DEF ConnInv, HashInv, Progress
  <2> QED
    BY <1>4, <2>1 DEF NoopUp
<1>6. FinishUp(c)' = FinishUp(c) /\ Reused(c)' = Reused(c)
  BY <1>1, SameHash DEF FinishUp, Reused, HellosOn
<1>7. PICK stage \in {"noop", "rejected"} :
        /\ task' = [task EXCEPT ![c] = stage]
        /\ stage = "noop" => UpNext(c).key # None
        /\ stage = "rejected" =>
             ~ (/\ Opens(UpNext(c), TrafficKeyOf(c).client, upRead[c])
                /\ UpNext(c).body = ClientFinishOf(c))
  <2>1. Opens(UpNext(c), TrafficKeyOf(c).client, upRead[c]) => UpNext(c).key # None
    BY DEF Opens
  <2>2. ClientFinishOf(c) = Finish("client finished", SecretOf(c), thash[c])
    BY DEF ClientFinishOf
  <2> QED
    BY <2>1, <2>2 DEF ReadClientFinish, Reach
<1>8. task'[c] = stage
  BY <1>7 DEF IInv, TypeOK
<1>9. stage = "noop" => FinishUp(c)
  <2>1. stage = "noop" => ~ HelloUp(c)
    BY <1>4, <1>7 DEF HelloUp
  <2> QED
    BY <1>2, <1>5, <2>1 DEF ConnInv, UpInv
<1>10. stage = "rejected" => Reused(c)
  <2>1. SUFFICES ASSUME stage = "rejected", FinishUp(c) PROVE FALSE
    BY <1>2, <1>4, <1>5, TwoHellos DEF ConnInv, UpInv, IInv
  <2>2. TrafficKeyOf(c).client # None
    <3>1. Len(thash[c]) >= 2
      BY <1>2 DEF Progress
    <3> QED
      BY <3>1, DerivedTypes, NoneAssumption DEF IInv
  <2>3. UpNext(c) = Seal(ClientFinishOf(c), TrafficKeyOf(c).client, 1)
    BY <1>4, <2>1 DEF FinishUp
  <2> QED
    BY <1>2, <1>7, <2>1, <2>2, <2>3 DEF Seal, Opens, Progress
<1>11. TypeOK'
  <2>1. task' \in [Conns -> Stages]
    BY <1>7 DEF IInv, TypeOK, Stages
  <2> QED
    BY <1>1, <1>3, <2>1 DEF IInv, TypeOK, callVars, clientVars, drawn, serverVars
<1>12. Progress(c, 4, 4, 2)'
  BY <1>1, <1>2, <1>3 DEF Progress
<1>13. TaskInv(c)'
  <2>1. (Len(down[c]) <= 4)'
    BY <1>12 DEF Progress
  <2> QED
    BY <1>6, <1>7, <1>8, <1>9, <1>10, <1>12, <2>1 DEF TaskInv
<1>14. MapInv(c)'
  <2>1. PskOf(c)' = PskOf(c) /\ EpochOf(c)' = EpochOf(c)
    BY <1>1, SameHash
  <2> QED
    BY <1>1, <1>2, <1>7, <1>8, <2>1 DEF ConnInv, MapInv, serverVars
<1>15. \A d \in Conns \ {c} : SameConn(d)
  BY <1>1, <1>7 DEF IInv, TypeOK, SameConn, serverVars
<1> QED
  BY <1>1, <1>2, <1>11, <1>13, <1>14, <1>15, QuietTaskFrame DEF serverVars

\* It takes any record for the noop request that it is.
LEMMA ReadNoopRequestOK ==
  ASSUME IInv, NEW c \in Conns, ReadNoopRequest(c)
  PROVE  IInv'
<1>1. /\ task[c] = "noop" /\ UpHasNext(c)
      /\ upRead' = [upRead EXCEPT ![c] = @ + 1]
      /\ UNCHANGED <<callVars, clientVars, drawn, up, down, downRead, broken, torn,
                     serverVars, thash>>
  BY DEF ReadNoopRequest, TakeUp, ReadUp
<1>2. ConnInv(c) /\ Progress(c, 4, 4, 2) /\ FinishUp(c) /\ Running(c)
  BY <1>1 DEF IInv, ConnInv, TaskInv, Running
<1>3. upRead'[c] = 3 /\ upRead' \in [Conns -> Nat]
  BY <1>1, <1>2 DEF IInv, TypeOK, Progress
<1>4. UpNext(c) = up[c][3] /\ 3 \in 3..Len(up[c])
  <2>1. up[c] \in Seq(Records)
    BY DEF IInv, TypeOK
  <2> QED
    BY <1>1, <1>2, <2>1 DEF UpHasNext, UpNext, Progress
<1>5. UpNext(c) = Seal(NoopRequest, AppKeyOf(c).client, 2)
  BY <1>2, <1>4 DEF FinishUp
<1>6. AppKeyOf(c).client # None
  BY <1>2, DerivedTypes, NoneAssumption DEF IInv, Progress
<1>7. /\ Opens(UpNext(c), AppKeyOf(c).client, upRead[c])
      /\ UpNext(c).body.msg = "noopRequest"
  <2>1. Opens(UpNext(c), AppKeyOf(c).client, upRead[c])
    BY <1>2, <1>5, <1>6 DEF Opens, Seal, Progress
  <2>2. UpNext(c).body = NoopRequest
    BY <1>5 DEF Seal
  <2> QED
    BY <2>1, <2>2 DEF NoopRequest, Message
<1>8. task' = [task EXCEPT ![c] = "noopReply"]
  BY <1>7 DEF ReadNoopRequest, Reach
<1>9. task'[c] = "noopReply"
  BY <1>8 DEF IInv, TypeOK
<1>10. TypeOK'
  <2>1. task' \in [Conns -> Stages]
    BY <1>8 DEF IInv, TypeOK, Stages
  <2> QED
    BY <1>1, <1>3, <2>1 DEF IInv, TypeOK, callVars, clientVars, drawn, serverVars
<1>11. TaskInv(c)'
  <2>1. Progress(c, 4, 4, 3)'
    BY <1>1, <1>2, <1>3 DEF Progress
  <2>2. FinishUp(c)'
    BY <1>1, <1>2, SameHash DEF FinishUp
  <2> QED
    BY <1>9, <2>1, <2>2 DEF TaskInv
<1>12. MapInv(c)'
  <2>1. PskOf(c)' = PskOf(c) /\ EpochOf(c)' = EpochOf(c)
    BY <1>1, SameHash
  <2> QED
    BY <1>1, <1>2, <1>9, <2>1 DEF ConnInv, MapInv, serverVars
<1>13. \A d \in Conns \ {c} : SameConn(d)
  BY <1>1, <1>8 DEF IInv, TypeOK, SameConn, serverVars
<1> QED
  BY <1>1, <1>2, <1>10, <1>11, <1>12, <1>13, QuietTaskFrame DEF serverVars

\* What a write of a task does to its stream, and to its hash.
LEMMA WriteFacts ==
  ASSUME IInv, NEW c \in Conns, NEW r \in Records, Send(c, r),
         \/ thash' = thash
         \/ \E m \in Messages : thash' = [thash EXCEPT ![c] = Append(@, m)],
         NEW stage \in Stages, Reach(c, stage), UNCHANGED serverVars
  PROVE  /\ TypeOK'
         /\ Grows(c)
         /\ down'[c] = Append(down[c], r)
         /\ Len(down'[c]) = Len(down[c]) + 1
         /\ down'[c][Len(down[c]) + 1] = r
         /\ \A i \in 1..Len(down[c]) : down'[c][i] = down[c][i]
         /\ task'[c] = stage
         /\ \A d \in Conns \ {c} : SameConn(d)
         /\ UNCHANGED <<callVars, clientVars, drawn, up, upRead, downRead, broken,
                        torn, epoch, sessions>>
<1>1. /\ down' = [down EXCEPT ![c] = Append(@, r)]
      /\ task' = [task EXCEPT ![c] = stage]
      /\ UNCHANGED <<callVars, clientVars, drawn, up, upRead, downRead, broken, torn,
                     epoch, sessions>>
  BY DEF Send, Reach, serverVars
<1>2. down[c] \in Seq(Records)
  BY DEF IInv, TypeOK
<1>3. /\ down'[c] = Append(down[c], r)
      /\ down'[c] \in Seq(Records)
      /\ Len(down'[c]) = Len(down[c]) + 1
      /\ down'[c][Len(down[c]) + 1] = r
      /\ \A i \in 1..Len(down[c]) : down'[c][i] = down[c][i]
  <2>1. down'[c] = Append(down[c], r)
    BY <1>1 DEF IInv, TypeOK
  <2> QED
    BY <1>2, <2>1, Appended
<1>4. thash' \in [Conns -> Transcripts]
  <2>1. thash[c] \in Seq(Messages)
    BY DEF IInv, TypeOK, Transcripts
  <2>2. ASSUME NEW m \in Messages, thash' = [thash EXCEPT ![c] = Append(@, m)]
        PROVE  thash' \in [Conns -> Transcripts]
    <3>1. Append(thash[c], m) \in Transcripts
      BY <2>1, <2>2, Appended DEF Transcripts
    <3> QED
      BY <2>2, <3>1 DEF IInv, TypeOK
  <2> QED
    BY <2>2 DEF IInv, TypeOK
<1>5. TypeOK'
  <2>1. task' \in [Conns -> Stages]
    BY <1>1 DEF IInv, TypeOK
  <2>2. down' \in [Conns -> Seq(Records)]
    BY <1>1, <1>3 DEF IInv, TypeOK
  <2> QED
    BY <1>1, <1>4, <2>1, <2>2 DEF IInv, TypeOK, callVars, clientVars, drawn
<1>6. Grows(c)
  <2>1. thash'[c] = thash[c] \/ \E m \in Messages : thash'[c] = Append(thash[c], m)
    BY DEF IInv, TypeOK
  <2> QED
    BY <1>3, <2>1 DEF Grows
<1>7. \A d \in Conns \ {c} : SameConn(d)
  BY <1>1 DEF IInv, TypeOK, SameConn
<1>8. task'[c] = stage
  BY <1>1 DEF IInv, TypeOK
<1> QED
  BY <1>1, <1>3, <1>5, <1>6, <1>7, <1>8

\* The server's hello bears the number of the connection and the epoch.
LEMMA SendServerHelloOK ==
  ASSUME IInv, NEW c \in Conns, SendServerHello(c)
  PROVE  IInv'
<1>1. PICK m : m = ServerHello(c, epoch)
  OBVIOUS
<1>2. /\ task[c] = "serverHello" /\ Send(c, Clear(m)) /\ Reach(c, "signature")
      /\ thash' = [thash EXCEPT ![c] = Append(@, m)]
      /\ UNCHANGED serverVars
  BY <1>1 DEF SendServerHello
<1>3. ConnInv(c) /\ Progress(c, 1, 0, 1) /\ Running(c)
  BY <1>2 DEF IInv, ConnInv, TaskInv, Running
<1>4. m \in Messages /\ m.ref = epoch /\ epoch \in Nat /\ epoch >= 1
      /\ Clear(m) \in Records
  <2>1. c \in Nat /\ epoch \in Nat /\ epoch >= 1
    BY LongLinkAssumption DEF Conns, IInv, TypeOK, Epochs
  <2>2. m \in Messages /\ m.ref = epoch
    BY <1>1, <2>1, MessageTypes
  <2> QED
    BY <2>1, <2>2 DEF Clear, Records
<1>5. /\ TypeOK' /\ Grows(c) /\ Len(down'[c]) = 1 /\ down'[c][1] = Clear(m)
      /\ task'[c] = "signature" /\ \A d \in Conns \ {c} : SameConn(d)
      /\ UNCHANGED <<callVars, clientVars, drawn, up, upRead, downRead, broken,
                     torn, epoch, sessions>>
  <2>1. "signature" \in Stages
    BY DEF Stages
  <2>2. Len(down[c]) = 0
    BY <1>3 DEF Progress
  <2>3. /\ TypeOK' /\ Grows(c) /\ Len(down'[c]) = Len(down[c]) + 1
        /\ down'[c][Len(down[c]) + 1] = Clear(m)
        /\ \A i \in 1..Len(down[c]) : down'[c][i] = down[c][i]
        /\ task'[c] = "signature" /\ \A d \in Conns \ {c} : SameConn(d)
        /\ UNCHANGED <<callVars, clientVars, drawn, up, upRead, downRead, broken,
                       torn, epoch, sessions>>
    BY <1>2, <1>4, <2>1, WriteFacts
  <2> QED
    BY <2>2, <2>3
<1>6. /\ Len(thash'[c]) = 2 /\ thash'[c][1] = thash[c][1] /\ thash'[c][2] = m
  <2>1. thash[c] \in Seq(Messages) /\ Len(thash[c]) = 1
    BY <1>3, HashTypes DEF IInv, Progress
  <2>2. thash'[c] = Append(thash[c], m)
    BY <1>2 DEF IInv, TypeOK
  <2> QED
    BY <1>4, <2>1, <2>2, Appended
<1>7. EpochOf(c)' = epoch
  BY <1>4, <1>6 DEF EpochOf
<1>8. HashInv(c)'
  <2>1. up[c] # <<>> /\ up[c][1].key = None /\ up[c][1].body = thash[c][1]
    BY <1>3 DEF ConnInv, HashInv, Progress
  <2> QED
    BY <1>1, <1>4, <1>5, <1>6, <1>7, <2>1 DEF HashInv
<1>9. DownInv(c)'
  <2>1. downRead[c] <= 0 /\ downRead[c] \in 0..5
    BY <1>3 DEF ConnInv, DownInv, Progress, IInv, TypeOK
  <2>2. downRead[c] <= 1
    BY <2>1
  <2> QED
    BY <1>5, <1>6, <2>2 DEF DownInv
<1>10. TaskInv(c)'
  BY <1>3, <1>5, <1>6 DEF TaskInv, Progress
<1>11. MapInv(c)'
  BY <1>5 DEF MapInv
<1> QED
  BY <1>3, <1>5, <1>8, <1>9, <1>10, <1>11, TaskFrame

\* The signature is the second record, under the traffic key.
LEMMA SendSignatureOK ==
  ASSUME IInv, NEW c \in Conns, SendSignature(c)
  PROVE  IInv'
<1>1. PICK m, r : /\ m = Signature(c, epoch)
                  /\ r = Seal(m, TrafficKeyOf(c).server, 1)
  OBVIOUS
<1>2. ConnInv(c) /\ Progress(c, 2, 1, 1) /\ Running(c) /\ task[c] = "signature"
  BY DEF SendSignature, IInv, ConnInv, TaskInv, Running
<1>3. /\ Send(c, r) /\ Reach(c, "ticket")
      /\ thash' = [thash EXCEPT ![c] = Append(@, m)]
      /\ UNCHANGED serverVars
  BY <1>1, <1>2 DEF SendSignature, SendSealed, Progress
<1>4. m \in Messages /\ r \in Records
  <2>1. c \in Nat /\ epoch \in Nat
    BY LongLinkAssumption DEF Conns, IInv, TypeOK, Epochs
  <2>2. m \in Messages
    BY <1>1, <2>1, MessageTypes
  <2>3. TrafficKeyOf(c).server \in Halves
    <3>1. Len(thash[c]) >= 2
      BY <1>2 DEF Progress
    <3> QED
      BY <3>1, DerivedTypes DEF IInv
  <2> QED
    BY <1>1, <2>2, <2>3 DEF Seal, Records
<1>5. /\ TypeOK' /\ Grows(c) /\ Len(down'[c]) = 2
      /\ down'[c][1] = down[c][1] /\ down'[c][2] = r
      /\ task'[c] = "ticket" /\ \A d \in Conns \ {c} : SameConn(d)
      /\ UNCHANGED <<callVars, clientVars, drawn, up, upRead, downRead, broken,
                     torn, epoch, sessions>>
  <2>1. "ticket" \in Stages
    BY DEF Stages
  <2>2. Len(down[c]) = 1
    BY <1>2 DEF Progress
  <2>3. /\ TypeOK' /\ Grows(c) /\ Len(down'[c]) = Len(down[c]) + 1
        /\ down'[c][Len(down[c]) + 1] = r
        /\ \A i \in 1..Len(down[c]) : down'[c][i] = down[c][i]
        /\ task'[c] = "ticket" /\ \A d \in Conns \ {c} : SameConn(d)
        /\ UNCHANGED <<callVars, clientVars, drawn, up, upRead, downRead, broken,
                       torn, epoch, sessions>>
    BY <1>3, <1>4, <2>1, WriteFacts
  <2> QED
    BY <2>2, <2>3
<1>6. /\ Len(thash'[c]) = 3 /\ thash'[c][1] = thash[c][1]
      /\ thash'[c][2] = thash[c][2] /\ thash'[c][3] = m
  <2>1. thash[c] \in Seq(Messages) /\ Len(thash[c]) = 2
    BY <1>2, HashTypes DEF IInv, Progress
  <2>2. thash'[c] = Append(thash[c], m)
    BY <1>3 DEF IInv, TypeOK
  <2> QED
    BY <1>4, <2>1, <2>2, Appended
<1>7. EpochOf(c)' = EpochOf(c) /\ TrafficKeyOf(c)' = TrafficKeyOf(c)
  <2>1. Len(thash[c]) >= 2 /\ Len(thash'[c]) <= 4
    BY <1>2, <1>6 DEF Progress
  <2> QED
    BY <1>5, <2>1, DerivedStay DEF IInv
<1>8. HashInv(c)'
  <2>1. /\ up[c] # <<>> /\ up[c][1].key = None /\ up[c][1].body = thash[c][1]
        /\ thash[c][2] = ServerHello(c, EpochOf(c))
        /\ EpochOf(c) \in 1..epoch /\ EpochOf(c) = epoch
    BY <1>2 DEF ConnInv, HashInv, Progress
  <2> QED
    BY <1>5, <1>6, <1>7, <2>1 DEF HashInv
<1>9. DownInv(c)'
  <2>1. downRead[c] <= 1 /\ downRead[c] \in 0..5 /\ down[c][1] = Clear(thash[c][2])
    BY <1>2 DEF ConnInv, DownInv, Progress, IInv, TypeOK
  <2>2. downRead[c] <= 2
    BY <2>1
  <2> QED
    BY <1>1, <1>5, <1>6, <1>7, <2>1, <2>2 DEF DownInv
<1>10. TaskInv(c)'
  BY <1>2, <1>5, <1>6 DEF TaskInv, Progress
<1>11. MapInv(c)'
  BY <1>5 DEF MapInv
<1> QED
  BY <1>2, <1>5, <1>8, <1>9, <1>10, <1>11, TaskFrame

\* The ticket is the third.
LEMMA SendTicketOK ==
  ASSUME IInv, NEW c \in Conns, SendTicket(c)
  PROVE  IInv'
<1>1. PICK m, r : /\ m = NewSessionTicket(c)
                  /\ r = Seal(m, TrafficKeyOf(c).server, 2)
  OBVIOUS
<1>2. ConnInv(c) /\ Progress(c, 3, 2, 1) /\ Running(c) /\ task[c] = "ticket"
  BY DEF SendTicket, IInv, ConnInv, TaskInv, Running
<1>3. /\ Send(c, r) /\ Reach(c, "store")
      /\ thash' = [thash EXCEPT ![c] = Append(@, m)]
      /\ UNCHANGED serverVars
  BY <1>1, <1>2 DEF SendTicket, SendSealed, Progress
<1>4. m \in Messages /\ r \in Records
  <2>1. c \in Nat
    BY LongLinkAssumption DEF Conns
  <2>2. m \in Messages
    BY <1>1, <2>1, MessageTypes
  <2>3. TrafficKeyOf(c).server \in Halves
    <3>1. Len(thash[c]) >= 2
      BY <1>2 DEF Progress
    <3> QED
      BY <3>1, DerivedTypes DEF IInv
  <2> QED
    BY <1>1, <2>2, <2>3 DEF Seal, Records
<1>5. /\ TypeOK' /\ Grows(c) /\ Len(down'[c]) = 3
      /\ down'[c][1] = down[c][1] /\ down'[c][2] = down[c][2] /\ down'[c][3] = r
      /\ task'[c] = "store" /\ \A d \in Conns \ {c} : SameConn(d)
      /\ UNCHANGED <<callVars, clientVars, drawn, up, upRead, downRead, broken,
                     torn, epoch, sessions>>
  <2>1. "store" \in Stages
    BY DEF Stages
  <2>2. Len(down[c]) = 2
    BY <1>2 DEF Progress
  <2>3. /\ TypeOK' /\ Grows(c) /\ Len(down'[c]) = Len(down[c]) + 1
        /\ down'[c][Len(down[c]) + 1] = r
        /\ \A i \in 1..Len(down[c]) : down'[c][i] = down[c][i]
        /\ task'[c] = "store" /\ \A d \in Conns \ {c} : SameConn(d)
        /\ UNCHANGED <<callVars, clientVars, drawn, up, upRead, downRead, broken,
                       torn, epoch, sessions>>
    BY <1>3, <1>4, <2>1, WriteFacts
  <2> QED
    BY <2>2, <2>3
<1>6. /\ Len(thash'[c]) = 4 /\ thash'[c][1] = thash[c][1]
      /\ thash'[c][2] = thash[c][2] /\ thash'[c][3] = thash[c][3]
      /\ thash'[c][4] = m
  <2>1. thash[c] \in Seq(Messages) /\ Len(thash[c]) = 3
    BY <1>2, HashTypes DEF IInv, Progress
  <2>2. thash'[c] = Append(thash[c], m)
    BY <1>3 DEF IInv, TypeOK
  <2> QED
    BY <1>4, <2>1, <2>2, Appended
<1>7. EpochOf(c)' = EpochOf(c) /\ TrafficKeyOf(c)' = TrafficKeyOf(c)
  <2>1. Len(thash[c]) >= 2 /\ Len(thash'[c]) <= 4
    BY <1>2, <1>6 DEF Progress
  <2> QED
    BY <1>5, <2>1, DerivedStay DEF IInv
<1>8. HashInv(c)'
  <2>1. /\ up[c] # <<>> /\ up[c][1].key = None /\ up[c][1].body = thash[c][1]
        /\ thash[c][2] = ServerHello(c, EpochOf(c))
        /\ EpochOf(c) \in 1..epoch /\ EpochOf(c) = epoch
    BY <1>2 DEF ConnInv, HashInv, Progress
  <2> QED
    BY <1>1, <1>5, <1>6, <1>7, <2>1 DEF HashInv
<1>9. DownInv(c)'
  <2>1. /\ downRead[c] <= 2 /\ downRead[c] \in 0..5
        /\ down[c][1] = Clear(thash[c][2])
        /\ down[c][2] = Seal(thash[c][3], TrafficKeyOf(c).server, 1)
    BY <1>2 DEF ConnInv, DownInv, Progress, IInv, TypeOK
  <2>2. downRead[c] <= 3
    BY <2>1
  <2> QED
    BY <1>1, <1>5, <1>6, <1>7, <2>1, <2>2 DEF DownInv
<1>10. TaskInv(c)'
  BY <1>2, <1>5, <1>6 DEF TaskInv, Progress
<1>11. MapInv(c)'
  BY <1>5 DEF MapInv
<1> QED
  BY <1>2, <1>5, <1>8, <1>9, <1>10, <1>11, TaskFrame

\* ServerFinish is the fourth record, and the session is in the map by then.
LEMMA SendServerFinishOK ==
  ASSUME IInv, NEW c \in Conns, SendServerFinish(c)
  PROVE  IInv'
<1>1. PICK r : r = Seal(ServerFinishOf(c), TrafficKeyOf(c).server, 3)
  OBVIOUS
<1>2. /\ ConnInv(c) /\ Progress(c, 4, 3, 1) /\ Running(c)
      /\ task[c] = "serverFinish"
  BY DEF SendServerFinish, IInv, ConnInv, TaskInv, Running
<1>3. /\ Send(c, r) /\ Reach(c, "clientFinish")
      /\ UNCHANGED <<serverVars, thash>>
  BY <1>1, <1>2 DEF SendServerFinish, SendSealed, ServerFinishOf, Progress
<1>4. r \in Records
  <2>1. Len(thash[c]) >= 2
    BY <1>2 DEF Progress
  <2>2. TrafficKeyOf(c).server \in Halves /\ SecretOf(c) \in Secrets
        /\ thash[c] \in Transcripts
    BY <2>1, DerivedTypes DEF IInv, TypeOK, Secrets
  <2>3. ServerFinishOf(c) \in Finishes
    BY <2>2, FinishTypes DEF ServerFinishOf
  <2> QED
    BY <1>1, <2>2, <2>3, SentTypes
<1>5. /\ TypeOK' /\ Grows(c) /\ Len(down'[c]) = 4
      /\ down'[c][1] = down[c][1] /\ down'[c][2] = down[c][2]
      /\ down'[c][3] = down[c][3] /\ down'[c][4] = r
      /\ task'[c] = "clientFinish" /\ \A d \in Conns \ {c} : SameConn(d)
      /\ UNCHANGED <<callVars, clientVars, drawn, up, upRead, downRead, broken,
                     torn, epoch, sessions>>
  <2>1. "clientFinish" \in Stages
    BY DEF Stages
  <2>2. Len(down[c]) = 3
    BY <1>2 DEF Progress
  <2>3. /\ TypeOK' /\ Grows(c) /\ Len(down'[c]) = Len(down[c]) + 1
        /\ down'[c][Len(down[c]) + 1] = r
        /\ \A i \in 1..Len(down[c]) : down'[c][i] = down[c][i]
        /\ task'[c] = "clientFinish" /\ \A d \in Conns \ {c} : SameConn(d)
        /\ UNCHANGED <<callVars, clientVars, drawn, up, upRead, downRead, broken,
                       torn, epoch, sessions>>
    BY <1>3, <1>4, <2>1, WriteFacts
  <2> QED
    BY <2>2, <2>3
<1>6. /\ EpochOf(c)' = EpochOf(c) /\ TrafficKeyOf(c)' = TrafficKeyOf(c)
      /\ ServerFinishOf(c)' = ServerFinishOf(c) /\ PskOf(c)' = PskOf(c)
  BY <1>3, SameHash
<1>7. Len(thash[c]) = 4 /\ thash' = thash
  BY <1>2, <1>3 DEF Progress
<1>8. HashInv(c)' /\ EpochOf(c) = epoch
  <2>1. HashInv(c)'
    BY <1>2, <1>5, <1>6, <1>7 DEF ConnInv, HashInv
  <2>2. EpochOf(c) = epoch
    BY <1>2, <1>7 DEF ConnInv, HashInv
  <2> QED
    BY <2>1, <2>2
<1>9. DownInv(c)'
  <2>1. /\ downRead[c] <= 3 /\ downRead[c] \in 0..5
        /\ down[c][1] = Clear(thash[c][2])
        /\ down[c][2] = Seal(thash[c][3], TrafficKeyOf(c).server, 1)
        /\ down[c][3] = Seal(thash[c][4], TrafficKeyOf(c).server, 2)
    BY <1>2 DEF ConnInv, DownInv, Progress, IInv, TypeOK
  <2>2. downRead[c] <= 4
    BY <2>1
  <2> QED
    BY <1>1, <1>5, <1>6, <1>7, <2>1, <2>2 DEF DownInv
<1>10. TaskInv(c)'
  BY <1>2, <1>5, <1>7 DEF TaskInv, Progress
<1>11. MapInv(c)'
  <2>1. sessions[c] = PskOf(c)
    BY <1>2 DEF ConnInv, MapInv
  <2> QED
    BY <1>5, <1>6, <1>8, <2>1 DEF MapInv
<1> QED
  BY <1>2, <1>5, <1>8, <1>9, <1>10, <1>11, TaskFrame

\* The answer to a noop is the fifth, and the last.
LEMMA SendNoopResponseOK ==
  ASSUME IInv, NEW c \in Conns, SendNoopResponse(c)
  PROVE  IInv'
<1>1. PICK r : r = Seal(NoopResponse, AppKeyOf(c).server, 4)
  OBVIOUS
<1>2. /\ ConnInv(c) /\ Progress(c, 4, 4, 3) /\ FinishUp(c) /\ Running(c)
      /\ task[c] = "noopReply"
  BY DEF SendNoopResponse, IInv, ConnInv, TaskInv, Running
<1>3. /\ Send(c, r) /\ Reach(c, "done")
      /\ UNCHANGED <<serverVars, thash>>
  BY <1>1, <1>2 DEF SendNoopResponse, SendSealed, NoopResponse, Progress
<1>4. r \in Records
  <2>1. AppKeyOf(c).server \in Halves
    BY <1>2, DerivedTypes DEF IInv, Progress
  <2>2. NoopResponse \in Messages
    BY MessageTypes
  <2> QED
    BY <1>1, <2>1, <2>2, SentTypes
<1>5. /\ TypeOK' /\ Grows(c) /\ Len(down'[c]) = 5
      /\ down'[c][1] = down[c][1] /\ down'[c][2] = down[c][2]
      /\ down'[c][3] = down[c][3] /\ down'[c][4] = down[c][4] /\ down'[c][5] = r
      /\ task'[c] = "done" /\ \A d \in Conns \ {c} : SameConn(d)
      /\ UNCHANGED <<callVars, clientVars, drawn, up, upRead, downRead, broken,
                     torn, epoch, sessions>>
  <2>1. "done" \in Stages
    BY DEF Stages
  <2>2. Len(down[c]) = 4
    BY <1>2 DEF Progress
  <2>3. /\ TypeOK' /\ Grows(c) /\ Len(down'[c]) = Len(down[c]) + 1
        /\ down'[c][Len(down[c]) + 1] = r
        /\ \A i \in 1..Len(down[c]) : down'[c][i] = down[c][i]
        /\ task'[c] = "done" /\ \A d \in Conns \ {c} : SameConn(d)
        /\ UNCHANGED <<callVars, clientVars, drawn, up, upRead, downRead, broken,
                       torn, epoch, sessions>>
    BY <1>3, <1>4, <2>1, WriteFacts
  <2> QED
    BY <2>2, <2>3
<1>6. /\ EpochOf(c)' = EpochOf(c) /\ TrafficKeyOf(c)' = TrafficKeyOf(c)
      /\ ServerFinishOf(c)' = ServerFinishOf(c) /\ PskOf(c)' = PskOf(c)
      /\ AppKeyOf(c)' = AppKeyOf(c)
  BY <1>3, SameHash
<1>7. Len(thash[c]) = 4 /\ thash' = thash
  BY <1>2, <1>3 DEF Progress
<1>8. HashInv(c)'
  BY <1>2, <1>5, <1>6, <1>7 DEF ConnInv, HashInv, Running
<1>9. DownInv(c)'
  <2>1. /\ downRead[c] <= 4 /\ downRead[c] \in 0..5
        /\ down[c][1] = Clear(thash[c][2])
        /\ down[c][2] = Seal(thash[c][3], TrafficKeyOf(c).server, 1)
        /\ down[c][3] = Seal(thash[c][4], TrafficKeyOf(c).server, 2)
        /\ down[c][4] = Seal(ServerFinishOf(c), TrafficKeyOf(c).server, 3)
    BY <1>2 DEF ConnInv, DownInv, Progress, IInv, TypeOK
  <2>2. downRead[c] <= 5
    BY <2>1
  <2> QED
    BY <1>1, <1>5, <1>6, <1>7, <2>1, <2>2 DEF DownInv
<1>10. TaskInv(c)'
  <2>1. FinishUp(c)'
    <3>1. Len(thash'[c]) <= 4
      BY <1>8 DEF HashInv
    <3> QED
      BY <1>2, <1>5, <3>1, UpStable DEF IInv, drawn
  <2> QED
    BY <1>2, <1>5, <1>7, <2>1 DEF TaskInv, Progress
<1>11. MapInv(c)'
  <2>1. sessions[c] = IF EpochOf(c) = epoch THEN PskOf(c) ELSE None
    BY <1>2 DEF ConnInv, MapInv, Progress
  <2> QED
    BY <1>5, <1>6, <2>1 DEF MapInv
<1> QED
  BY <1>2, <1>5, <1>8, <1>9, <1>10, <1>11, TaskFrame

\* A connection that is cut keeps what it carries.
LEMMA BreakOK ==
  ASSUME IInv, NEW c \in Conns, Break(c)
  PROVE  IInv'
<1>1. /\ broken' = broken \cup {c}
      /\ UNCHANGED <<callVars, clientVars, drawn, up, down, upRead, downRead, torn,
                     serverVars, taskVars>>
  BY DEF Break
<1>2. TypeOK'
  BY <1>1 DEF IInv, TypeOK, callVars, clientVars, drawn, serverVars, taskVars
<1>3. \A d \in Conns : SameConn(d)
  BY <1>1 DEF SameConn, serverVars, taskVars
<1>4. Counts /\ opened' = opened /\ epoch' = epoch
  BY <1>1 DEF Counts, IInv, TypeOK, drawn, serverVars
<1>5. ConnInv(c)'
  BY <1>2, <1>3, <1>4, ConnStable DEF IInv
<1>6. Grows(c)
  BY <1>3 DEF Grows, SameConn
<1> QED
  BY <1>1, <1>2, <1>3, <1>5, <1>6, ServerFrame DEF serverVars

\* A server process that dies takes every task and every session with it.
LEMMA ServerRestartOK ==
  ASSUME IInv, ServerRestart
  PROVE  IInv'
<1>1. /\ epoch < MaxEpochs /\ epoch' = epoch + 1
      /\ sessions' = [t \in Conns |-> None]
      /\ task' = [c \in Conns |-> IF Running(c) THEN "failed" ELSE task[c]]
      /\ UNCHANGED <<callVars, clientVars, drawn, streams, thash>>
  BY DEF ServerRestart
<1>2. TypeOK'
  <2>1. epoch' \in Epochs
    BY <1>1, LongLinkAssumption DEF IInv, TypeOK, Epochs
  <2>2. task' \in [Conns -> Stages]
    BY <1>1 DEF IInv, TypeOK, Stages
  <2> QED
    BY <1>1, <2>1, <2>2 DEF IInv, TypeOK, callVars, clientVars, drawn, streams
<1>3. Counts
  BY <1>1 DEF Counts, IInv, TypeOK, drawn
<1>4. ASSUME NEW c \in Conns PROVE ConnInv(c)'
  <2>1. /\ SecretOf(c)' = SecretOf(c) /\ TrafficKeyOf(c)' = TrafficKeyOf(c)
        /\ PskOf(c)' = PskOf(c) /\ AppKeyOf(c)' = AppKeyOf(c)
        /\ ServerFinishOf(c)' = ServerFinishOf(c) /\ EpochOf(c)' = EpochOf(c)
    BY <1>1, SameHash
  <2>2. ConnInv(c) /\ epoch \in Nat
    BY DEF IInv, TypeOK, Epochs
  <2>3. task'[c] = IF Running(c) THEN "failed" ELSE task[c]
    BY <1>1
  <2>4. ~ Running(c)'
    BY <2>3 DEF Running
  <2>5. (c > opened)' => Unopened(c)'
    BY <1>1, <2>2, <2>3 DEF ConnInv, Unopened, Running, drawn, streams
  <2>6. HashInv(c)'
    <3>1. ASSUME NEW n \in 1..epoch PROVE n \in 1..(epoch + 1)
      BY <2>2
    <3> QED
      BY <1>1, <2>1, <2>2, <2>4, <3>1 DEF ConnInv, HashInv, streams
  <2>7. DownInv(c)'
    BY <1>1, <2>1, <2>2 DEF ConnInv, DownInv, streams
  <2>8. Grows(c) /\ Len(thash'[c]) <= 4
    BY <1>1, <2>2 DEF Grows, ConnInv, HashInv, streams
  <2>9. /\ HelloUp(c) => HelloUp(c)'
        /\ FinishUp(c) => FinishUp(c)'
        /\ NoopUp(c) => NoopUp(c)'
        /\ Reused(c)' = Reused(c)
    BY <1>1, <1>2, <2>8, UpStable DEF IInv, drawn, streams
  <2>10. UpInv(c)'
    BY <2>2, <2>9 DEF ConnInv, UpInv
  <2>11. TaskInv(c)'
    <3>1. CASE Running(c)
      <4>1. Len(down[c]) <= 4 /\ task'[c] = "failed"
        BY <2>2, <2>3, <3>1, RunningNotDone DEF ConnInv, IInv
      <4> QED
        BY <1>1, <4>1 DEF TaskInv, streams
    <3>2. CASE ~ Running(c)
      <4>1. task'[c] = task[c] /\ HellosOn(c)' = HellosOn(c)
        BY <1>1, <2>3, <3>2 DEF HellosOn, streams
      <4> QED
        BY <1>1, <2>2, <2>9, <4>1 DEF ConnInv, TaskInv, Progress, streams
    <3> QED
      BY <3>1, <3>2
  <2>12. MapInv(c)'
    <3>1. task'[c] # "serverFinish"
      BY <2>4 DEF Running
    <3>2. ASSUME Len(down[c]) >= 4 PROVE EpochOf(c) # epoch + 1
      <4>1. Len(down[c]) \in Nat
        BY DEF IInv, TypeOK
      <4>2. \A n \in Nat : n >= 4 => n >= 1
        OBVIOUS
      <4>3. Len(thash[c]) >= 2
        BY <2>2, <3>2, <4>1, <4>2 DEF ConnInv, DownInv
      <4>4. EpochOf(c) \in 1..epoch
        BY <2>2, <4>3 DEF ConnInv, HashInv
      <4> QED
        BY <2>2, <4>4
    <3> QED
      BY <1>1, <2>1, <3>1, <3>2 DEF MapInv, streams
  <2> QED
    BY <2>5, <2>6, <2>7, <2>10, <2>11, <2>12 DEF ConnInv
<1>5. ASSUME NEW k \in Clients PROVE ClientInv(k)'
  <2>1. SameClient(k)
    BY <1>1 DEF SameClient, callVars, clientVars
  <2>2. \A c \in Conns : Len(thash[c]) <= 4
    BY DEF IInv, ConnInv, HashInv
  <2>3. Undisturbed(k)
    BY <1>1, <2>1, <2>2 DEF Undisturbed, Grows, streams
  <2> QED
    BY <1>1, <1>2, <1>3, <2>3, ClientStable DEF IInv, streams
<1>6. Owned'
  BY <1>1 DEF IInv, Owned, Owns, clientVars
<1> QED
  BY <1>2, <1>4, <1>5, <1>6 DEF IInv

-----------------------------------------------------------------------------
(* Steps of a client that open a connection or write to it.                 *)

\* The client finish of a connection is sealed, hence no hello.
LEMMA FinishIsSealed ==
  ASSUME TypeOK, NEW c \in Conns, FinishUp(c)
  PROVE  ~ HelloUp(c) /\ up[c] # <<>> /\ up[c][2].key # None /\ 2 \in DOMAIN up[c]
<1>1. up[c] \in Seq(Records) /\ Len(up[c]) \in Nat /\ Len(up[c]) >= 2
  BY DEF FinishUp, TypeOK
<1>2. 2 \in DOMAIN up[c] /\ up[c] # <<>>
  <2>1. \A n \in Nat : n >= 2 => 2 \in 1..n /\ n # 0
    OBVIOUS
  <2>2. DOMAIN up[c] = 1..Len(up[c])
    BY <1>1
  <2> QED
    BY <1>1, <2>1, <2>2
<1>3. up[c][2].key # None
  <2>1. Len(thash[c]) = 4 /\ up[c][2].key = TrafficKeyOf(c).client
    BY DEF FinishUp, Seal
  <2>2. Len(thash[c]) >= 2
    BY <2>1
  <2> QED
    BY <2>1, <2>2, DerivedTypes, NoneAssumption
<1> QED
  BY <1>2, <1>3 DEF HelloUp

\* On a connection whose clients have written hellos alone, or noops alone, no
\* task has come to a noop.
LEMMA NoFinishThere ==
  ASSUME IInv, NEW c \in Conns, HelloUp(c) \/ NoopUp(c)
  PROVE  ~ FinishUp(c)
<1>1. SUFFICES ASSUME FinishUp(c), NoopUp(c) PROVE FALSE
  BY FinishIsSealed DEF IInv
<1>2. up[c][1].key = None
  BY <1>1 DEF FinishUp, IInv, ConnInv, HashInv
<1>3. up[c] # <<>> /\ up[c] \in Seq(Records)
  BY <1>1, FinishIsSealed DEF IInv, TypeOK
<1>4. 1 \in DOMAIN up[c]
  BY <1>3
<1> QED
  BY <1>1, <1>2, <1>4 DEF NoopUp

\* A connection that a client opens, or writes another record to.
LEMMA ConnUp ==
  ASSUME IInv, TypeOK', NEW c \in Conns, epoch' = epoch,
         \A i \in DOMAIN up[c] : i \in DOMAIN up'[c] /\ up'[c][i] = up[c][i],
         up[c] # <<>> => up'[c] # <<>>,
         thash'[c] = thash[c], down'[c] = down[c], upRead'[c] = upRead[c],
         downRead'[c] = downRead[c], sessions'[c] = sessions[c],
         task'[c] = task[c] \/ (task[c] = "none" /\ task'[c] = "hello"),
         c <= opened',
         UpInv(c)', FinishUp(c) => FinishUp(c)',
         task[c] = "rejected" => Reused(c)' \/ (1 \notin HellosOn(c))'
  PROVE  ConnInv(c)'
<1>1. /\ TrafficKeyOf(c)' = TrafficKeyOf(c) /\ AppKeyOf(c)' = AppKeyOf(c)
      /\ ServerFinishOf(c)' = ServerFinishOf(c) /\ EpochOf(c)' = EpochOf(c)
      /\ PskOf(c)' = PskOf(c)
  BY SameHash
<1>2. ConnInv(c)
  BY DEF IInv
<1>3. ~ (c > opened)'
  BY LongLinkAssumption DEF TypeOK, Conns
<1>4. task[c] = "none" => Progress(c, 0, 0, 0)
  BY <1>2 DEF ConnInv, TaskInv
<1>5. HashInv(c)'
  <2>1. Len(thash[c]) >= 1 => up'[c] # <<>> /\ up'[c][1] = up[c][1]
    <3>1. up[c] # <<>> => 1 \in DOMAIN up[c]
      <4>1. up[c] \in Seq(Records)
        BY DEF IInv, TypeOK
      <4> QED
        BY <4>1
    <3> QED
      BY <1>2, <3>1 DEF ConnInv, HashInv
  <2>2. Len(thash[c]) >= 2 /\ Running(c)' => Running(c)
    BY <1>4 DEF Running, Progress
  <2> QED
    BY <1>1, <1>2, <2>1, <2>2 DEF ConnInv, HashInv
<1>6. DownInv(c)'
  BY <1>1, <1>2 DEF ConnInv, DownInv
<1>7. TaskInv(c)'
  <2>1. CASE task'[c] = task[c]
    BY <1>2, <2>1 DEF ConnInv, TaskInv, Progress
  <2>2. CASE task[c] = "none" /\ task'[c] = "hello"
    BY <1>4, <2>2 DEF TaskInv, Progress
  <2> QED
    BY <2>1, <2>2
<1>8. MapInv(c)'
  BY <1>1, <1>2 DEF ConnInv, MapInv
<1> QED
  BY <1>3, <1>5, <1>6, <1>7, <1>8 DEF ConnInv

\* The connection a client takes up is its own, or nobody's yet.
LEMMA ConnectFacts ==
  ASSUME IInv, NEW k \in Clients, Connect(k), NEW c, c = Link(k)
  PROVE  /\ c \in Conns
         /\ conn' = [conn EXCEPT ![k] = c]
         /\ opened' \in 0..MaxConns /\ opened <= opened'
         /\ c \in 1..opened'
         /\ conn[k] # 0 => conn[k] = c /\ opened' = opened /\ task' = task
         /\ conn[k] = 0 =>
              Unopened(c) /\ task' = [task EXCEPT ![c] = "hello"] /\ Progress(c, 0, 0, 0)
         /\ \A j \in Clients \ {k} : ~ Owns(j, c)
         /\ \A d \in Conns \ {c} : d > opened => d > opened'
         /\ task' \in [Conns -> Stages]
<1>1. /\ c \in Conns /\ conn' = [conn EXCEPT ![k] = c]
      /\ opened' = IF conn[k] = 0 THEN opened + 1 ELSE opened
      /\ task' = IF conn[k] = 0 THEN [task EXCEPT ![c] = "hello"] ELSE task
  BY DEF Connect
<1>2. opened \in 0..MaxConns /\ conn[k] \in 0..opened
  BY DEF IInv, TypeOK, ClientInv
<1>3. task' \in [Conns -> Stages]
  BY <1>1 DEF IInv, TypeOK, Stages
<1>4. CASE conn[k] # 0
  <2>1. conn[k] = c
    BY <1>4 DEF Link
  <2>2. \A j \in Clients \ {k} : ~ Owns(j, c)
    BY <1>1, <2>1 DEF IInv, Owned, Owns
  <2>3. c \in 1..opened
    BY <1>2, <1>4, <2>1
  <2> QED
    BY <1>1, <1>2, <1>3, <1>4, <2>1, <2>2, <2>3
<1>5. CASE conn[k] = 0
  <2>1. c = opened + 1 /\ opened' = opened + 1
    BY <1>1, <1>5 DEF Link
  <2>2. c \in Nat /\ c > opened /\ c \in 1..opened' /\ opened' \in 0..MaxConns
    BY <1>1, <1>2, <2>1, LongLinkAssumption DEF Conns
  <2>3. Unopened(c) /\ Progress(c, 0, 0, 0)
    BY <1>1, <2>2 DEF IInv, ConnInv, Unopened, TaskInv
  <2>4. ASSUME NEW j \in Clients \ {k} PROVE ~ Owns(j, c)
    <3>1. conn[j] # c
      <4>1. conn[j] \in 0..opened
        BY <2>4 DEF IInv, ClientInv
      <4> QED
        BY <1>2, <2>1, <4>1
    <3>2. ~ (status[j] = 1 /\ session[j].ticket = c)
      <4>1. SUFFICES ASSUME status[j] = 1, session[j].ticket = c PROVE FALSE
        OBVIOUS
      <4>2. FinishUp(c)
        BY <2>4, <4>1 DEF IInv, ClientInv, Settled
      <4>3. up[c] # <<>>
        BY <1>1, <4>2, FinishIsSealed DEF IInv
      <4> QED
        BY <2>3, <4>3 DEF Unopened
    <3> QED
      BY <3>1, <3>2 DEF Owns
  <2>5. ASSUME NEW d \in Conns \ {c}, d > opened PROVE d > opened'
    BY <1>2, <2>1, <2>5, LongLinkAssumption DEF Conns
  <2> QED
    BY <1>1, <1>2, <1>3, <1>5, <2>1, <2>2, <2>3, <2>4, <2>5
<1> QED
  BY <1>4, <1>5

\* What a write of a client adds to a stream.
LEMMA AppendedUp ==
  ASSUME TypeOK, NEW c \in Conns, NEW r \in Records,
         up' = [up EXCEPT ![c] = Append(@, r)]
  PROVE  /\ up' \in [Conns -> Seq(Records)]
         /\ up'[c] = Append(up[c], r)
         /\ up'[c] # <<>>
         /\ Len(up[c]) \in Nat
         /\ Len(up'[c]) = Len(up[c]) + 1
         /\ DOMAIN up'[c] = 1..Len(up[c]) + 1
         /\ DOMAIN up[c] = 1..Len(up[c])
         /\ up'[c][Len(up[c]) + 1] = r
         /\ \A i \in DOMAIN up[c] : i \in DOMAIN up'[c] /\ up'[c][i] = up[c][i]
         /\ \A d \in Conns \ {c} : up'[d] = up[d]
<1>1. up[c] \in Seq(Records)
  BY DEF TypeOK
<1>2. up'[c] = Append(up[c], r) /\ \A d \in Conns \ {c} : up'[d] = up[d]
  BY DEF TypeOK
<1>3. /\ Append(up[c], r) \in Seq(Records)
      /\ Append(up[c], r) # <<>>
      /\ Len(Append(up[c], r)) = Len(up[c]) + 1
      /\ Append(up[c], r)[Len(up[c]) + 1] = r
      /\ \A i \in 1..Len(up[c]) : Append(up[c], r)[i] = up[c][i]
  BY <1>1, Appended
<1>4. up' \in [Conns -> Seq(Records)]
  BY <1>2, <1>3 DEF TypeOK
<1>5. Len(up[c]) \in Nat /\ DOMAIN up[c] = 1..Len(up[c])
  BY <1>1
<1>6. DOMAIN up'[c] = 1..Len(up[c]) + 1
  BY <1>2, <1>3
<1>7. \A n \in Nat : \A i \in 1..n : i \in 1..n + 1
  OBVIOUS
<1> QED
  BY <1>2, <1>3, <1>4, <1>5, <1>6, <1>7

\* The same of the next state.
LEMMA TwoHellosLater ==
  ASSUME TypeOK', NEW c \in Conns, HelloUp(c)', up'[c] # <<>>, Len(up'[c]) # 1
  PROVE  Reused(c)'
<1>1. up'[c] \in Seq(Records)
  BY DEF TypeOK
<1>2. Len(up'[c]) \in Nat /\ Len(up'[c]) # 0 /\ DOMAIN up'[c] = 1..Len(up'[c])
  BY <1>1
<1>3. 1 \in DOMAIN up'[c] /\ 2 \in DOMAIN up'[c]
  <2>1. ASSUME NEW n \in Nat, n # 0, n # 1
        PROVE  1 \in 1..n /\ 2 \in 1..n
    BY <2>1
  <2> QED
    BY <1>2, <2>1
<1> QED
  BY <1>3 DEF HelloUp, Reused, HellosOn

\* A handshake draws a hello later than those its connection carries.
LEMMA StartHandshakeOK ==
  ASSUME IInv, NEW k \in Clients, StartHandshake(k)
  PROVE  IInv'
<1>1. PICK c, m, h : /\ c = Link(k)
                     /\ m = EcdheHello(hellos + 1)
                     /\ h = <<m>>
  OBVIOUS
<1>2. /\ pc[k] = "idle" /\ status[k] = 0 /\ hellos < MaxHellos /\ Connect(k)
      /\ hellos' = hellos + 1
      /\ pc' = [pc EXCEPT ![k] = "serverHello"] /\ outcome' = outcome
      /\ hasher' = [hasher EXCEPT ![k] = h]
      /\ sseq' = [sseq EXCEPT ![k] = 0]
      /\ cseq' = [cseq EXCEPT ![k] = 1]
      /\ up' = [up EXCEPT ![c] = Append(@, Clear(m))]
      /\ UNCHANGED <<status, session, secret, key, down, upRead, downRead, broken,
                     torn, serverVars, thash>>
  BY <1>1 DEF StartHandshake, DrawHello, NextHello, Goto
<1>3. /\ c \in Conns /\ conn' = [conn EXCEPT ![k] = c]
      /\ opened' \in 0..MaxConns /\ opened <= opened' /\ c \in 1..opened'
      /\ conn[k] # 0 => conn[k] = c /\ opened' = opened /\ task' = task
      /\ conn[k] = 0 =>
           Unopened(c) /\ task' = [task EXCEPT ![c] = "hello"] /\ Progress(c, 0, 0, 0)
      /\ \A j \in Clients \ {k} : ~ Owns(j, c)
      /\ \A d \in Conns \ {c} : d > opened => d > opened'
      /\ task' \in [Conns -> Stages]
  BY <1>1, <1>2, ConnectFacts
<1>4. /\ hellos \in Nat /\ hellos' \in 0..MaxHellos /\ hellos <= hellos'
      /\ m \in Messages /\ m.fresh = hellos'
      /\ Clear(m) \in Records /\ Clear(m).key = None /\ Clear(m).body = m
      /\ h \in Transcripts /\ Len(h) = 1 /\ h[1] = m
  <2>1. hellos \in Nat /\ hellos' \in 0..MaxHellos /\ hellos <= hellos' /\ hellos' \in Nat
    BY <1>2, LongLinkAssumption DEF IInv, TypeOK
  <2>2. m \in Messages /\ m.fresh = hellos'
    BY <1>1, <1>2, <2>1, MessageTypes
  <2>3. Clear(m) \in Records /\ Clear(m).key = None /\ Clear(m).body = m
    BY <2>2 DEF Clear, Records
  <2>4. h \in Transcripts /\ Len(h) = 1 /\ h[1] = m
    BY <1>1, <2>2 DEF Transcripts
  <2> QED
    BY <2>1, <2>2, <2>3, <2>4
<1>5. /\ up' \in [Conns -> Seq(Records)] /\ up'[c] # <<>>
      /\ Len(up[c]) \in Nat /\ Len(up'[c]) = Len(up[c]) + 1
      /\ DOMAIN up'[c] = 1..Len(up[c]) + 1 /\ DOMAIN up[c] = 1..Len(up[c])
      /\ up'[c][Len(up[c]) + 1] = Clear(m)
      /\ \A i \in DOMAIN up[c] : i \in DOMAIN up'[c] /\ up'[c][i] = up[c][i]
      /\ \A d \in Conns \ {c} : up'[d] = up[d]
  BY <1>2, <1>3, <1>4, AppendedUp DEF IInv
<1>6. TypeOK'
  <2>1. Len(h) <= 4
    BY <1>4
  <2>2. /\ pc' \in [Clients -> Places] /\ sseq' \in [Clients -> 0..5]
        /\ cseq' \in [Clients -> 0..MaxSeq + 1]
    BY <1>2, LongLinkAssumption DEF IInv, TypeOK, Places
  <2>3. /\ hasher' \in [Clients -> Transcripts]
        /\ \A j \in Clients : Len(hasher'[j]) <= 4
    BY <1>2, <1>4, <2>1 DEF IInv, TypeOK
  <2>4. conn' \in [Clients -> 0..MaxConns]
    BY <1>3, LongLinkAssumption DEF IInv, TypeOK, Conns
  <2> QED
    BY <1>2, <1>3, <1>4, <1>5, <2>2, <2>3, <2>4 DEF IInv, TypeOK, serverVars
<1>7. HelloUp(c) /\ (up[c] = <<>> => conn[k] = 0)
  <2>1. CASE conn[k] = 0
    BY <1>3, <1>5, <2>1 DEF Unopened, HelloUp
  <2>2. CASE conn[k] # 0
    BY <1>2, <1>3, <2>2 DEF IInv, ClientInv
  <2> QED
    BY <2>1, <2>2
<1>8. HelloUp(c)'
  <2>1. ASSUME NEW i \in DOMAIN up[c]
        PROVE  /\ up'[c][i].key = None
               /\ up'[c][i].body \in Messages
               /\ up'[c][i].body.fresh <= hellos'
               /\ up'[c][i].body.fresh < m.fresh
               /\ \A j \in 1..i - 1 : up'[c][j].body.fresh < up'[c][i].body.fresh
    <3>1. /\ up[c][i].key = None /\ up[c][i].body \in Messages
          /\ up[c][i].body.fresh <= hellos
          /\ \A j \in 1..i - 1 : up[c][j].body.fresh < up[c][i].body.fresh
      BY <1>7 DEF HelloUp
    <3>2. up[c][i].body.fresh \in Nat
      BY <3>1 DEF Messages
    <3>3. up[c][i].body.fresh <= hellos' /\ up[c][i].body.fresh < hellos'
      BY <1>2, <1>4, <3>1, <3>2
    <3>4. \A j \in 1..i - 1 : up'[c][j] = up[c][j]
      <4>1. ASSUME NEW n \in Nat, i \in 1..n, NEW j \in 1..i - 1 PROVE j \in 1..n
        BY <4>1
      <4> QED
        BY <1>5, <4>1
    <3> QED
      BY <1>4, <1>5, <3>1, <3>3, <3>4
  <2>2. PICK n \in Nat : n = Len(up[c])
    BY <1>5
  <2>3. /\ DOMAIN up'[c] = 1..n + 1 /\ DOMAIN up[c] = 1..n
        /\ up'[c][n + 1].body = m /\ up'[c][n + 1].key = None
    BY <1>4, <1>5, <2>2
  <2>4. \A i \in 1..n + 1 : i \in 1..n \/ i = n + 1
    OBVIOUS
  <2>5. 1..(n + 1) - 1 = 1..n
    OBVIOUS
  <2>6. m.fresh <= hellos'
    BY <1>4
  <2> QED
    BY <1>4, <2>1, <2>3, <2>4, <2>5, <2>6 DEF HelloUp
<1>9. 1 \in DOMAIN up'[c] /\ up'[c][1].key = None
  <2>1. \A n \in Nat : 1 \in 1..n + 1
    OBVIOUS
  <2>2. 1 \in DOMAIN up'[c]
    BY <1>5, <2>1
  <2> QED
    BY <1>8, <2>2 DEF HelloUp
<1>10. ConnInv(c)'
  <2>1. ~ FinishUp(c)
    BY <1>3, <1>7, NoFinishThere
  <2>2. task'[c] = task[c] \/ (task[c] = "none" /\ task'[c] = "hello")
    BY <1>3 DEF Unopened, IInv, TypeOK
  <2>3. task[c] = "rejected" => Reused(c)'
    <3>1. SUFFICES ASSUME task[c] = "rejected" PROVE Reused(c)'
      OBVIOUS
    <3>2. up[c] # <<>>
      BY <1>3, <1>7, <3>1 DEF Unopened
    <3>3. Len(up'[c]) # 1
      <4>1. Len(up[c]) # 0
        BY <3>2, <1>3 DEF IInv, TypeOK
      <4>2. \A n \in Nat : n # 0 => n + 1 # 1
        OBVIOUS
      <4> QED
        BY <1>5, <4>1, <4>2
    <3> QED
      BY <1>3, <1>5, <1>6, <1>8, <3>3, TwoHellosLater
  <2>4. c <= opened'
    BY <1>3
  <2> QED
    BY <1>2, <1>3, <1>5, <1>6, <1>8, <2>1, <2>2, <2>3, <2>4, ConnUp DEF UpInv, serverVars
<1>11. /\ pc'[k] = "serverHello" /\ hasher'[k] = h /\ sseq'[k] = 0 /\ cseq'[k] = 1
       /\ conn'[k] = c /\ status'[k] = 0
  BY <1>2, <1>3 DEF IInv, TypeOK
<1>12. Shaking(k, c, 1)'
  <2>1. up'[c][Len(up'[c])].body = hasher'[k][1]
    BY <1>4, <1>5, <1>11
  <2>2. Len(up'[c]) = 1 => downRead'[c] = 0
    <3>1. SUFFICES ASSUME Len(up'[c]) = 1 PROVE downRead[c] = 0
      BY <1>2
    <3>2. Len(up[c]) = 0
      BY <1>5, <3>1
    <3>3. up[c] = <<>>
      BY <1>3, <3>2 DEF IInv, TypeOK
    <3> QED
      BY <1>3, <1>7, <3>3 DEF Unopened
  <2> QED
    BY <1>3, <1>4, <1>5, <1>8, <1>11, <2>1, <2>2 DEF Shaking
<1>13. PlaceInv(k, c)'
  BY <1>11, <1>12 DEF PlaceInv
<1>14. ClientInv(k)'
  <2>1. ~ HasAppKey(k)'
    BY <1>2 DEF HasAppKey, IInv, ClientInv
  <2>2. c \in 0..opened'
    BY <1>3
  <2>3. outcome'[k] # "alive"
    BY <1>2 DEF IInv, ClientInv
  <2> QED
    BY <1>5, <1>8, <1>11, <1>13, <2>1, <2>2, <2>3 DEF ClientInv
<1>15. \A j \in Clients \ {k} : SameClient(j)
  BY <1>2, <1>3 DEF IInv, TypeOK, SameClient
<1>16. \A d \in Conns \ {c} : SameConn(d)
  BY <1>2, <1>3, <1>5 DEF SameConn, serverVars, IInv, TypeOK
<1>17. \A d \in Conns \ {c} : Owns(k, d)' => Owns(k, d)
  BY <1>11 DEF Owns
<1>18. Counts
  BY <1>3, <1>4 DEF Counts
<1> QED
  BY <1>2, <1>3, <1>6, <1>10, <1>14, <1>15, <1>16, <1>17, <1>18, ClientFrame
     DEF serverVars

\* A client that reconnects after its handshake comes to a connection without one.
LEMMA ReconnectOK ==
  ASSUME IInv, NEW k \in Clients, Reconnect(k)
  PROVE  IInv'
<1>1. PICK c, t : c = Link(k) /\ t = session[k].ticket
  OBVIOUS
<1>2. /\ pc[k] = "idle" /\ conn[k] = 0 /\ status[k] = 1 /\ Connect(k)
      /\ pc' = [pc EXCEPT ![k] = "idle"]
      /\ outcome' = [outcome EXCEPT ![k] = "handshaken"]
      /\ UNCHANGED <<status, session, hasher, cseq, sseq, secret, key, hellos, up,
                     down, upRead, downRead, broken, torn, serverVars, thash>>
  BY DEF Reconnect, Return, streams
<1>3. /\ c \in Conns /\ conn' = [conn EXCEPT ![k] = c]
      /\ opened' \in 0..MaxConns /\ opened <= opened' /\ c \in 1..opened'
      /\ Unopened(c) /\ task' = [task EXCEPT ![c] = "hello"]
      /\ \A j \in Clients \ {k} : ~ Owns(j, c)
      /\ \A d \in Conns \ {c} : d > opened => d > opened'
      /\ task' \in [Conns -> Stages]
  BY <1>1, <1>2, ConnectFacts
<1>4. TypeOK'
  <2>1. pc' \in [Clients -> Places]
    BY <1>2 DEF IInv, TypeOK, Places
  <2>2. conn' \in [Clients -> 0..MaxConns]
    BY <1>3, LongLinkAssumption DEF IInv, TypeOK, Conns
  <2> QED
    BY <1>2, <1>3, <2>1, <2>2 DEF IInv, TypeOK, serverVars
<1>5. NoopUp(c)
  BY <1>3 DEF NoopUp, Unopened
<1>6. NoopUp(c)'
  BY <1>2, <1>5 DEF NoopUp
<1>7. ConnInv(c)'
  <2>1. ~ FinishUp(c)
    BY <1>3, <1>5, NoFinishThere
  <2>2. task[c] = "none" /\ task'[c] = "hello"
    BY <1>3 DEF Unopened, IInv, TypeOK
  <2> QED
    BY <1>2, <1>3, <1>4, <1>6, <2>1, <2>2, ConnUp DEF UpInv, serverVars
<1>8. Settled(k, t, c)'
  <2>1. Settled(k, t, 0)
    BY <1>1, <1>2 DEF IInv, ClientInv
  <2>2. t \in Conns
    BY <1>1, <1>2 DEF IInv, TypeOK, Sessions, ClientInv, HasAppKey
  <2>3. c # t
    <3>1. up[t] # <<>>
      BY <2>1, <2>2, FinishIsSealed DEF Settled, IInv
    <3> QED
      BY <1>3, <3>1 DEF Unopened
  <2> QED
    BY <1>2, <1>6, <2>1, <2>3, SameHash DEF Settled, FinishUp
<1>9. ClientInv(k)'
  <2>1. /\ pc'[k] = "idle" /\ outcome'[k] = "handshaken" /\ conn'[k] = c
        /\ status'[k] = 1 /\ session'[k].ticket = t
    BY <1>1, <1>2, <1>3 DEF IInv, TypeOK
  <2>2. HasAppKey(k)'
    BY <1>2 DEF IInv, ClientInv, HasAppKey
  <2>3. c \in 0..opened'
    BY <1>3
  <2> QED
    BY <1>8, <2>1, <2>2, <2>3 DEF ClientInv, PlaceInv
<1>10. \A j \in Clients \ {k} : SameClient(j)
  BY <1>2, <1>3 DEF IInv, TypeOK, SameClient
<1>11. \A d \in Conns \ {c} : SameConn(d)
  BY <1>2, <1>3 DEF SameConn, serverVars, IInv, TypeOK
<1>12. \A d \in Conns \ {c} : Owns(k, d)' => Owns(k, d)
  BY <1>2, <1>3 DEF Owns, IInv, TypeOK
<1>13. Counts
  BY <1>2, <1>3 DEF Counts, IInv, TypeOK
<1> QED
  BY <1>2, <1>3, <1>4, <1>7, <1>9, <1>10, <1>11, <1>12, <1>13, ClientFrame
     DEF serverVars

\* A write of a client that holds a connection already.
LEMMA WriteUpFrame ==
  ASSUME IInv, TypeOK', NEW k \in Clients, NEW c \in Conns, c = conn[k],
         NEW r \in Records, up' = [up EXCEPT ![c] = Append(@, r)],
         conn' = conn,
         UNCHANGED <<drawn, down, upRead, downRead, broken, torn, serverVars, taskVars>>,
         \A j \in Clients \ {k} : SameClient(j),
         status'[k] = 1, session'[k].ticket = c \/ Owns(k, session'[k].ticket),
         UpInv(c)', FinishUp(c) => FinishUp(c)',
         task[c] = "rejected" => Reused(c)' \/ (1 \notin HellosOn(c))',
         ClientInv(k)'
  PROVE  IInv'
<1>1. /\ \A i \in DOMAIN up[c] : i \in DOMAIN up'[c] /\ up'[c][i] = up[c][i]
      /\ up'[c] # <<>>
      /\ \A d \in Conns \ {c} : up'[d] = up[d]
  BY AppendedUp DEF IInv
<1>2. c <= opened'
  <2>1. conn[k] \in 0..opened
    BY DEF IInv, ClientInv
  <2> QED
    BY <2>1 DEF IInv, TypeOK, drawn
<1>3. ConnInv(c)'
  BY <1>1, <1>2, ConnUp DEF serverVars, taskVars
<1>4. \A j \in Clients \ {k} : ~ Owns(j, c)
  BY DEF IInv, Owned, Owns
<1>5. \A d \in Conns \ {c} : SameConn(d) /\ (d > opened => d > opened')
  BY <1>1 DEF SameConn, serverVars, taskVars, drawn
<1>6. \A d \in Conns \ {c} : Owns(k, d)' => Owns(k, d)
  BY DEF Owns
<1>7. Counts
  BY DEF Counts, IInv, TypeOK, drawn
<1> QED
  BY <1>3, <1>4, <1>5, <1>6, <1>7, ClientFrame DEF serverVars, taskVars

\* A noop follows the records of its own handshake, or others of its kind.
LEMMA StartNoopOK ==
  ASSUME IInv, NEW k \in Clients, StartNoop(k)
  PROVE  IInv'
<1>1. PICK c, t, x, r :
        /\ c = conn[k] /\ t = session[k].ticket /\ x = session[k].app.client
        /\ r = Seal(NoopRequest, x, cseq[k])
  OBVIOUS
<1>2. /\ pc[k] = "idle" /\ HasAppKey(k) /\ c # 0 /\ cseq[k] < MaxSeq
      /\ up' = [up EXCEPT ![c] = Append(@, r)]
      /\ cseq' = [cseq EXCEPT ![k] = cseq[k] + 1]
      /\ pc' = [pc EXCEPT ![k] = "noop"] /\ outcome' = outcome
      /\ UNCHANGED <<conn, status, session, hasher, sseq, secret, key, drawn, down,
                     upRead, downRead, broken, torn, serverVars, taskVars>>
  BY <1>1 DEF StartNoop, Goto, NoopRequest
<1>3. status[k] = 1 /\ Settled(k, t, c) /\ c \in Conns /\ t \in Conns
  <2>1. status[k] = 1 /\ Settled(k, t, c)
    BY <1>1, <1>2 DEF IInv, ClientInv
  <2>2. c \in Conns
    BY <1>1, <1>2, LongLinkAssumption DEF IInv, TypeOK, Conns
  <2>3. t \in Conns
    BY <1>1, <1>2 DEF IInv, TypeOK, Sessions, HasAppKey
  <2> QED
    BY <2>1, <2>2, <2>3
<1>4. x = AppKeyOf(t).client /\ x \in Halves /\ x # None
  <2>1. Len(thash[t]) = 4 /\ session[k].app = AppKeyOf(t)
    BY <1>3 DEF Settled, FinishUp
  <2> QED
    BY <1>1, <1>3, <2>1, DerivedTypes, NoneAssumption DEF IInv
<1>5. r \in Records /\ r.key # None /\ r.body = NoopRequest /\ cseq[k] \in Nat
  <2>1. cseq[k] \in Nat /\ NoopRequest \in Messages
    BY MessageTypes DEF IInv, TypeOK
  <2> QED
    BY <1>1, <1>4, <2>1 DEF Seal, Records
<1>6. /\ up' \in [Conns -> Seq(Records)] /\ up'[c] # <<>>
      /\ Len(up[c]) \in Nat /\ Len(up'[c]) = Len(up[c]) + 1
      /\ DOMAIN up'[c] = 1..Len(up[c]) + 1 /\ DOMAIN up[c] = 1..Len(up[c])
      /\ up'[c][Len(up[c]) + 1] = r
      /\ \A i \in DOMAIN up[c] : i \in DOMAIN up'[c] /\ up'[c][i] = up[c][i]
      /\ \A d \in Conns \ {c} : up'[d] = up[d]
  BY <1>2, <1>3, <1>5, AppendedUp DEF IInv
<1>7. TypeOK'
  <2>1. pc' \in [Clients -> Places]
    BY <1>2 DEF IInv, TypeOK, Places
  <2>2. cseq' \in [Clients -> 0..MaxSeq + 1]
    <3>1. cseq[k] + 1 \in 0..MaxSeq + 1
      BY <1>2, <1>5, LongLinkAssumption
    <3> QED
      BY <1>2, <3>1 DEF IInv, TypeOK
  <2> QED
    BY <1>2, <1>6, <2>1, <2>2 DEF IInv, TypeOK, drawn, serverVars, taskVars
<1>8. /\ SecretOf(t)' = SecretOf(t) /\ TrafficKeyOf(t)' = TrafficKeyOf(t)
      /\ ClientFinishOf(t)' = ClientFinishOf(t) /\ AppKeyOf(t)' = AppKeyOf(t)
      /\ PskOf(t)' = PskOf(t)
  BY <1>2, SameHash DEF taskVars
<1>9. FinishUp(t)'
  <2>1. CASE c # t
    <3>1. up'[t] = up[t]
      BY <1>3, <1>6, <2>1
    <3> QED
      BY <1>2, <1>3, <1>8, <3>1 DEF Settled, FinishUp, taskVars
  <2>2. CASE c = t
    <3>1. PICK n \in Nat : n = Len(up[c])
      BY <1>6
    <3>2. /\ n >= 2 /\ cseq[k] = n /\ Len(up'[c]) = n + 1 /\ up'[c][n + 1] = r
          /\ \A i \in 1..n : up'[c][i] = up[c][i]
      BY <1>3, <1>6, <2>2, <3>1 DEF Settled, FinishUp
    <3>3. ASSUME NEW i \in 3..n + 1
          PROVE  up'[c][i] = Seal(NoopRequest, AppKeyOf(c).client, i - 1)
      <4>1. CASE i = n + 1
        <5>1. i - 1 = n
          BY <4>1
        <5> QED
          BY <1>1, <1>4, <2>2, <3>2, <4>1, <5>1
      <4>2. CASE i # n + 1
        <5>1. i \in 3..n /\ i \in 1..n
          BY <4>2
        <5>2. up[c][i] = Seal(NoopRequest, AppKeyOf(c).client, i - 1)
          BY <1>3, <2>2, <3>1, <5>1 DEF Settled, FinishUp
        <5> QED
          BY <3>2, <5>1, <5>2
      <4> QED
        BY <4>1, <4>2
    <3>4. n + 1 >= 2 /\ 2 \in 1..n
      BY <3>2
    <3>5. /\ Len(thash[c]) = 4 /\ Len(down[c]) >= 4
          /\ up[c][2] = Seal(ClientFinishOf(c), TrafficKeyOf(c).client, 1)
      BY <1>3, <2>2 DEF Settled, FinishUp
    <3> QED
      BY <1>2, <1>8, <2>2, <3>2, <3>3, <3>4, <3>5 DEF FinishUp, taskVars
  <2> QED
    BY <2>1, <2>2
<1>10. c # t => NoopUp(c) /\ NoopUp(c)'
  <2>1. SUFFICES ASSUME c # t PROVE NoopUp(c) /\ NoopUp(c)'
    OBVIOUS
  <2>2. NoopUp(c)
    BY <1>2, <1>3, <2>1 DEF Settled
  <2>3. PICK n \in Nat : n = Len(up[c])
    BY <1>6
  <2>4. \A i \in 1..n + 1 : i \in 1..n \/ i = n + 1
    OBVIOUS
  <2> QED
    BY <1>5, <1>6, <2>2, <2>3, <2>4 DEF NoopUp
<1>11. Settled(k, t, c)'
  <2>1. c = t => cseq'[k] = Len(up'[t])
    BY <1>2, <1>3, <1>6 DEF Settled, IInv, TypeOK
  <2> QED
    BY <1>2, <1>3, <1>8, <1>9, <1>10, <2>1 DEF Settled
<1>12. UpInv(c)' /\ (FinishUp(c) => FinishUp(c)')
  BY <1>3, <1>9, <1>10, NoFinishThere DEF UpInv
<1>13. task[c] = "rejected" => Reused(c)' \/ (1 \notin HellosOn(c))'
  <2>1. SUFFICES ASSUME task[c] = "rejected", (1 \in HellosOn(c))' PROVE Reused(c)'
    OBVIOUS
  <2>2. c = t
    BY <1>10, <2>1 DEF NoopUp, HellosOn
  <2>3. up'[c][1] = up[c][1] /\ 1 \in DOMAIN up[c]
    <3>1. 2 \in DOMAIN up[c]
      BY <1>3, <2>2, FinishIsSealed DEF Settled, IInv
    <3>2. \A n \in Nat : 2 \in 1..n => 1 \in 1..n
      OBVIOUS
    <3> QED
      BY <1>6, <3>1, <3>2
  <2>4. 1 \in HellosOn(c)
    BY <2>1, <2>3 DEF HellosOn
  <2>5. Reused(c)
    BY <1>3, <2>1, <2>4 DEF IInv, ConnInv, TaskInv
  <2> QED
    BY <1>6, <2>5 DEF Reused, HellosOn
<1>14. ClientInv(k)'
  <2>1. /\ pc'[k] = "noop" /\ conn'[k] = c /\ status'[k] = 1
        /\ session'[k].ticket = t
    BY <1>1, <1>2, <1>3 DEF IInv, TypeOK
  <2>2. HasAppKey(k)'
    BY <1>2 DEF HasAppKey
  <2>3. c \in 0..opened'
    BY <1>1, <1>2 DEF IInv, ClientInv, drawn
  <2>4. outcome'[k] = "alive" => sseq'[k] = 5
    BY <1>2 DEF IInv, ClientInv
  <2> QED
    BY <1>2, <1>11, <2>1, <2>2, <2>3, <2>4 DEF ClientInv, PlaceInv
<1>15. \A j \in Clients \ {k} : SameClient(j)
  BY <1>2 DEF IInv, TypeOK, SameClient
<1>16. status'[k] = 1 /\ Owns(k, session'[k].ticket)
  BY <1>1, <1>2, <1>3 DEF Owns
<1> QED
  BY <1>1, <1>2, <1>3, <1>5, <1>7, <1>12, <1>13, <1>14, <1>15, <1>16, WriteUpFrame

\* ClientFinish is the second record of its connection, under the keys of the
\* task there: with it the handshake is complete.
LEMMA SendClientFinishOK ==
  ASSUME IInv, NEW k \in Clients, SendClientFinish(k)
  PROVE  IInv'
<1>1. PICK c : c = conn[k]
  OBVIOUS
<1>2. /\ Shaking(k, c, 4) /\ Agreed(k, c, 4) /\ hasher[k] = thash[c]
      /\ Ticketed(k, c) /\ pc[k] = "clientFinish"
  BY <1>1 DEF SendClientFinish, IInv, ClientInv, PlaceInv
<1>3. c \in Conns /\ c \in 1..opened
  BY <1>2, LongLinkAssumption DEF Shaking, IInv, TypeOK, Conns
<1>4. Len(thash[c]) = 4
  BY <1>2 DEF Shaking
<1>5. PICK r, s : /\ r = Seal(ClientFinishOf(c), TrafficKeyOf(c).client, 1)
                  /\ s = [session[k] EXCEPT !.app = AppKeyOf(c)]
  OBVIOUS
<1>6. /\ up' = [up EXCEPT ![c] = Append(@, r)]
      /\ cseq' = [cseq EXCEPT ![k] = 2]
      /\ session' = [session EXCEPT ![k] = s]
      /\ status' = [status EXCEPT ![k] = 1]
      /\ pc' = [pc EXCEPT ![k] = "idle"]
      /\ outcome' = [outcome EXCEPT ![k] = "handshaken"]
      /\ secret' = [secret EXCEPT ![k] = None]
      /\ key' = [key EXCEPT ![k] = None]
      /\ UNCHANGED <<conn, hasher, sseq, drawn, down, upRead, downRead, broken, torn,
                     serverVars, taskVars>>
  <2>1. Finish("client finished", secret[k], hasher[k]) = ClientFinishOf(c)
    BY <1>2 DEF Agreed, ClientFinishOf
  <2>2. AppKey(secret[k], hasher[k]) = AppKeyOf(c)
    BY <1>2 DEF Agreed, AppKeyOf
  <2>3. key[k] = TrafficKeyOf(c) /\ cseq[k] = 1
    BY <1>2 DEF Agreed, Shaking
  <2>4. up' = [up EXCEPT ![c] = Append(@, Seal(ClientFinishOf(c), key[k].client, cseq[k]))]
    BY <1>1, <2>1 DEF SendClientFinish
  <2>5. session' = [session EXCEPT ![k].app = AppKeyOf(c)]
    BY <2>2 DEF SendClientFinish
  <2>6. up' = [up EXCEPT ![c] = Append(@, r)]
    BY <1>5, <2>3, <2>4
  <2>7. session' = [session EXCEPT ![k] = s]
    BY <1>5, <2>5
  <2>8. cseq' = [cseq EXCEPT ![k] = 2]
    <3>1. cseq' = [cseq EXCEPT ![k] = cseq[k] + 1]
      BY DEF SendClientFinish
    <3> QED
      BY <2>3, <3>1
  <2> QED
    BY <2>6, <2>7, <2>8 DEF SendClientFinish, Return, DropLocals
<1>7. /\ AppKeyOf(c) \in KeyPairs /\ AppKeyOf(c) # None
      /\ TrafficKeyOf(c).client \in Halves /\ TrafficKeyOf(c).client # None
      /\ SecretOf(c) \in ComKeys
  <2>1. Len(thash[c]) >= 2
    BY <1>4
  <2> QED
    BY <1>3, <1>4, <2>1, DerivedTypes, NoneAssumption DEF IInv
<1>8. r \in Records /\ r.key # None
  <2>1. ClientFinishOf(c) \in Finishes
    BY <1>3, <1>7, FinishTypes DEF ClientFinishOf, IInv, TypeOK, Secrets
  <2> QED
    BY <1>5, <1>7, <2>1, SentTypes
<1>9. /\ s \in Sessions /\ s # None /\ s.ticket = c /\ s.psk = PskOf(c)
      /\ s.app = AppKeyOf(c)
  <2>1. session[k] \in Sessions /\ session[k].ticket = c /\ session[k].psk = PskOf(c)
    BY <1>2 DEF Ticketed, IInv, TypeOK
  <2>2. /\ s \in Sessions /\ s.ticket = c /\ s.psk = PskOf(c) /\ s.app = AppKeyOf(c)
    BY <1>5, <1>7, <2>1 DEF Sessions
  <2>3. s \in [ticket: Nat, psk: Psks, app: KeyPairs \cup {None}]
    BY <2>2 DEF Sessions, Conns
  <2> QED
    BY <2>2, <2>3, NoneAssumption
<1>10. Len(up[c]) = 1 /\ HelloUp(c) /\ downRead[c] = 4 /\ sseq[k] = 4
  BY <1>2 DEF Shaking, Agreed
<1>11. /\ up' \in [Conns -> Seq(Records)] /\ Len(up'[c]) = 2
       /\ up'[c][2] = r
  <2>1. /\ up' \in [Conns -> Seq(Records)] /\ Len(up'[c]) = Len(up[c]) + 1
        /\ up'[c][Len(up[c]) + 1] = r
    BY <1>3, <1>6, <1>8, AppendedUp DEF IInv
  <2> QED
    BY <1>10, <2>1
<1>12. TypeOK'
  <2>1. pc' \in [Clients -> Places]
    BY <1>6 DEF IInv, TypeOK, Places
  <2>2. cseq' \in [Clients -> 0..MaxSeq + 1]
    <3>1. 2 \in 0..MaxSeq + 1
      BY LongLinkAssumption
    <3> QED
      BY <1>6, <3>1 DEF IInv, TypeOK
  <2> QED
    BY <1>6, <1>9, <1>11, <2>1, <2>2 DEF IInv, TypeOK, drawn, serverVars, taskVars
<1>13. /\ AppKeyOf(c)' = AppKeyOf(c) /\ PskOf(c)' = PskOf(c)
       /\ TrafficKeyOf(c)' = TrafficKeyOf(c) /\ ClientFinishOf(c)' = ClientFinishOf(c)
  BY <1>6, SameHash DEF taskVars
<1>14. FinishUp(c)'
  <2>1. Len(down[c]) >= 4
    BY <1>2 DEF Agreed
  <2>2. \A i \in 3..2 : FALSE
    OBVIOUS
  <2> QED
    BY <1>4, <1>5, <1>6, <1>11, <1>13, <2>1, <2>2 DEF FinishUp, taskVars
<1>15. task[c] # "rejected"
  <2>1. up[c] \in Seq(Records)
    BY <1>3 DEF IInv, TypeOK
  <2>2. DOMAIN up[c] = {1}
    BY <1>10, <2>1
  <2>3. ~ Reused(c) /\ 1 \in HellosOn(c)
    BY <1>10, <2>2 DEF Reused, HellosOn, HelloUp
  <2> QED
    BY <1>3, <2>3 DEF IInv, ConnInv, TaskInv
<1>16. ClientInv(k)'
  <2>1. /\ pc'[k] = "idle" /\ outcome'[k] = "handshaken" /\ conn'[k] = c
        /\ status'[k] = 1 /\ session'[k] = s /\ cseq'[k] = 2
    BY <1>1, <1>6 DEF IInv, TypeOK
  <2>2. HasAppKey(k)'
    BY <1>7, <1>9, <2>1 DEF HasAppKey
  <2>3. c \in 0..opened'
    BY <1>3, <1>6 DEF drawn
  <2>4. Settled(k, c, c)'
    BY <1>6, <1>9, <1>10, <1>11, <1>13, <1>14, <2>1 DEF Settled
  <2> QED
    BY <1>9, <2>1, <2>2, <2>3, <2>4 DEF ClientInv, PlaceInv
<1>17. \A j \in Clients \ {k} : SameClient(j)
  BY <1>6 DEF IInv, TypeOK, SameClient
<1>18. status'[k] = 1 /\ session'[k].ticket = c
  BY <1>6, <1>9 DEF IInv, TypeOK
<1>19. UpInv(c)'
  BY <1>14 DEF UpInv
<1> QED
  BY <1>1, <1>3, <1>6, <1>8, <1>12, <1>14, <1>15, <1>16, <1>17, <1>18, <1>19, WriteUpFrame

-----------------------------------------------------------------------------
(* The invariant holds throughout.                                          *)

\* Every step keeps it.
LEMMA NextIInv ==
  ASSUME IInv, [Next]_vars
  PROVE  IInv'
<1>1. ASSUME NEW k \in Clients, ClientStep(k) PROVE IInv'
  BY <1>1, ReadServerHelloOK, ReadSignatureOK, ReadTicketOK, ReadServerFinishOK,
     SendClientFinishOK, ReadNoopOK, ShortCallsOK DEF ClientStep
<1>2. ASSUME NEW k \in Clients, CallerStep(k) PROVE IInv'
  BY <1>2, StartHandshakeOK, ReconnectOK, StartNoopOK, NoopUnconnectedOK, CloseOK,
     ShortCallsOK DEF CallerStep
<1>3. ASSUME NEW k \in Clients, ClientFault(k) PROVE IInv'
  BY <1>3, HelloFailsOK, ClientRestartOK, ShortCallsOK DEF ClientFault
<1>4. ASSUME NEW c \in Conns, ServerStep(c) PROVE IInv'
  BY <1>4, ReadClientHelloOK, SendServerHelloOK, SendSignatureOK, SendTicketOK,
     StoreSessionOK, SendServerFinishOK, ReadClientFinishOK, ReadNoopRequestOK,
     SendNoopResponseOK, TaskFailsOK DEF ServerStep
<1>5. CASE UNCHANGED vars
  <2>1. TypeOK'
    BY <1>5 DEF IInv, TypeOK, vars, callVars, clientVars, drawn, streams, serverVars,
       taskVars
  <2>2. \A d \in Conns : SameConn(d) /\ (d > opened => d > opened')
    BY <1>5 DEF SameConn, vars, streams, serverVars, taskVars, drawn
  <2>3. Counts /\ epoch' = epoch
    BY <1>5 DEF Counts, IInv, TypeOK, vars, drawn, serverVars
  <2>4. \A d \in Conns : ConnInv(d)'
    BY <2>1, <2>2, <2>3, ConnStable DEF IInv
  <2>5. ASSUME NEW k \in Clients PROVE ClientInv(k)'
    <3>1. SameClient(k)
      BY <1>5 DEF SameClient, vars, callVars, clientVars
    <3>2. \A c \in Conns : Len(thash[c]) <= 4
      BY DEF IInv, ConnInv, HashInv
    <3>3. Undisturbed(k)
      BY <1>5, <3>1, <3>2 DEF Undisturbed, Grows, vars, streams, taskVars
    <3> QED
      BY <1>5, <2>1, <2>3, <3>3, ClientStable DEF IInv, vars, streams
  <2>6. Owned'
    BY <1>5 DEF IInv, Owned, Owns, vars, clientVars
  <2> QED
    BY <2>1, <2>4, <2>5, <2>6 DEF IInv
<1> QED
  BY <1>1, <1>2, <1>3, <1>4, <1>5, BreakOK, ServerRestartOK DEF Next

\* It is an invariant of the specification.
THEOREM Invariance == Spec => []IInv
<1>1. Init => IInv
  BY InitIInv
<1>2. IInv /\ [Next]_vars => IInv'
  BY NextIInv
<1> QED
  BY <1>1, <1>2, PTL DEF Spec

-----------------------------------------------------------------------------
(* What follows from it.                                                    *)

\* Type correctness, in every behaviour of clients, server and network.
THEOREM TypeCorrect == Spec => []TypeOK
BY Invariance, PTL DEF IInv

\* Where two hellos are, clients have written nothing else.
LEMMA ReusedMeansHellos ==
  ASSUME IInv, NEW c \in Conns, Reused(c)
  PROVE  HelloUp(c)
<1>1. PICK i, j \in DOMAIN up[c] : i # j /\ up[c][i].key = None /\ up[c][j].key = None
  BY DEF Reused, HellosOn
<1>2. ~ NoopUp(c)
  BY <1>1 DEF NoopUp
<1>3. SUFFICES ASSUME FinishUp(c) PROVE FALSE
  BY <1>2 DEF IInv, ConnInv, UpInv
<1>4. Len(up[c]) \in Nat /\ DOMAIN up[c] = 1..Len(up[c])
  BY DEF IInv, TypeOK
<1>5. up[c][2].key # None
  BY <1>3, FinishIsSealed DEF IInv
<1>6. \A l \in 3..Len(up[c]) : up[c][l].key # None
  <2>1. AppKeyOf(c).client # None
    BY <1>3, DerivedTypes, NoneAssumption DEF FinishUp, IInv
  <2>2. PICK x : x = AppKeyOf(c).client /\ x # None
    BY <2>1
  <2>3. ASSUME NEW l \in 3..Len(up[c]) PROVE up[c][l].key # None
    <3>1. up[c][l] = Seal(NoopRequest, x, l - 1)
      BY <1>3, <2>2, <2>3 DEF FinishUp
    <3>2. \A b, y, n : Seal(b, y, n).key = y
      BY DEF Seal
    <3>3. up[c][l].key = x
      BY <3>1, <3>2
    <3> QED
      BY <2>2, <3>3
  <2> QED
    BY <2>3
<1>7. \A n \in Nat : \A l \in 1..n : l = 1 \/ l = 2 \/ l \in 3..n
  OBVIOUS
<1> QED
  BY <1>1, <1>4, <1>5, <1>6, <1>7

\* A connection that a second handshake() took up carries no handshake that
\* either end takes for complete, whatever the two of them read there.
THEOREM StaleConnections == Spec => []StaleConnectionNeverCompletes
<1>1. ASSUME IInv PROVE StaleConnectionNeverCompletes
  <2>1. SUFFICES ASSUME NEW c \in Conns, Reused(c)
                 PROVE  ~ FinishedOn(c) /\ task[c] \notin {"noop", "noopReply", "done"}
    BY DEF StaleConnectionNeverCompletes
  <2>2. HelloUp(c)
    BY <1>1, <2>1, ReusedMeansHellos
  <2>3. ~ FinishedOn(c)
    BY <2>2 DEF HelloUp, FinishedOn
  <2>4. ~ FinishUp(c)
    BY <1>1, <2>2, NoFinishThere
  <2> QED
    BY <1>1, <2>3, <2>4 DEF IInv, ConnInv, TaskInv
<1> QED
  BY <1>1, Invariance, PTL

\* A client that holds an application key derived it as the task that issued its
\* ticket did, whichever connection it has moved to since.
THEOREM AppKeyAgreement == Spec => []AppKeysAgree
<1>1. ASSUME IInv PROVE AppKeysAgree
  BY <1>1 DEF AppKeysAgree, IInv, ClientInv, Settled
<1> QED
  BY <1>1, Invariance, PTL

\* The ticket of a completed handshake is in the server's map with the psk_access
\* of the client, as long as the process that put it there lives.
THEOREM TicketStored == Spec => []TicketStoredOnceHandshaken
<1>1. ASSUME IInv PROVE TicketStoredOnceHandshaken
  <2>1. SUFFICES ASSUME NEW k \in Clients, status[k] = 1,
                        NEW s, s = session[k]
                 PROVE  sessions[s.ticket] =
                          IF s.psk.secret.server = epoch THEN s.psk ELSE None
    BY DEF TicketStoredOnceHandshaken
  <2>2. PICK t : t = s.ticket
    OBVIOUS
  <2>3. /\ FinishUp(t) /\ s.psk = PskOf(t) /\ t \in Conns
    <3>1. Settled(k, t, conn[k])
      BY <1>1, <2>1, <2>2 DEF IInv, ClientInv
    <3>2. t \in Conns
      BY <1>1, <2>1, <2>2 DEF IInv, TypeOK, Sessions, ClientInv, HasAppKey
    <3> QED
      BY <2>1, <3>1, <3>2 DEF Settled
  <2>4. sessions[t] = IF EpochOf(t) = epoch THEN PskOf(t) ELSE None
    BY <1>1, <2>3 DEF FinishUp, IInv, ConnInv, MapInv
  <2>5. PskOf(t).secret.server = EpochOf(t)
    <3>1. Len(thash[t]) >= 2 /\ Len(thash[t]) >= 3
      BY <2>3 DEF FinishUp
    <3> QED
      BY <1>1, <2>3, <3>1, DerivedTypes DEF IInv
  <2> QED
    BY <2>2, <2>3, <2>4, <2>5
<1> QED
  BY <1>1, Invariance, PTL

\* Neither end finds fault with a record of the other, except where a connection
\* was taken up twice or without a handshake, or left in the middle of a record.
THEOREM MismatchMisuse == Spec => []MismatchNeedsMisuse
<1>1. ASSUME IInv PROVE MismatchNeedsMisuse
  BY <1>1 DEF MismatchNeedsMisuse, IInv, ClientInv, ConnInv, TaskInv
<1> QED
  BY <1>1, Invariance, PTL

\* noop() succeeds on the answer of the task the handshake ran with, the one
\* record that task ever writes under the application key.
THEOREM AliveAnswered == Spec => []AliveMeansAnswered
<1>1. ASSUME IInv PROVE AliveMeansAnswered
  <2>1. SUFFICES ASSUME NEW k \in Clients, outcome[k] = "alive"
                 PROVE  task[session[k].ticket] = "done" /\ sseq[k] = 5
    BY DEF AliveMeansAnswered
  <2>2. PICK t : t = session[k].ticket
    OBVIOUS
  <2>3. status[k] = 1 /\ sseq[k] = 5 /\ Settled(k, t, conn[k])
    BY <1>1, <2>1, <2>2 DEF IInv, ClientInv
  <2>4. t \in Conns
    BY <1>1, <2>2, <2>3 DEF IInv, TypeOK, Sessions, ClientInv, HasAppKey
  <2>5. ConnInv(t) /\ Len(down[t]) \in Nat /\ Len(down[t]) >= 5
    BY <1>1, <2>3, <2>4 DEF Settled, IInv, TypeOK, ConnInv, DownInv
  <2>6. Len(down[t]) \notin {0, 1, 2, 3, 4} /\ ~ (Len(down[t]) <= 4)
    <3>1. \A n \in Nat : n >= 5 => n \notin {0, 1, 2, 3, 4} /\ ~ (n <= 4)
      OBVIOUS
    <3> QED
      BY <2>5, <3>1
  <2>7. task[t] \in Stages
    BY <1>1, <2>4 DEF IInv, TypeOK
  <2> QED
    BY <2>2, <2>3, <2>5, <2>6, <2>7 DEF ConnInv, TaskInv, Progress, Stages
<1> QED
  BY <1>1, Invariance, PTL
=============================================================================
