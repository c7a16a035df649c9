----------------------- MODULE LongLinkRefinementProofs -----------------------
(***************************************************************************)
(* The long link implements KeyAgreement, for every set of clients and     *)
(* every bound.  The inductive invariant makes the mapping simple: the key *)
(* a client holds is that of the connection its ticket names, and a        *)
(* connection whose key is spent is one that carries a whole handshake.    *)
(***************************************************************************)
EXTENDS LongLinkProofs

-----------------------------------------------------------------------------
(* The refinement mapping, read off the inductive invariant.                *)

\* The connection whose key a client holds.
TicketOf(k) == IF status[k] = 1 THEN {session[k].ticket} ELSE {}

\* An application key tells the transcript it was derived from.
LEMMA AppKeyTells ==
  ASSUME NEW c, NEW d, AppKeyOf(c) = AppKeyOf(d)
  PROVE  thash[c] = thash[d]
<1>1. ASSUME NEW x, NEW h PROVE AppKey(x, h).client.hash = h
  BY DEF AppKey, TrafficKey56, Half
<1> QED
  BY <1>1 DEF AppKeyOf

\* A client holds the key of the connection its ticket names, and no other.
LEMMA HeldIsTicket ==
  IInv => \A k \in Clients : KeysHeld(k) = TicketOf(k)
<1>1. SUFFICES ASSUME IInv, NEW k \in Clients PROVE KeysHeld(k) = TicketOf(k)
  OBVIOUS
<1>2. ASSUME status[k] # 1 PROVE KeysHeld(k) = TicketOf(k)
  <2>1. ~ HasAppKey(k)
    BY <1>1, <1>2 DEF IInv, ClientInv
  <2> QED
    BY <1>2, <2>1 DEF KeysHeld, TicketOf
<1>3. ASSUME status[k] = 1 PROVE KeysHeld(k) = TicketOf(k)
  <2>1. PICK t : t = session[k].ticket
    OBVIOUS
  <2>2. HasAppKey(k) /\ Settled(k, t, conn[k])
    BY <1>1, <1>3, <2>1 DEF IInv, ClientInv
  <2>3. t \in Conns
    BY <1>1, <2>1, <2>2 DEF IInv, TypeOK, Sessions, HasAppKey
  <2>4. FinishUp(t) /\ session[k].app = AppKeyOf(t)
    BY <2>2 DEF Settled
  <2>5. OfferedOn(t) /\ Len(thash[t]) = 4
    BY <2>4 DEF OfferedOn, FinishUp
  <2>6. ASSUME NEW d \in Conns, OfferedOn(d), session[k].app = AppKeyOf(d)
        PROVE  d = t
    <3>1. thash[d] = thash[t]
      BY <2>4, <2>6, AppKeyTells
    <3>2. \A e \in Conns : Len(thash[e]) = 4 => thash[e][2].fresh = e
      <4>1. ASSUME NEW e \in Conns, Len(thash[e]) = 4 PROVE thash[e][2].fresh = e
        <5>1. Len(thash[e]) >= 2
          BY <4>1
        <5>2. thash[e][2] = ServerHello(e, EpochOf(e))
          BY <1>1, <5>1 DEF IInv, ConnInv, HashInv
        <5>3. \A n, r : ServerHello(n, r).fresh = n
          BY DEF ServerHello, Message
        <5> QED
          BY <5>2, <5>3
      <4> QED
        BY <4>1
    <3> QED
      BY <2>3, <2>5, <3>1, <3>2
  <2> QED
    BY <1>3, <2>1, <2>2, <2>3, <2>4, <2>5, <2>6 DEF KeysHeld, TicketOf
<1> QED
  BY <1>2, <1>3

\* The connections whose key is spent carry a whole handshake.
LEMMA SpentIsFinished ==
  IInv => \A c \in Conns : FinishedOn(c) <=> FinishUp(c)
<1>1. SUFFICES ASSUME IInv, NEW c \in Conns PROVE FinishedOn(c) <=> FinishUp(c)
  OBVIOUS
<1>2. ASSUME FinishUp(c) PROVE FinishedOn(c)
  <2>1. 2 \in DOMAIN up[c] /\ up[c][2].key # None
    BY <1>1, <1>2, FinishIsSealed DEF IInv
  <2>2. up[c][2].body = ClientFinishOf(c)
    BY <1>2 DEF FinishUp, Seal
  <2>3. "mac" \in DOMAIN ClientFinishOf(c)
    BY DEF ClientFinishOf, Finish
  <2> QED
    BY <2>1, <2>2, <2>3 DEF FinishedOn
<1>3. ASSUME FinishedOn(c), ~ FinishUp(c) PROVE FALSE
  <2>1. PICK i \in DOMAIN up[c] : up[c][i].key # None /\ "mac" \in DOMAIN up[c][i].body
    BY <1>3 DEF FinishedOn
  <2>2. NoopUp(c)
    BY <1>1, <1>3, <2>1 DEF IInv, ConnInv, UpInv, HelloUp
  <2>3. up[c][i].body = NoopRequest
    BY <2>2 DEF NoopUp
  <2>4. "mac" \notin DOMAIN NoopRequest
    BY DEF NoopRequest, Message
  <2> QED
    BY <2>1, <2>3, <2>4
<1> QED
  BY <1>2, <1>3

\* The same after a step.
LEMMA MappedAfter ==
  IInv' => /\ \A k \in Clients : KeysHeld(k)' = TicketOf(k)'
           /\ \A c \in Conns : FinishedOn(c)' <=> FinishUp(c)'
<1>1. (IInv => \A k \in Clients : KeysHeld(k) = TicketOf(k))'
  BY HeldIsTicket, PTL
<1>2. (IInv => \A c \in Conns : FinishedOn(c) <=> FinishUp(c))'
  BY SpentIsFinished, PTL
<1> QED
  BY <1>1, <1>2

-----------------------------------------------------------------------------
(* Steps of a client.                                                       *)

\* A client that keeps its key, and has heard under it what it had.
Keeps(j) ==
  /\ status'[j] = status[j]
  /\ status[j] = 1 => session'[j] = session[j] /\ sseq'[j] = sseq[j]

\* Only client k makes this step.
Alone(k) ==
  \A j \in Clients \ {k} : Keeps(j) /\ outcome'[j] = outcome[j]

\* No task goes on, and no key is offered or adopted.
SameLinks ==
  \A c \in Conns : /\ Phase(c)' = Phase(c)
                   /\ OfferedOn(c)' <=> OfferedOn(c)
                   /\ FinishedOn(c)' <=> FinishedOn(c)

\* What a client has heard, by its fields.
LEMMA HeardThere ==
  ASSUME NEW j \in Clients
  PROVE  /\ Heard[j] = (HasAppKey(j) /\ sseq[j] = 5)
         /\ Heard'[j] = (HasAppKey(j) /\ sseq[j] = 5)'
         /\ sseq[j] # 5 => Heard[j] = FALSE
         /\ sseq'[j] # 5 => Heard'[j] = FALSE
         /\ HasAppKey(j)' /\ sseq'[j] = 5 => Heard'[j] = TRUE
<1>1. /\ Heard[j] = (HasAppKey(j) /\ sseq[j] = 5)
      /\ Heard'[j] = (HasAppKey(j) /\ sseq[j] = 5)'
  BY DEF Heard
<1>2. sseq[j] # 5 => Heard[j] = FALSE
  BY <1>1, Zenon
<1>3. sseq'[j] # 5 => Heard'[j] = FALSE
  BY <1>1, Zenon
<1>4. HasAppKey(j)' /\ sseq'[j] = 5 => Heard'[j] = TRUE
  BY <1>1, Zenon
<1> QED
  BY <1>1, <1>2, <1>3, <1>4

\* A client that keeps its status and ticket keeps what it holds in the mapping.
LEMMA KeepsKey ==
  ASSUME IInv, IInv', NEW j \in Clients, Keeps(j)
  PROVE  KeyHeld'[j] = KeyHeld[j] /\ Heard'[j] = Heard[j]
<1>1. KeysHeld(j)' = KeysHeld(j)
  <2>1. KeysHeld(j)' = TicketOf(j)' /\ KeysHeld(j) = TicketOf(j)
    BY HeldIsTicket, MappedAfter
  <2>2. TicketOf(j)' = TicketOf(j)
    BY DEF TicketOf, Keeps
  <2> QED
    BY <2>1, <2>2
<1>2. (HasAppKey(j) /\ sseq[j] = 5)' <=> (HasAppKey(j) /\ sseq[j] = 5)
  <2>1. (HasAppKey(j) <=> status[j] = 1) /\ (HasAppKey(j)' <=> status'[j] = 1)
    BY DEF IInv, ClientInv
  <2> QED
    BY <2>1 DEF Keeps
<1>3. KeyHeld[j] = KeysHeld(j) /\ KeyHeld'[j] = KeysHeld(j)'
  BY DEF KeyHeld
<1> QED
  BY <1>1, <1>2, <1>3, HeardThere

\* A step of client k alone changes its own entries of the mapping.
LEMMA MappedAlone ==
  ASSUME IInv, IInv', NEW k \in Clients, Alone(k)
  PROVE  /\ KeyHeld' = [KeyHeld EXCEPT ![k] = KeyHeld'[k]]
         /\ Heard' = [Heard EXCEPT ![k] = Heard'[k]]
         /\ Alive' = [Alive EXCEPT ![k] = Alive'[k]]
<1>1. \A j \in Clients \ {k} : KeyHeld'[j] = KeyHeld[j] /\ Heard'[j] = Heard[j]
  BY KeepsKey DEF Alone
<1>2. \A j \in Clients \ {k} : Alive'[j] = Alive[j]
  BY DEF Alone, Alive
<1>3. KeyHeld = [j \in Clients |-> KeyHeld[j]] /\ KeyHeld' = [j \in Clients |-> KeyHeld'[j]]
  BY DEF KeyHeld
<1>4. Heard = [j \in Clients |-> Heard[j]] /\ Heard' = [j \in Clients |-> Heard'[j]]
  BY DEF Heard
<1>5. Alive = [j \in Clients |-> Alive[j]] /\ Alive' = [j \in Clients |-> Alive'[j]]
  BY DEF Alive
<1>6. KeyHeld' = [KeyHeld EXCEPT ![k] = KeyHeld'[k]]
  BY <1>1, <1>3
<1>7. Heard' = [Heard EXCEPT ![k] = Heard'[k]]
  BY <1>1, <1>4
<1>8. Alive' = [Alive EXCEPT ![k] = Alive'[k]]
  BY <1>2, <1>5
<1> QED
  BY <1>6, <1>7, <1>8

\* Where the connections stay, so do their parts of the mapping.
LEMMA MappedLinks ==
  ASSUME SameLinks
  PROVE  Phases' = Phases /\ Offered' = Offered /\ Spent' = Spent
BY DEF SameLinks, Phases, Offered, Spent

\* A call that returns anything but a new "alive" is a Call, or a stutter.
LEMMA QuietSim ==
  ASSUME IInv, IInv', NEW k \in Clients, Alone(k), Keeps(k), SameLinks,
         outcome'[k] = "alive" => outcome[k] = "alive"
  PROVE  [Agreement!Next]_(Agreement!vars)
<1>1. Phases' = Phases /\ Offered' = Offered /\ Spent' = Spent
  BY MappedLinks
<1>2. KeyHeld'[k] = KeyHeld[k] /\ Heard'[k] = Heard[k]
  BY KeepsKey
<1>3. KeyHeld' = KeyHeld
  BY <1>2, MappedAlone DEF KeyHeld
<1>4. Heard' = Heard
  BY <1>2, MappedAlone DEF Heard
<1>5. Alive' = [Alive EXCEPT ![k] = Alive'[k]]
  BY MappedAlone
<1>6. CASE outcome'[k] = "alive"
  <2>1. Alive'[k] = Alive[k]
    BY <1>6 DEF Alive
  <2>2. Alive' = Alive
    BY <1>5, <2>1 DEF Alive
  <2> QED
    BY <1>1, <1>3, <1>4, <2>2 DEF Agreement!vars
<1>7. CASE outcome'[k] # "alive"
  <2>1. Alive'[k] = FALSE
    BY <1>7 DEF Alive
  <2>2. Agreement!Call(k)
    BY <1>1, <1>3, <1>4, <1>5, <2>1 DEF Agreement!Call
  <2> QED
    BY <2>2 DEF Agreement!Next
<1> QED
  BY <1>6, <1>7

\* Where no record is written and no task goes on, the connections stay.
LEMMA LinksStay ==
  ASSUME UNCHANGED <<task, up, down>>
  PROVE  SameLinks
BY DEF SameLinks, Phase, OfferedOn, FinishedOn

\* A call that fails is quiet.
LEMMA FailSim ==
  ASSUME IInv, IInv', NEW k \in Clients, NEW why, why # "alive", Fail(k, why),
         UNCHANGED <<task, up, down>>
  PROVE  [Agreement!Next]_(Agreement!vars)
<1>1. Alone(k) /\ Keeps(k)
  BY DEF Fail, Return, Alone, Keeps, IInv, TypeOK
<1>2. outcome'[k] # "alive"
  BY DEF Fail, Return, IInv, TypeOK
<1> QED
  BY <1>1, <1>2, LinksStay, QuietSim

\* So is one that returns and leaves the struct as it is but for cseq or conn.
LEMMA ReturnSim ==
  ASSUME IInv, IInv', NEW k \in Clients, NEW why, why # "alive", Return(k, why),
         UNCHANGED <<status, session, sseq, up, down>>,
         \A c \in Conns : Phase(c)' = Phase(c)
  PROVE  [Agreement!Next]_(Agreement!vars)
<1>1. Alone(k) /\ Keeps(k)
  BY DEF Return, Alone, Keeps, IInv, TypeOK
<1>2. outcome'[k] # "alive"
  BY DEF Return, IInv, TypeOK
<1>3. SameLinks
  BY DEF SameLinks, OfferedOn, FinishedOn
<1> QED
  BY <1>1, <1>2, <1>3, QuietSim

\* The steps of a handshake that read a record.
LEMMA HandshakeReadSim ==
  ASSUME IInv, IInv', NEW k \in Clients,
         \/ ReadServerHello(k) \/ ReadSignature(k)
         \/ ReadTicket(k) \/ ReadServerFinish(k)
  PROVE  [Agreement!Next]_(Agreement!vars)
<1>1. status[k] = 0
  BY DEF ReadServerHello, ReadSignature, ReadTicket, ReadServerFinish, IInv,
     ClientInv, PlaceInv, Shaking
<1>2. SameLinks
  BY LinksStay DEF ReadServerHello, ReadSignature, ReadTicket, ReadServerFinish,
     TakeRecord, taskVars
<1>3. status' = status
  BY DEF ReadServerHello, ReadSignature, ReadTicket, ReadServerFinish, Fail
<1>4. \A j \in Clients \ {k} : session'[j] = session[j]
  <2>1. session' = session \/ \E x : session' = [session EXCEPT ![k] = x]
    BY DEF ReadServerHello, ReadSignature, ReadTicket, ReadServerFinish, Fail
  <2> QED
    BY <2>1 DEF IInv, TypeOK
<1>5. \A j \in Clients \ {k} : sseq'[j] = sseq[j]
  BY DEF ReadServerHello, ReadSignature, ReadTicket, ReadServerFinish, Fail,
     IInv, TypeOK
<1>6. outcome' = outcome \/ \E why : why # "alive" /\ outcome' = [outcome EXCEPT ![k] = why]
  BY DEF ReadServerHello, ReadSignature, ReadTicket, ReadServerFinish, Fail,
     Return, Goto
<1>7. Alone(k) /\ Keeps(k) /\ (outcome'[k] = "alive" => outcome[k] = "alive")
  BY <1>1, <1>3, <1>4, <1>5, <1>6 DEF Alone, Keeps, IInv, TypeOK
<1> QED
  BY <1>2, <1>7, QuietSim

\* Steps that end a call without a record.
LEMMA ShortCallSim ==
  ASSUME IInv, IInv', NEW k \in Clients,
         \/ ClientFinishFails(k) \/ ReadFails(k) \/ ReadGarbage(k) \/ Cancel(k)
         \/ HandshakeAgain(k) \/ ConnectFails(k) \/ NoopUnready(k)
         \/ NoopUnconnected(k) \/ NoopFails(k) \/ Close(k)
  PROVE  [Agreement!Next]_(Agreement!vars)
<1>1. CASE ClientFinishFails(k) \/ ReadFails(k) \/ ReadGarbage(k) \/ Cancel(k)
  <2>1. \E why : why # "alive" /\ Fail(k, why)
    BY <1>1 DEF ClientFinishFails, ReadFails, ReadGarbage, Cancel
  <2>2. UNCHANGED <<task, up, down>>
    BY <1>1 DEF ClientFinishFails, ReadFails, ReadGarbage, Cancel, streams, taskVars
  <2> QED
    BY <2>1, <2>2, FailSim
<1>2. CASE \/ HandshakeAgain(k) \/ ConnectFails(k) \/ NoopUnready(k)
           \/ NoopUnconnected(k) \/ NoopFails(k)
  <2>1. \E why : why # "alive" /\ Return(k, why)
    BY <1>2 DEF HandshakeAgain, ConnectFails, NoopUnready, NoopUnconnected,
       NoopFails
  <2>2. UNCHANGED <<status, session, sseq, up, down, task>>
    BY <1>2 DEF HandshakeAgain, ConnectFails, NoopUnready, NoopUnconnected,
       NoopFails, clientVars, streams, taskVars
  <2>3. \A c \in Conns : Phase(c)' = Phase(c)
    BY <2>2 DEF Phase
  <2> QED
    BY <2>1, <2>2, <2>3, ReturnSim
<1>3. CASE Close(k)
  <2>1. UNCHANGED <<status, session, sseq, up, down, task, outcome>>
    BY <1>3 DEF Close, callVars, streams, taskVars
  <2>2. Alone(k) /\ Keeps(k)
    BY <2>1 DEF Alone, Keeps
  <2> QED
    BY <2>1, <2>2, LinksStay, QuietSim
<1> QED
  BY <1>1, <1>2, <1>3

\* To take up or open a connection is not to go on with its task.
LEMMA ConnectPhase ==
  ASSUME IInv, NEW k \in Clients, Connect(k)
  PROVE  \A c \in Conns : Phase(c)' = Phase(c)
<1>1. PICK l : l = Link(k)
  OBVIOUS
<1>2. \/ task' = task
      \/ task[l] = "none" /\ task' = [task EXCEPT ![l] = "hello"]
  BY <1>1, ConnectFacts DEF Unopened
<1>3. task \in [Conns -> Stages]
  BY DEF IInv, TypeOK
<1> QED
  BY <1>2, <1>3 DEF Phase

\* A record that is clear, or a message, finishes no handshake.
LEMMA NoFinishAdded ==
  ASSUME IInv, NEW l \in Conns, NEW r \in Records, r.key = None \/ r.body \in Messages,
         up' = [up EXCEPT ![l] = Append(@, r)]
  PROVE  \A c \in Conns : FinishedOn(c)' <=> FinishedOn(c)
<1>1. up \in [Conns -> Seq(Records)]
  BY DEF IInv, TypeOK
<1>2. ~ (r.key # None /\ "mac" \in DOMAIN r.body)
  <2>1. \A m \in Messages : "mac" \notin DOMAIN m
    BY DEF Messages
  <2> QED
    BY <2>1
<1>3. ASSUME NEW c \in Conns PROVE FinishedOn(c)' <=> FinishedOn(c)
  <2>1. CASE c # l
    <3>1. up'[c] = up[c]
      BY <1>1, <2>1
    <3> QED
      BY <3>1 DEF FinishedOn
  <2>2. CASE c = l
    <3>1. PICK s \in Seq(Records) : s = up[c]
      BY <1>1
    <3>2. up'[c] = Append(s, r)
      BY <1>1, <2>2, <3>1
    <3>3. (\E i \in DOMAIN Append(s, r) : /\ Append(s, r)[i].key # None
                                          /\ "mac" \in DOMAIN Append(s, r)[i].body)
          <=> (\E i \in DOMAIN s : s[i].key # None /\ "mac" \in DOMAIN s[i].body)
      <4>1. DOMAIN s = 1..Len(s) /\ DOMAIN Append(s, r) = 1..Len(s) + 1
        OBVIOUS
      <4>2. \A i \in 1..Len(s) : Append(s, r)[i] = s[i]
        OBVIOUS
      <4>3. Append(s, r)[Len(s) + 1] = r
        OBVIOUS
      <4>4. \A n \in Nat : \A i : i \in 1..n + 1 <=> i \in 1..n \/ i = n + 1
        OBVIOUS
      <4>5. Len(s) \in Nat
        OBVIOUS
      <4> QED
        BY <1>2, <4>1, <4>2, <4>3, <4>4, <4>5
    <3> QED
      BY <3>1, <3>2, <3>3 DEF FinishedOn
  <2> QED
    BY <2>1, <2>2
<1> QED
  BY <1>3

\* A handshake that starts, with its hello or without, leaves all keys alone.
LEMMA StartSim ==
  ASSUME IInv, IInv', NEW k \in Clients,
         StartHandshake(k) \/ HelloFails(k) \/ Reconnect(k)
  PROVE  [Agreement!Next]_(Agreement!vars)
<1>1. CASE Reconnect(k)
  <2>1. \A c \in Conns : Phase(c)' = Phase(c)
    BY <1>1, ConnectPhase DEF Reconnect
  <2>2. Return(k, "handshaken") /\ UNCHANGED <<status, session, sseq, up, down>>
    BY <1>1 DEF Reconnect, streams
  <2> QED
    BY <2>1, <2>2, ReturnSim
<1>2. CASE StartHandshake(k) \/ HelloFails(k)
  <2>1. DrawHello(k)
    BY <1>2 DEF StartHandshake, HelloFails
  <2>2. /\ status[k] = 0 /\ UNCHANGED <<status, session, down>> /\ Connect(k)
        /\ sseq' = [sseq EXCEPT ![k] = 0]
    BY <2>1 DEF DrawHello
  <2>3. outcome' = outcome \/ outcome' = [outcome EXCEPT ![k] = "io"]
    BY <1>2 DEF StartHandshake, HelloFails, Goto, Return
  <2>4. Alone(k) /\ Keeps(k) /\ (outcome'[k] = "alive" => outcome[k] = "alive")
    BY <2>2, <2>3 DEF Alone, Keeps, IInv, TypeOK
  <2>5. \A c \in Conns : FinishedOn(c)' <=> FinishedOn(c)
    <3>1. CASE up' = up
      BY <3>1 DEF FinishedOn
    <3>2. CASE StartHandshake(k)
      <4>1. PICK l \in Conns : l = Link(k)
        BY <2>2 DEF Connect
      <4>2. PICK m \in Messages : m = NextHello(k)
        <5>1. hellos + 1 \in Nat
          BY LongLinkAssumption DEF IInv, TypeOK
        <5> QED
          BY <5>1, MessageTypes DEF NextHello
      <4>3. Clear(m) \in Records /\ Clear(m).key = None
        BY DEF Clear, Records
      <4>4. up' = [up EXCEPT ![l] = Append(@, Clear(m))]
        BY <3>2, <4>1, <4>2 DEF StartHandshake
      <4> QED
        BY <4>3, <4>4, NoFinishAdded
    <3> QED
      BY <1>2, <3>1, <3>2 DEF HelloFails
  <2>6. SameLinks
    BY <2>2, <2>5, ConnectPhase DEF SameLinks, OfferedOn
  <2> QED
    BY <2>4, <2>6, QuietSim
<1> QED
  BY <1>1, <1>2

\* Nor does the request of a noop adopt one.
LEMMA StartNoopSim ==
  ASSUME IInv, IInv', NEW k \in Clients, StartNoop(k)
  PROVE  [Agreement!Next]_(Agreement!vars)
<1>1. UNCHANGED <<status, session, sseq, outcome, down, task>>
  BY DEF StartNoop, Goto, taskVars
<1>2. Alone(k) /\ Keeps(k)
  BY <1>1 DEF Alone, Keeps
<1>3. PICK x, i : x = session[k].app.client /\ i = cseq[k]
  OBVIOUS
<1>4. PICK c \in Conns : c = conn[k]
  BY DEF StartNoop, IInv, TypeOK, Conns
<1>5. up' = [up EXCEPT ![c] = Append(@, Seal(NoopRequest, x, i))]
  BY <1>3, <1>4 DEF StartNoop, NoopRequest
<1>6. NoopRequest \in Messages
  BY MessageTypes
<1>7. x \in Halves /\ i \in Nat
  <2>1. PICK t : t = session[k].ticket
    OBVIOUS
  <2>2. HasAppKey(k) /\ status[k] = 1
    BY DEF StartNoop, IInv, ClientInv
  <2>3. Settled(k, t, conn[k]) /\ t \in Conns
    BY <2>1, <2>2 DEF IInv, ClientInv, HasAppKey, TypeOK, Sessions
  <2>4. session[k].app = AppKeyOf(t) /\ Len(thash[t]) = 4
    BY <2>3 DEF Settled, FinishUp
  <2>5. cseq[k] \in Nat
    BY LongLinkAssumption DEF IInv, TypeOK
  <2> QED
    BY <1>3, <2>3, <2>4, <2>5, DerivedTypes DEF IInv
<1>8. Seal(NoopRequest, x, i) \in Records /\ Seal(NoopRequest, x, i).body \in Messages
  BY <1>6, <1>7, SentTypes
<1>9. \A d \in Conns : FinishedOn(d)' <=> FinishedOn(d)
  BY <1>5, <1>8, NoFinishAdded
<1>10. SameLinks
  BY <1>1, <1>9 DEF SameLinks, Phase, OfferedOn
<1> QED
  BY <1>1, <1>2, <1>10, QuietSim

\* A client that sends its ClientFinish adopts the key of its connection, which
\* was offered, and which no client had adopted.
LEMMA SendClientFinishSim ==
  ASSUME IInv, IInv', NEW k \in Clients, SendClientFinish(k)
  PROVE  [Agreement!Next]_(Agreement!vars)
<1>1. PICK c : c = conn[k]
  OBVIOUS
<1>2. /\ pc[k] = "clientFinish" /\ status[k] = 0 /\ sseq[k] = 4 /\ c \in Conns
      /\ HelloUp(c) /\ Len(down[c]) >= 4 /\ session[k] # None
      /\ session[k].ticket = c
  <2>1. pc[k] = "clientFinish"
    BY DEF SendClientFinish
  <2>2. Shaking(k, c, 4) /\ Agreed(k, c, 4) /\ Ticketed(k, c)
    BY <1>1, <2>1 DEF IInv, ClientInv, PlaceInv
  <2>3. c \in Conns
    BY <2>2, LongLinkAssumption DEF Shaking, IInv, TypeOK, Conns
  <2> QED
    BY <2>1, <2>2, <2>3 DEF Shaking, Agreed, Ticketed
<1>3. /\ UNCHANGED <<down, task, sseq>>
      /\ status' = [status EXCEPT ![k] = 1]
      /\ outcome' = [outcome EXCEPT ![k] = "handshaken"]
  BY DEF SendClientFinish, Return, taskVars
<1>4. PICK x : session' = [session EXCEPT ![k].app = x]
  BY DEF SendClientFinish
<1>5. status'[k] = 1 /\ outcome'[k] = "handshaken" /\ sseq'[k] = 4
  BY <1>2, <1>3 DEF IInv, TypeOK
<1>6. session'[k].ticket = c
  <2>1. session[k] \in Sessions
    BY <1>2 DEF IInv, TypeOK
  <2>2. session'[k] = [session[k] EXCEPT !.app = x]
    BY <1>4 DEF IInv, TypeOK
  <2> QED
    BY <1>2, <2>1, <2>2 DEF Sessions
<1>7. Alone(k)
  BY <1>3, <1>4 DEF Alone, Keeps, IInv, TypeOK
<1>8. c \in Offered /\ c \notin Spent
  <2>1. ~ FinishedOn(c)
    BY <1>2 DEF HelloUp, FinishedOn
  <2> QED
    BY <1>2, <2>1 DEF Offered, OfferedOn, Spent
<1>9. KeyHeld[k] = {} /\ KeyHeld'[k] = {c}
  <2>1. TicketOf(k) = {} /\ TicketOf(k)' = {c}
    BY <1>2, <1>5, <1>6 DEF TicketOf
  <2>2. KeysHeld(k) = {} /\ KeysHeld(k)' = {c}
    BY <2>1, HeldIsTicket, MappedAfter
  <2> QED
    BY <2>2 DEF KeyHeld
<1>10. Heard' = Heard
  <2>1. Heard'[k] = FALSE /\ Heard[k] = FALSE
    <3>1. sseq'[k] # 5 /\ sseq[k] # 5
      BY <1>2, <1>5
    <3> QED
      BY <3>1, HeardThere
  <2>2. Heard' = [Heard EXCEPT ![k] = Heard'[k]]
    BY <1>7, MappedAlone, Zenon
  <2>3. Heard \in [Clients -> BOOLEAN]
    BY DEF Heard
  <2>4. [Heard EXCEPT ![k] = FALSE] = Heard
    BY <2>1, <2>3
  <2> QED
    BY <2>1, <2>2, <2>4
<1>11. Alive'[k] = FALSE
  BY <1>5 DEF Alive
<1>12. Phases' = Phases /\ Offered' = Offered
  BY <1>3 DEF Phases, Phase, Offered, OfferedOn
<1>13. Spent' = Spent \cup {c}
  <2>1. FinishedOn(c)'
    <3>1. Settled(k, session[k].ticket, conn[k])'
      BY <1>5 DEF IInv, ClientInv
    <3>2. FinishUp(c)'
      BY <1>6, <3>1 DEF Settled
    <3> QED
      BY <1>2, <3>2, MappedAfter
  <2>2. \A d \in Conns \ {c} : up'[d] = up[d]
    BY <1>1 DEF SendClientFinish, IInv, TypeOK
  <2>3. \A d \in Conns \ {c} : FinishedOn(d)' <=> FinishedOn(d)
    BY <2>2 DEF FinishedOn
  <2> QED
    BY <1>2, <2>1, <2>3 DEF Spent
<1>14. Agreement!Adopt(k, c)
  <2>1. KeyHeld' = [KeyHeld EXCEPT ![k] = {c}] /\ Alive' = [Alive EXCEPT ![k] = FALSE]
    BY <1>7, <1>9, <1>11, MappedAlone
  <2> QED
    BY <1>8, <1>9, <1>10, <1>12, <1>13, <2>1 DEF Agreement!Adopt
<1> QED
  BY <1>2, <1>14 DEF Agreement!Next

\* A noop() that succeeds hears the answer of the task whose key it holds, which
\* it had not heard before.
LEMMA ReadNoopSim ==
  ASSUME IInv, IInv', NEW k \in Clients, ReadNoop(k)
  PROVE  [Agreement!Next]_(Agreement!vars)
<1>1. PICK c : c = conn[k]
  OBVIOUS
<1>2. pc[k] = "noop" /\ DownHasNext(c) /\ UNCHANGED <<task, up, down>>
  BY <1>1 DEF ReadNoop, TakeRecord, taskVars
<1>3. c \in Conns
  BY <1>1, <1>2 DEF IInv, TypeOK, ClientInv, PlaceInv, Conns
<1>4. /\ status[k] = 1 /\ c = session[k].ticket /\ sseq[k] = 4 /\ Len(down[c]) = 5
      /\ Opens(DownNext(c), session[k].app.server, sseq[k])
      /\ DownNext(c).body.msg = "noopResponse"
  BY <1>1, <1>2, <1>3, NoopOpens
<1>5. /\ Return(k, "alive")
      /\ sseq' = [sseq EXCEPT ![k] = @ + 1]
      /\ UNCHANGED <<status, session>>
  BY <1>1, <1>4 DEF ReadNoop, NextBody
<1>6. sseq'[k] = 5 /\ outcome'[k] = "alive" /\ status'[k] = 1
  <2>1. sseq[k] + 1 = 5
    BY <1>4
  <2> QED
    BY <1>4, <1>5, <2>1 DEF Return, IInv, TypeOK
<1>7. Alone(k)
  BY <1>5 DEF Alone, Keeps, Return, IInv, TypeOK
<1>8. Phases' = Phases /\ Offered' = Offered /\ Spent' = Spent
  BY <1>2, LinksStay, MappedLinks
<1>9. KeyHeld[k] = {c} /\ KeyHeld'[k] = {c}
  <2>1. TicketOf(k) = {c} /\ TicketOf(k)' = {c}
    BY <1>4, <1>5 DEF TicketOf
  <2>2. KeysHeld(k) = {c} /\ KeysHeld(k)' = {c}
    BY <2>1, HeldIsTicket, MappedAfter
  <2> QED
    BY <2>2 DEF KeyHeld
<1>10. KeyHeld' = KeyHeld
  BY <1>7, <1>9, MappedAlone DEF KeyHeld
<1>11. Heard[k] = FALSE /\ Heard'[k] = TRUE /\ Alive'[k] = TRUE
  <2>1. HasAppKey(k)'
    BY <1>6 DEF IInv, ClientInv
  <2>2. Heard[k] = FALSE /\ Heard'[k] = TRUE
    <3>1. sseq[k] # 5
      BY <1>4
    <3> QED
      BY <1>6, <2>1, <3>1, HeardThere
  <2> QED
    BY <1>6, <2>2 DEF Alive
<1>12. Phases[c] = "answered"
  <2>1. task[c] = "done"
    <3>1. task[c] \in Stages /\ ConnInv(c)
      BY <1>3 DEF IInv, TypeOK
    <3>2. Len(down[c]) \notin {0, 1, 2, 3, 4} /\ ~ (Len(down[c]) <= 4)
      BY <1>4
    <3> QED
      BY <3>1, <3>2 DEF ConnInv, TaskInv, Progress, Stages
  <2> QED
    BY <1>3, <2>1 DEF Phases, Phase
<1>13. Agreement!Hear(k)
  <2>1. Heard' = [Heard EXCEPT ![k] = TRUE] /\ Alive' = [Alive EXCEPT ![k] = TRUE]
    BY <1>7, <1>11, MappedAlone
  <2> QED
    BY <1>8, <1>9, <1>10, <1>11, <1>12, <2>1 DEF Agreement!Hear
<1> QED
  BY <1>13 DEF Agreement!Next

\* A client that dies forgets the key it held.
LEMMA ClientRestartSim ==
  ASSUME IInv, IInv', NEW k \in Clients, ClientRestart(k)
  PROVE  [Agreement!Next]_(Agreement!vars)
<1>1. /\ UNCHANGED <<task, up, down>>
      /\ status' = [status EXCEPT ![k] = 0]
      /\ session' = [session EXCEPT ![k] = None]
      /\ sseq' = [sseq EXCEPT ![k] = 0]
      /\ outcome' = [outcome EXCEPT ![k] = "none"]
  BY DEF ClientRestart, Return, streams, taskVars
<1>2. Alone(k)
  BY <1>1 DEF Alone, Keeps, IInv, TypeOK
<1>3. Phases' = Phases /\ Offered' = Offered /\ Spent' = Spent
  BY <1>1, LinksStay, MappedLinks
<1>4. status'[k] = 0 /\ sseq'[k] = 0 /\ outcome'[k] = "none"
  BY <1>1 DEF IInv, TypeOK
<1>5. KeyHeld'[k] = {}
  <2>1. TicketOf(k)' = {}
    BY <1>4 DEF TicketOf
  <2>2. KeysHeld(k)' = {}
    BY <2>1, MappedAfter
  <2> QED
    BY <2>2 DEF KeyHeld
<1>6. Heard'[k] = FALSE /\ Alive'[k] = FALSE
  <2>1. Heard'[k] = FALSE
    <3>1. sseq'[k] # 5
      BY <1>4
    <3> QED
      BY <3>1, HeardThere
  <2> QED
    BY <1>4, <2>1 DEF Alive
<1>7. Agreement!Forget(k)
  <2>1. /\ KeyHeld' = [KeyHeld EXCEPT ![k] = {}]
        /\ Heard' = [Heard EXCEPT ![k] = FALSE]
        /\ Alive' = [Alive EXCEPT ![k] = FALSE]
    BY <1>2, <1>5, <1>6, MappedAlone
  <2> QED
    BY <1>3, <2>1 DEF Agreement!Forget
<1> QED
  BY <1>7 DEF Agreement!Next

-----------------------------------------------------------------------------
(* Steps of the server and the network.                                     *)

\* A step of no client leaves what clients hold and have heard, and the keys that
\* are spent.
LEMMA MappedClients ==
  ASSUME IInv, IInv', UNCHANGED <<status, session, sseq, outcome, up>>
  PROVE  /\ KeyHeld' = KeyHeld /\ Heard' = Heard /\ Alive' = Alive
         /\ Spent' = Spent
<1>1. \A j \in Clients : Keeps(j)
  BY DEF Keeps
<1>2. \A j \in Clients : KeyHeld'[j] = KeyHeld[j] /\ Heard'[j] = Heard[j]
  BY <1>1, KeepsKey
<1>3. KeyHeld' = KeyHeld
  BY <1>2 DEF KeyHeld
<1>4. Heard' = Heard
  BY <1>2 DEF Heard
<1>5. Alive' = Alive /\ Spent' = Spent
  BY DEF Alive, Spent, FinishedOn
<1> QED
  BY <1>3, <1>4, <1>5

\* A task that goes on moves its own phase alone.
LEMMA ReachPhase ==
  ASSUME TypeOK, NEW c \in Conns, NEW place, Reach(c, place)
  PROVE  /\ Phases' = [Phases EXCEPT ![c] = Phase(c)']
         /\ Phases[c] = Phase(c) /\ task'[c] = place
<1>1. \A d \in Conns \ {c} : Phase(d)' = Phase(d)
  BY DEF Reach, Phase, TypeOK
<1>2. task'[c] = place
  BY DEF Reach, TypeOK
<1> QED
  BY <1>1, <1>2 DEF Phases

\* A task that reads a record, or meets an error, goes on serving or opening, has
\* its client's key accepted, or ends.
LEMMA TaskReadSim ==
  ASSUME IInv, IInv', NEW c \in Conns,
         \/ ReadClientHello(c) \/ ReadClientFinish(c) \/ ReadNoopRequest(c)
         \/ TaskFails(c)
  PROVE  [Agreement!Next]_(Agreement!vars)
<1>1. UNCHANGED <<status, session, sseq, outcome, up, down>>
  BY DEF ReadClientHello, ReadClientFinish, ReadNoopRequest, TaskFails, TakeUp,
     callVars, clientVars, streams
<1>2. /\ KeyHeld' = KeyHeld /\ Heard' = Heard /\ Alive' = Alive /\ Spent' = Spent
      /\ Offered' = Offered
  BY <1>1, MappedClients DEF Offered, OfferedOn
<1>3. ASSUME NEW place, Reach(c, place), place \in {"rejected", "failed"},
             task[c] # "done"
      PROVE  [Agreement!Next]_(Agreement!vars)
  <2>1. Phases' = [Phases EXCEPT ![c] = Phase(c)'] /\ task'[c] = place
    BY <1>3, ReachPhase DEF IInv
  <2>2. Phase(c)' = "ended"
    BY <1>3, <2>1 DEF Phase
  <2>3. Phases[c] # "answered"
    BY <1>3 DEF Phases, Phase
  <2>4. Phases' = [d \in Conns |-> IF d \in {c} /\ Phases[d] # "answered"
                                   THEN "ended" ELSE Phases[d]]
    BY <2>1, <2>2, <2>3 DEF Phases
  <2>5. Agreement!End({c})
    BY <1>2, <2>4 DEF Agreement!End
  <2> QED
    BY <2>5 DEF Agreement!Next
<1>4. ASSUME NEW place, Reach(c, place),
             \/ task[c] = "hello" /\ place = "serverHello"
             \/ task[c] = "noop" /\ place = "noopReply"
      PROVE  [Agreement!Next]_(Agreement!vars)
  <2>1. Phases' = [Phases EXCEPT ![c] = Phase(c)'] /\ task'[c] = place
    BY <1>4, ReachPhase DEF IInv
  <2>2. Phase(c)' = Phase(c)
    BY <1>4, <2>1 DEF Phase
  <2>3. Phases' = Phases
    BY <2>1, <2>2 DEF Phases
  <2> QED
    BY <1>2, <2>3 DEF Agreement!vars
<1>5. ASSUME Reach(c, "noop"), task[c] = "clientFinish"
      PROVE  [Agreement!Next]_(Agreement!vars)
  <2>1. /\ Phases' = [Phases EXCEPT ![c] = Phase(c)'] /\ Phases[c] = Phase(c)
        /\ task'[c] = "noop"
    BY <1>5, ReachPhase DEF IInv
  <2>2. Phases[c] = "offered" /\ Phase(c)' = "serving"
    BY <1>5, <2>1 DEF Phase
  <2>3. c \in Spent
    <3>1. FinishUp(c)'
      BY <2>1 DEF IInv, ConnInv, TaskInv
    <3>2. FinishedOn(c)'
      BY <3>1, MappedAfter
    <3> QED
      BY <1>1, <3>2 DEF FinishedOn, Spent
  <2>4. Agreement!Accept(c)
    BY <1>2, <2>1, <2>2, <2>3 DEF Agreement!Accept, Agreement!Reach
  <2> QED
    BY <2>4 DEF Agreement!Next
<1>6. CASE ReadClientHello(c)
  <2>1. /\ task[c] = "hello"
        /\ Reach(c, "serverHello") \/ Reach(c, "rejected")
    BY <1>6 DEF ReadClientHello
  <2> QED
    BY <1>3, <1>4, <2>1
<1>7. CASE ReadClientFinish(c)
  <2>1. task[c] = "clientFinish" /\ (Reach(c, "noop") \/ Reach(c, "rejected"))
    BY <1>7 DEF ReadClientFinish
  <2> QED
    BY <1>3, <1>5, <2>1
<1>8. CASE ReadNoopRequest(c)
  <2>1. task[c] = "noop" /\ (Reach(c, "noopReply") \/ Reach(c, "rejected"))
    BY <1>8 DEF ReadNoopRequest
  <2> QED
    BY <1>3, <1>4, <2>1
<1>9. CASE TaskFails(c)
  <2>1. task[c] # "done" /\ Reach(c, "failed")
    BY <1>9 DEF TaskFails, Running
  <2> QED
    BY <1>3, <2>1
<1> QED
  BY <1>6, <1>7, <1>8, <1>9

\* A task offers its key with ServerFinish, and answers once; what it writes or
\* stores before that goes unnoticed.
LEMMA TaskWriteSim ==
  ASSUME IInv, IInv', NEW c \in Conns,
         \/ SendServerHello(c) \/ SendSignature(c) \/ SendTicket(c)
         \/ StoreSession(c) \/ SendServerFinish(c) \/ SendNoopResponse(c)
  PROVE  [Agreement!Next]_(Agreement!vars)
<1>1. UNCHANGED <<status, session, sseq, outcome, up>>
  BY DEF SendServerHello, SendSignature, SendTicket, StoreSession,
     SendServerFinish, SendNoopResponse, SendSealed, Send, callVars, clientVars,
     streams
<1>2. KeyHeld' = KeyHeld /\ Heard' = Heard /\ Alive' = Alive /\ Spent' = Spent
  BY <1>1, MappedClients
<1>3. \A d \in Conns \ {c} : down'[d] = down[d]
  BY DEF SendServerHello, SendSignature, SendTicket, StoreSession,
     SendServerFinish, SendNoopResponse, SendSealed, Send, streams, IInv, TypeOK
<1>4. ConnInv(c) /\ ConnInv(c)'
  BY DEF IInv
<1>5. ASSUME NEW place, Reach(c, place),
             \/ task[c] = "serverHello" /\ place = "signature"
             \/ task[c] = "signature" /\ place = "ticket"
             \/ task[c] = "ticket" /\ place = "store"
             \/ task[c] = "store" /\ place = "serverFinish"
      PROVE  [Agreement!Next]_(Agreement!vars)
  <2>1. Phases' = [Phases EXCEPT ![c] = Phase(c)'] /\ task'[c] = place
    BY <1>5, ReachPhase DEF IInv
  <2>2. Phase(c)' = Phase(c)
    BY <1>5, <2>1 DEF Phase
  <2>3. Phases' = Phases
    BY <2>1, <2>2 DEF Phases
  <2>4. Len(down[c]) \in 0..3 /\ Len(down'[c]) \in 0..3
    BY <1>4, <1>5, <2>1 DEF ConnInv, TaskInv, Progress
  <2>5. Offered' = Offered
    <3>1. ~ OfferedOn(c) /\ ~ OfferedOn(c)'
      <4>1. \A n \in 0..3 : ~ (n >= 4)
        OBVIOUS
      <4> QED
        BY <2>4, <4>1 DEF OfferedOn
    <3> QED
      BY <1>3, <3>1 DEF Offered, OfferedOn
  <2> QED
    BY <1>2, <2>3, <2>5 DEF Agreement!vars
<1>6. ASSUME Reach(c, "clientFinish"), task[c] = "serverFinish"
      PROVE  [Agreement!Next]_(Agreement!vars)
  <2>1. /\ Phases' = [Phases EXCEPT ![c] = Phase(c)'] /\ Phases[c] = Phase(c)
        /\ task'[c] = "clientFinish"
    BY <1>6, ReachPhase DEF IInv
  <2>2. Phases[c] = "opening" /\ Phase(c)' = "offered"
    BY <1>6, <2>1 DEF Phase
  <2>3. Len(down'[c]) = 4
    BY <1>4, <2>1 DEF ConnInv, TaskInv, Progress
  <2>4. Offered' = Offered \cup {c}
    BY <1>3, <2>3 DEF Offered, OfferedOn
  <2>5. Agreement!Offer(c)
    BY <1>2, <2>1, <2>2, <2>4 DEF Agreement!Offer, Agreement!Reach
  <2> QED
    BY <2>5 DEF Agreement!Next
<1>7. ASSUME Reach(c, "done"), task[c] = "noopReply"
      PROVE  [Agreement!Next]_(Agreement!vars)
  <2>1. /\ Phases' = [Phases EXCEPT ![c] = Phase(c)'] /\ Phases[c] = Phase(c)
        /\ task'[c] = "done"
    BY <1>7, ReachPhase DEF IInv
  <2>2. Phases[c] = "serving" /\ Phase(c)' = "answered"
    BY <1>7, <2>1 DEF Phase
  <2>3. Len(down[c]) = 4 /\ Len(down'[c]) = 5
    BY <1>4, <1>7, <2>1 DEF ConnInv, TaskInv, Progress
  <2>4. Offered' = Offered
    <3>1. OfferedOn(c) /\ OfferedOn(c)'
      BY <2>3 DEF OfferedOn
    <3>2. \A d \in Conns \ {c} : OfferedOn(d)' <=> OfferedOn(d)
      BY <1>3 DEF OfferedOn
    <3> QED
      BY <3>1, <3>2 DEF Offered
  <2>5. Agreement!Reply(c)
    BY <1>2, <2>1, <2>2, <2>4 DEF Agreement!Reply, Agreement!Reach
  <2> QED
    BY <2>5 DEF Agreement!Next
<1>8. \/ \E place : /\ Reach(c, place)
                    /\ \/ task[c] = "serverHello" /\ place = "signature"
                       \/ task[c] = "signature" /\ place = "ticket"
                       \/ task[c] = "ticket" /\ place = "store"
                       \/ task[c] = "store" /\ place = "serverFinish"
      \/ Reach(c, "clientFinish") /\ task[c] = "serverFinish"
      \/ Reach(c, "done") /\ task[c] = "noopReply"
  BY DEF SendServerHello, SendSignature, SendTicket, StoreSession,
     SendServerFinish, SendNoopResponse
<1> QED
  BY <1>5, <1>6, <1>7, <1>8

\* A cut connection goes unnoticed, and a server that dies ends all its tasks but
\* those that have answered.
LEMMA OutsideSim ==
  ASSUME IInv, IInv',
         \/ \E c \in Conns : Break(c)
         \/ ServerRestart
         \/ UNCHANGED vars
  PROVE  [Agreement!Next]_(Agreement!vars)
<1>1. UNCHANGED <<status, session, sseq, outcome, up, down>>
  BY DEF Break, ServerRestart, vars, callVars, clientVars, streams
<1>2. /\ KeyHeld' = KeyHeld /\ Heard' = Heard /\ Alive' = Alive /\ Spent' = Spent
      /\ Offered' = Offered
  BY <1>1, MappedClients DEF Offered, OfferedOn
<1>3. CASE ServerRestart
  <2>1. PICK C \in SUBSET Conns : C = {c \in Conns : Running(c)}
    OBVIOUS
  <2>2. ASSUME NEW c \in Conns
        PROVE  Phase(c)' = IF c \in C /\ Phase(c) # "answered"
                           THEN "ended" ELSE Phase(c)
    <3>1. task'[c] = IF Running(c) THEN "failed" ELSE task[c]
      BY <1>3 DEF ServerRestart
    <3> QED
      BY <2>1, <3>1 DEF Phase, Running
  <2>3. Agreement!End(C)
    BY <1>2, <2>2 DEF Agreement!End, Phases
  <2> QED
    BY <2>3 DEF Agreement!Next
<1>4. CASE task' = task
  BY <1>2, <1>4 DEF Phases, Phase, Agreement!vars
<1> QED
  BY <1>3, <1>4 DEF Break, vars, taskVars

-----------------------------------------------------------------------------
\* Every step of the long link is one of KeyAgreement, or a stutter.
LEMMA NextSim ==
  ASSUME IInv, IInv', [Next]_vars
  PROVE  [Agreement!Next]_(Agreement!vars)
<1>1. ASSUME NEW k \in Clients, ClientStep(k) \/ CallerStep(k) \/ ClientFault(k)
      PROVE  [Agreement!Next]_(Agreement!vars)
  BY <1>1, HandshakeReadSim, SendClientFinishSim, ReadNoopSim, ShortCallSim,
     StartSim, StartNoopSim, ClientRestartSim
     DEF ClientStep, CallerStep, ClientFault
<1>2. ASSUME NEW c \in Conns, ServerStep(c)
      PROVE  [Agreement!Next]_(Agreement!vars)
  BY <1>2, TaskReadSim, TaskWriteSim DEF ServerStep
<1> QED
  BY <1>1, <1>2, OutsideSim DEF Next

\* No key is adopted before the server offered it, nor by two clients; the server
\* serves nobody else; and noop() succeeds once for each key: the long link
\* implements KeyAgreement, for every set of clients and every bound.
THEOREM KeyAgreementImplemented == Spec => ImplementsKeyAgreement
<1>1. Init => Agreement!Init
  <2>1. ASSUME Init PROVE Phases = [c \in Conns |-> "opening"] /\ Offered = {} /\ Spent = {}
    BY <2>1 DEF Init, Phases, Phase, Offered, OfferedOn, Spent, FinishedOn
  <2>2. ASSUME Init
        PROVE  /\ KeyHeld = [k \in Clients |-> {}]
               /\ Heard = [k \in Clients |-> FALSE]
               /\ Alive = [k \in Clients |-> FALSE]
    <3>1. \A k \in Clients : ~ HasAppKey(k) /\ outcome[k] # "alive"
      BY <2>2 DEF Init, HasAppKey
    <3>2. \A k \in Clients : KeysHeld(k) = {}
      BY <3>1 DEF KeysHeld
    <3> QED
      BY <3>1, <3>2 DEF KeyHeld, Heard, Alive
  <2> QED
    BY <2>1, <2>2 DEF Agreement!Init
<1>2. IInv /\ IInv' /\ [Next]_vars => [Agreement!Next]_(Agreement!vars)
  BY NextSim
<1> QED
  BY <1>1, <1>2, Invariance, PTL DEF Spec, ImplementsKeyAgreement, Agreement!Spec
=============================================================================
