--------------------------- MODULE ShortWireProofs ---------------------------
(***************************************************************************)
(* Proofs about ShortWire, for every request, every length of headers and  *)
(* records, every size of a read, and every width of the length field.     *)
(***************************************************************************)
EXTENDS ShortWire, TLAPS

\* The two ends of the length field's arithmetic: a record that fits keeps its
\* length and overflows nothing; one that keeps its length fits.
LEMMA LengthField ==
  ASSUME NEW n \in Nat
  PROVE  /\ Fits(n) => LengthHolds(n) /\ ~Overflows(n)
         /\ LengthHolds(n) => Fits(n)
<1> USE WireAssumption
<1>1. ASSUME NEW a \in Nat PROVE a % Width \in 0 .. Width - 1
  OBVIOUS
<1>2. ASSUME NEW a \in Nat, a < Width PROVE a % Width = a
  BY <1>2
<1>3. Sealed(n) \in Nat /\ n + Tag = Sealed(n)
  BY DEF Sealed
<1>4. Fits(n) => LengthHolds(n)
  BY <1>2, <1>3 DEF Fits, LengthHolds
<1>5. Fits(n) => ~Overflows(n)
  BY <1>2 DEF Fits, Overflows, Sealed
<1>6. LengthHolds(n) => Fits(n)
  BY <1>1, <1>3 DEF Fits, LengthHolds
<1>7. QED
  BY <1>4, <1>5, <1>6

-----------------------------------------------------------------------------
(* The inductive invariant.                                                *)

Causes == cut \/ pc["client"] = "dropped" \/ TooLong

\* Nothing is read that was not sent, nothing sent that is not the message.
StreamInv ==
  \A p \in Peers : in[p].got <= in[p].sent /\ in[p].sent <= Message(p)

\* What a reader has, and lacks, at each place.
ReaderInv ==
  \A p \in Peers :
    /\ pc[p] = "body" => in[p].left > 0 /\ in[p].got + in[p].left = Message(p)
    /\ pc[p] = "head" => in[p].got < Header(p)
    /\ pc[p] = "open" => in[p].got = Message(p)

\* The client's places, and that it succeeds on a whole answer only.
ClientInv ==
  /\ pc["client"] \in {"pack", "panicked", "write", "head", "body", "open",
                       "ok", "failed", "lost", "dropped"}
  /\ pc["client"] \in {"pack", "panicked"} => in["server"].sent = 0
  /\ pc["client"] = "write" => in["server"].sent < Message("server")
  /\ pc["client"] = "panicked" => TooLong
  /\ pc["client"] = "ok" =>
       in["client"].got = Message("client") /\ LengthHolds(Plain("client"))

\* The server's places: it writes only once it holds the whole request.
ServerInv ==
  /\ pc["server"] \in {"head", "body", "open", "write", "done", "failed", "lost"}
  /\ pc["server"] \in {"head", "body", "open", "failed"} => in["client"].sent = 0
  /\ pc["server"] \in {"write", "lost"} => in["client"].sent < Message("client")
  /\ pc["server"] = "done" => in["client"].sent = Message("client")
  /\ pc["server"] \in {"write", "lost", "done"} =>
       in["server"].got = Message("server") /\ LengthHolds(Plain("server"))

CauseInv == \A p \in Peers : pc[p] \in {"failed", "lost"} => Causes

IInv ==
  /\ TypeOK
  /\ StreamInv
  /\ ReaderInv
  /\ ClientInv
  /\ ServerInv
  /\ CauseInv

-----------------------------------------------------------------------------
\* The lengths are numbers, and a message has a header.
LEMMA Lengths ==
  ASSUME request \in Requests
  PROVE  \A p \in Peers :
           /\ Plain(p) \in Nat
           /\ Header(p) \in Nat \ {0}
           /\ ContentLength(p) \in Nat
           /\ Message(p) = Header(p) + ContentLength(p)
           /\ Message(p) \in Nat
<1>1. request.len \in Nat /\ request.grow \in Nat
  BY WireAssumption
<1>2. Plain("client") \in Nat /\ Plain("server") \in Nat
  BY <1>1, WireAssumption DEF Plain
<1>3. QED
  BY <1>2, WireAssumption DEF Peers, Header, ContentLength, Message, Sealed

\* The lengths depend on the request only.
LEMMA LengthsStable ==
  ASSUME UNCHANGED request
  PROVE  /\ \A p \in Peers :
              /\ Header(p)' = Header(p)
              /\ Message(p)' = Message(p)
              /\ LengthHolds(Plain(p))' <=> LengthHolds(Plain(p))
         /\ TooLong' <=> TooLong
  BY DEF Header, Message, ContentLength, Plain, LengthHolds, TooLong, Fits, Sealed

\* A record that overflows, or whose length does not hold, is too long.
LEMMA TooLongBecause ==
  ASSUME request \in Requests, NEW p \in Peers,
         Overflows(Plain(p)) \/ ~LengthHolds(Plain(p))
  PROVE  TooLong
<1>1. Plain(p) \in Nat
  BY Lengths
<1>2. ~Fits(Plain(p))
  BY <1>1, LengthField
<1>3. QED
  BY <1>2 DEF TooLong, Peers

\* IInv holds at the start.
LEMMA InitInv == Init => IInv
<1> SUFFICES ASSUME Init PROVE IInv
  OBVIOUS
<1>1. request \in Requests
  BY DEF Init
<1>2. \A p \in Peers : Header(p) \in Nat \ {0} /\ Message(p) \in Nat
  BY <1>1, Lengths
<1>3. TypeOK
  BY DEF Init, TypeOK, Peers, Gone
<1>4. StreamInv /\ ReaderInv /\ CauseInv
  BY <1>2 DEF Init, StreamInv, ReaderInv, CauseInv, Peers
<1>5. ClientInv /\ ServerInv
  BY DEF Init, ClientInv, ServerInv, Peers
<1>6. QED
  BY <1>3, <1>4, <1>5 DEF IInv

-----------------------------------------------------------------------------
\* The steps.  In each, a stream and a place change and the rest is stable.

\* The client packs its request, or panics at it.
LEMMA PackStep ==
  ASSUME IInv, (Pack \/ PackPanics)
  PROVE  IInv'
<1>1. request' = request /\ request \in Requests
  BY DEF Pack, PackPanics, IInv, TypeOK
<1>2. \A q \in Peers :
        /\ Header(q) \in Nat \ {0} /\ ContentLength(q) \in Nat
        /\ Message(q) = Header(q) + ContentLength(q)
  BY <1>1, Lengths
<1>3. /\ \A q \in Peers :
           /\ Header(q)' = Header(q)
           /\ Message(q)' = Message(q)
           /\ LengthHolds(Plain(q))' <=> LengthHolds(Plain(q))
      /\ TooLong' <=> TooLong
  BY <1>1, LengthsStable
<1>4. \A q \in Peers :
        Overflows(Plain(q)) \/ ~LengthHolds(Plain(q)) => TooLong
  BY <1>1, TooLongBecause
<1> USE DEF IInv
<1>5. TypeOK'
  BY <1>1, <1>2 DEF Pack, PackPanics, TypeOK, Peers, Gone, Goto
<1>6. StreamInv'
  BY <1>1, <1>2, <1>3 DEF Pack, PackPanics, TypeOK, StreamInv, Peers, Goto
<1>7. ReaderInv'
  BY <1>1, <1>2, <1>3
    DEF Pack, PackPanics, TypeOK, StreamInv, ReaderInv, ClientInv, ServerInv, Peers,
        Goto
<1>8. ClientInv'
  BY <1>1, <1>2, <1>3, <1>4
    DEF Pack, PackPanics, TypeOK, StreamInv, ReaderInv, ClientInv, Peers, Goto
<1>9. ServerInv'
  BY <1>1, <1>2, <1>3, <1>4
    DEF Pack, PackPanics, TypeOK, StreamInv, ReaderInv, ServerInv, Peers, Goto
<1>10. CauseInv'
  BY <1>1, <1>2, <1>3, <1>4
    DEF Pack, PackPanics, TypeOK, StreamInv, ReaderInv, ClientInv, ServerInv, CauseInv,
        Causes, Peers, Gone, Goto
<1>11. QED
  BY <1>5, <1>6, <1>7, <1>8, <1>9, <1>10

\* A piece of a message goes to the socket.
LEMMA WriteStep ==
  ASSUME NEW p \in Peers, IInv, Write(p)
  PROVE  IInv'
<1>1. request' = request /\ request \in Requests
  BY DEF Write, Other, IInv, TypeOK
<1>2. \A q \in Peers :
        /\ Header(q) \in Nat \ {0} /\ ContentLength(q) \in Nat
        /\ Message(q) = Header(q) + ContentLength(q)
  BY <1>1, Lengths
<1>3. /\ \A q \in Peers :
           /\ Header(q)' = Header(q)
           /\ Message(q)' = Message(q)
           /\ LengthHolds(Plain(q))' <=> LengthHolds(Plain(q))
      /\ TooLong' <=> TooLong
  BY <1>1, LengthsStable
<1>4. \A q \in Peers :
        Overflows(Plain(q)) \/ ~LengthHolds(Plain(q)) => TooLong
  BY <1>1, TooLongBecause
<1> USE DEF IInv
<1>5. TypeOK'
  BY <1>1, <1>2 DEF Write, Other, TypeOK, Peers, Gone, Goto
<1>6. StreamInv'
  BY <1>1, <1>2, <1>3 DEF Write, Other, TypeOK, StreamInv, Peers, Goto
<1>7. ReaderInv'
  BY <1>1, <1>2, <1>3
    DEF Write, Other, TypeOK, StreamInv, ReaderInv, ClientInv, ServerInv, Peers, Goto
<1>8. ClientInv'
  BY <1>1, <1>2, <1>3, <1>4 DEF Write, Other, TypeOK, StreamInv, ReaderInv, ClientInv, Peers, Goto
<1>9. ServerInv'
  BY <1>1, <1>2, <1>3, <1>4 DEF Write, Other, TypeOK, StreamInv, ReaderInv, ServerInv, Peers, Goto
<1>10. CauseInv'
  BY <1>1, <1>2, <1>3, <1>4
    DEF Write, Other, TypeOK, StreamInv, ReaderInv, ClientInv, ServerInv, CauseInv,
        Causes, Peers, Gone, Goto
<1>11. QED
  BY <1>5, <1>6, <1>7, <1>8, <1>9, <1>10

\* A write fails for a cause: a peer that is done has read all that was written.
LEMMA WriteFailsStep ==
  ASSUME NEW p \in Peers, IInv, WriteFails(p)
  PROVE  IInv'
<1>1. request' = request /\ request \in Requests
  BY DEF WriteFails, Other, IInv, TypeOK
<1>2. \A q \in Peers :
        /\ Header(q) \in Nat \ {0} /\ ContentLength(q) \in Nat
        /\ Message(q) = Header(q) + ContentLength(q)
  BY <1>1, Lengths
<1>3. /\ \A q \in Peers :
           /\ Header(q)' = Header(q)
           /\ Message(q)' = Message(q)
           /\ LengthHolds(Plain(q))' <=> LengthHolds(Plain(q))
      /\ TooLong' <=> TooLong
  BY <1>1, LengthsStable
<1>4. \A q \in Peers :
        Overflows(Plain(q)) \/ ~LengthHolds(Plain(q)) => TooLong
  BY <1>1, TooLongBecause
<1> USE DEF IInv
<1>5. TypeOK'
  BY <1>1, <1>2 DEF WriteFails, Other, TypeOK, Peers, Gone, Goto
<1>6. StreamInv'
  BY <1>1, <1>2, <1>3 DEF WriteFails, Other, TypeOK, StreamInv, Peers, Goto
<1>7. ReaderInv'
  BY <1>1, <1>2, <1>3
    DEF WriteFails, Other, TypeOK, StreamInv, ReaderInv, ClientInv, ServerInv, Peers,
        Goto
<1>8. ClientInv'
  BY <1>1, <1>2, <1>3, <1>4
    DEF WriteFails, Other, TypeOK, StreamInv, ReaderInv, ClientInv, Peers, Goto
<1>9. ServerInv'
  BY <1>1, <1>2, <1>3, <1>4
    DEF WriteFails, Other, TypeOK, StreamInv, ReaderInv, ServerInv, Peers, Goto
<1>10. CauseInv'
  BY <1>1, <1>2, <1>3, <1>4
    DEF WriteFails, Other, TypeOK, StreamInv, ReaderInv, ClientInv, ServerInv, CauseInv,
        Causes, Peers, Gone, Goto
<1>11. QED
  BY <1>5, <1>6, <1>7, <1>8, <1>9, <1>10

\* A read while the header is incomplete.
LEMMA ReadHeaderStep ==
  ASSUME NEW p \in Peers, IInv, ReadHeader(p)
  PROVE  IInv'
<1>1. request' = request /\ request \in Requests
  BY DEF ReadHeader, Readable, Monus, IInv, TypeOK
<1>2. \A q \in Peers :
        /\ Header(q) \in Nat \ {0} /\ ContentLength(q) \in Nat
        /\ Message(q) = Header(q) + ContentLength(q)
  BY <1>1, Lengths
<1>3. /\ \A q \in Peers :
           /\ Header(q)' = Header(q)
           /\ Message(q)' = Message(q)
           /\ LengthHolds(Plain(q))' <=> LengthHolds(Plain(q))
      /\ TooLong' <=> TooLong
  BY <1>1, LengthsStable
<1>4. \A q \in Peers :
        Overflows(Plain(q)) \/ ~LengthHolds(Plain(q)) => TooLong
  BY <1>1, TooLongBecause
<1> USE DEF IInv
<1>5. TypeOK'
  BY <1>1, <1>2 DEF ReadHeader, Readable, Monus, TypeOK, Peers, Gone, Goto
<1>6. StreamInv'
  BY <1>1, <1>2, <1>3 DEF ReadHeader, Readable, Monus, TypeOK, StreamInv, Peers, Goto
<1>7. ReaderInv'
  BY <1>1, <1>2, <1>3
    DEF ReadHeader, Readable, Monus, TypeOK, StreamInv, ReaderInv, ClientInv, ServerInv,
        Peers, Goto
<1>8. ClientInv'
  BY <1>1, <1>2, <1>3, <1>4
    DEF ReadHeader, Readable, Monus, TypeOK, StreamInv, ReaderInv, ClientInv, Peers,
        Goto
<1>9. ServerInv'
  BY <1>1, <1>2, <1>3, <1>4
    DEF ReadHeader, Readable, Monus, TypeOK, StreamInv, ReaderInv, ServerInv, Peers,
        Goto
<1>10. CauseInv'
  BY <1>1, <1>2, <1>3, <1>4
    DEF ReadHeader, Readable, Monus, TypeOK, StreamInv, ReaderInv, ClientInv, ServerInv,
        CauseInv, Causes, Peers, Gone, Goto
<1>11. QED
  BY <1>5, <1>6, <1>7, <1>8, <1>9, <1>10

\* A read of the body.
LEMMA ReadBodyStep ==
  ASSUME NEW p \in Peers, IInv, ReadBody(p)
  PROVE  IInv'
<1>1. request' = request /\ request \in Requests
  BY DEF ReadBody, Readable, Monus, IInv, TypeOK
<1>2. \A q \in Peers :
        /\ Header(q) \in Nat \ {0} /\ ContentLength(q) \in Nat
        /\ Message(q) = Header(q) + ContentLength(q)
  BY <1>1, Lengths
<1>3. /\ \A q \in Peers :
           /\ Header(q)' = Header(q)
           /\ Message(q)' = Message(q)
           /\ LengthHolds(Plain(q))' <=> LengthHolds(Plain(q))
      /\ TooLong' <=> TooLong
  BY <1>1, LengthsStable
<1>4. \A q \in Peers :
        Overflows(Plain(q)) \/ ~LengthHolds(Plain(q)) => TooLong
  BY <1>1, TooLongBecause
<1> USE DEF IInv
<1>5. TypeOK'
  BY <1>1, <1>2 DEF ReadBody, Readable, Monus, TypeOK, Peers, Gone, Goto
<1>6. StreamInv'
  BY <1>1, <1>2, <1>3 DEF ReadBody, Readable, Monus, TypeOK, StreamInv, Peers, Goto
<1>7. ReaderInv'
  BY <1>1, <1>2, <1>3
    DEF ReadBody, Readable, Monus, TypeOK, StreamInv, ReaderInv, ClientInv, ServerInv,
        Peers, Goto
<1>8. ClientInv'
  BY <1>1, <1>2, <1>3, <1>4
    DEF ReadBody, Readable, Monus, TypeOK, StreamInv, ReaderInv, ClientInv, Peers, Goto
<1>9. ServerInv'
  BY <1>1, <1>2, <1>3, <1>4
    DEF ReadBody, Readable, Monus, TypeOK, StreamInv, ReaderInv, ServerInv, Peers, Goto
<1>10. CauseInv'
  BY <1>1, <1>2, <1>3, <1>4
    DEF ReadBody, Readable, Monus, TypeOK, StreamInv, ReaderInv, ClientInv, ServerInv,
        CauseInv, Causes, Peers, Gone, Goto
<1>11. QED
  BY <1>5, <1>6, <1>7, <1>8, <1>9, <1>10

\* A read fails for a cause: a peer that is done has written the whole message.
LEMMA ReadFailsStep ==
  ASSUME NEW p \in Peers, IInv, ReadFails(p)
  PROVE  IInv'
<1>1. request' = request /\ request \in Requests
  BY DEF ReadFails, Other, IInv, TypeOK
<1>2. \A q \in Peers :
        /\ Header(q) \in Nat \ {0} /\ ContentLength(q) \in Nat
        /\ Message(q) = Header(q) + ContentLength(q)
  BY <1>1, Lengths
<1>3. /\ \A q \in Peers :
           /\ Header(q)' = Header(q)
           /\ Message(q)' = Message(q)
           /\ LengthHolds(Plain(q))' <=> LengthHolds(Plain(q))
      /\ TooLong' <=> TooLong
  BY <1>1, LengthsStable
<1>4. \A q \in Peers :
        Overflows(Plain(q)) \/ ~LengthHolds(Plain(q)) => TooLong
  BY <1>1, TooLongBecause
<1> USE DEF IInv
<1>5. TypeOK'
  BY <1>1, <1>2 DEF ReadFails, Other, TypeOK, Peers, Gone, Goto
<1>6. StreamInv'
  BY <1>1, <1>2, <1>3 DEF ReadFails, Other, TypeOK, StreamInv, Peers, Goto
<1>7. ReaderInv'
  BY <1>1, <1>2, <1>3
    DEF ReadFails, Other, TypeOK, StreamInv, ReaderInv, ClientInv, ServerInv, Peers,
        Goto
<1>8. ClientInv'
  BY <1>1, <1>2, <1>3, <1>4
    DEF ReadFails, Other, TypeOK, StreamInv, ReaderInv, ClientInv, Peers, Goto
<1>9. ServerInv'
  BY <1>1, <1>2, <1>3, <1>4
    DEF ReadFails, Other, TypeOK, StreamInv, ReaderInv, ServerInv, Peers, Goto
<1>10. CauseInv'
  BY <1>1, <1>2, <1>3, <1>4
    DEF ReadFails, Other, TypeOK, StreamInv, ReaderInv, ClientInv, ServerInv, CauseInv,
        Causes, Peers, Gone, Goto
<1>11. QED
  BY <1>5, <1>6, <1>7, <1>8, <1>9, <1>10

\* The server opens the request, or fails to.
LEMMA ServeStep ==
  ASSUME IInv, (Serve \/ ServeFails)
  PROVE  IInv'
<1>1. request' = request /\ request \in Requests
  BY DEF Serve, ServeFails, RecordsOpen, IInv, TypeOK
<1>2. \A q \in Peers :
        /\ Header(q) \in Nat \ {0} /\ ContentLength(q) \in Nat
        /\ Message(q) = Header(q) + ContentLength(q)
  BY <1>1, Lengths
<1>3. /\ \A q \in Peers :
           /\ Header(q)' = Header(q)
           /\ Message(q)' = Message(q)
           /\ LengthHolds(Plain(q))' <=> LengthHolds(Plain(q))
      /\ TooLong' <=> TooLong
  BY <1>1, LengthsStable
<1>4. \A q \in Peers :
        Overflows(Plain(q)) \/ ~LengthHolds(Plain(q)) => TooLong
  BY <1>1, TooLongBecause
<1> USE DEF IInv
<1>5. TypeOK'
  BY <1>1, <1>2 DEF Serve, ServeFails, RecordsOpen, TypeOK, Peers, Gone, Goto
<1>6. StreamInv'
  BY <1>1, <1>2, <1>3 DEF Serve, ServeFails, RecordsOpen, TypeOK, StreamInv, Peers, Goto
<1>7. ReaderInv'
  BY <1>1, <1>2, <1>3
    DEF Serve, ServeFails, RecordsOpen, TypeOK, StreamInv, ReaderInv, ClientInv,
        ServerInv, Peers, Goto
<1>8. ClientInv'
  BY <1>1, <1>2, <1>3, <1>4
    DEF Serve, ServeFails, RecordsOpen, TypeOK, StreamInv, ReaderInv, ClientInv, Peers,
        Goto
<1>9. ServerInv'
  BY <1>1, <1>2, <1>3, <1>4
    DEF Serve, ServeFails, RecordsOpen, TypeOK, StreamInv, ReaderInv, ServerInv, Peers,
        Goto
<1>10. CauseInv'
  BY <1>1, <1>2, <1>3, <1>4
    DEF Serve, ServeFails, RecordsOpen, TypeOK, StreamInv, ReaderInv, ClientInv,
        ServerInv, CauseInv, Causes, Peers, Gone, Goto
<1>11. QED
  BY <1>5, <1>6, <1>7, <1>8, <1>9, <1>10

\* The client opens the answer, or fails to.
LEMMA ReturnStep ==
  ASSUME IInv, Return
  PROVE  IInv'
<1>1. request' = request /\ request \in Requests
  BY DEF Return, RecordsOpen, IInv, TypeOK
<1>2. \A q \in Peers :
        /\ Header(q) \in Nat \ {0} /\ ContentLength(q) \in Nat
        /\ Message(q) = Header(q) + ContentLength(q)
  BY <1>1, Lengths
<1>3. /\ \A q \in Peers :
           /\ Header(q)' = Header(q)
           /\ Message(q)' = Message(q)
           /\ LengthHolds(Plain(q))' <=> LengthHolds(Plain(q))
      /\ TooLong' <=> TooLong
  BY <1>1, LengthsStable
<1>4. \A q \in Peers :
        Overflows(Plain(q)) \/ ~LengthHolds(Plain(q)) => TooLong
  BY <1>1, TooLongBecause
<1> USE DEF IInv
<1>5. TypeOK'
  BY <1>1, <1>2 DEF Return, RecordsOpen, TypeOK, Peers, Gone, Goto
<1>6. StreamInv'
  BY <1>1, <1>2, <1>3 DEF Return, RecordsOpen, TypeOK, StreamInv, Peers, Goto
<1>7. ReaderInv'
  BY <1>1, <1>2, <1>3
    DEF Return, RecordsOpen, TypeOK, StreamInv, ReaderInv, ClientInv, ServerInv, Peers,
        Goto
<1>8. ClientInv'
  BY <1>1, <1>2, <1>3, <1>4
    DEF Return, RecordsOpen, TypeOK, StreamInv, ReaderInv, ClientInv, Peers, Goto
<1>9. ServerInv'
  BY <1>1, <1>2, <1>3, <1>4
    DEF Return, RecordsOpen, TypeOK, StreamInv, ReaderInv, ServerInv, Peers, Goto
<1>10. CauseInv'
  BY <1>1, <1>2, <1>3, <1>4
    DEF Return, RecordsOpen, TypeOK, StreamInv, ReaderInv, ClientInv, ServerInv,
        CauseInv, Causes, Peers, Gone, Goto
<1>11. QED
  BY <1>5, <1>6, <1>7, <1>8, <1>9, <1>10

\* The call is dropped or the connection cut.
LEMMA OutsideStep ==
  ASSUME IInv, (Drop \/ Cut)
  PROVE  IInv'
<1>1. request' = request /\ request \in Requests
  BY DEF Drop, Cut, IInv, TypeOK
<1>2. \A q \in Peers :
        /\ Header(q) \in Nat \ {0} /\ ContentLength(q) \in Nat
        /\ Message(q) = Header(q) + ContentLength(q)
  BY <1>1, Lengths
<1>3. /\ \A q \in Peers :
           /\ Header(q)' = Header(q)
           /\ Message(q)' = Message(q)
           /\ LengthHolds(Plain(q))' <=> LengthHolds(Plain(q))
      /\ TooLong' <=> TooLong
  BY <1>1, LengthsStable
<1>4. \A q \in Peers :
        Overflows(Plain(q)) \/ ~LengthHolds(Plain(q)) => TooLong
  BY <1>1, TooLongBecause
<1> USE DEF IInv
<1>5. TypeOK'
  BY <1>1, <1>2 DEF Drop, Cut, TypeOK, Peers, Gone, Goto
<1>6. StreamInv'
  BY <1>1, <1>2, <1>3 DEF Drop, Cut, TypeOK, StreamInv, Peers, Goto
<1>7. ReaderInv'
  BY <1>1, <1>2, <1>3 DEF Drop, Cut, TypeOK, StreamInv, ReaderInv, ClientInv, ServerInv, Peers, Goto
<1>8. ClientInv'
  BY <1>1, <1>2, <1>3, <1>4 DEF Drop, Cut, TypeOK, StreamInv, ReaderInv, ClientInv, Peers, Goto
<1>9. ServerInv'
  BY <1>1, <1>2, <1>3, <1>4 DEF Drop, Cut, TypeOK, StreamInv, ReaderInv, ServerInv, Peers, Goto
<1>10. CauseInv'
  BY <1>1, <1>2, <1>3, <1>4
    DEF Drop, Cut, TypeOK, StreamInv, ReaderInv, ClientInv, ServerInv, CauseInv, Causes,
        Peers, Gone, Goto
<1>11. QED
  BY <1>5, <1>6, <1>7, <1>8, <1>9, <1>10
-----------------------------------------------------------------------------
\* Every step keeps the invariant.
LEMMA NextInv == IInv /\ [Next]_vars => IInv'
<1> SUFFICES ASSUME IInv, [Next]_vars PROVE IInv'
  OBVIOUS
<1>1. ASSUME NEW p \in Peers, Progress(p) PROVE IInv'
  BY <1>1, WriteStep, WriteFailsStep, ReadHeaderStep, ReadBodyStep, ReadFailsStep
     DEF Progress
<1>2. CASE Client
  BY <1>2, <1>1, PackStep, ReturnStep DEF Client, Peers
<1>3. CASE Server
  BY <1>3, <1>1, ServeStep DEF Server, Peers
<1>4. CASE Drop \/ Cut
  BY <1>4, OutsideStep
<1>5. CASE UNCHANGED vars
  <2>1. request' = request /\ request \in Requests
    BY <1>5 DEF vars, IInv, TypeOK
  <2>2. QED
    BY <1>5, <2>1, LengthsStable DEF vars, IInv, TypeOK, StreamInv, ReaderInv,
       ClientInv, ServerInv, CauseInv, Causes, Peers, Gone
<1>6. QED
  BY <1>2, <1>3, <1>4, <1>5 DEF Next

\* The inductive invariant holds throughout.
THEOREM WireInvariance == Spec => []IInv
<1>1. QED
  BY InitInv, NextInv, PTL DEF Spec

\* The variables keep their types.
THEOREM WireTypeCorrect == Spec => []TypeOK
<1>1. IInv => TypeOK
  BY DEF IInv
<1>2. QED
  BY <1>1, WireInvariance, PTL

\* parse_http_request_body and parse_response return exactly the message that
\* was sent, for every size of message and in whatever pieces it arrives.
THEOREM BodiesArriveWhole == Spec => []BodiesAreWhole
<1>1. IInv => BodiesAreWhole
  BY DEF IInv, ReaderInv, BodiesAreWhole
<1>2. QED
  BY <1>1, WireInvariance, PTL

\* A call or its server fails only after a cut, a dropped call, or a record that
\* outgrew its length field.
THEOREM FailuresHaveCauses == Spec => []FailsOnlyForCause
<1>1. IInv => FailsOnlyForCause
  BY DEF IInv, ClientInv, ServerInv, CauseInv, Causes, FailsOnlyForCause, Peers
<1>2. QED
  BY <1>1, WireInvariance, PTL

\* request() succeeds only on a whole answer to a whole request, both of which
\* fit their records' length fields.
THEOREM OkIsWhole == Spec => []OkMeansWhole
<1>1. ASSUME IInv, pc["client"] = "ok"
      PROVE  ~TooLong /\ \A p \in Peers : in[p].got = Message(p)
  <2>1. request \in Requests
    BY <1>1 DEF IInv, TypeOK
  <2>2. /\ in["client"].got = Message("client")
        /\ LengthHolds(Plain("client"))
        /\ in["client"].sent > 0
    BY <1>1, <2>1, Lengths DEF IInv, TypeOK, ClientInv, StreamInv, Peers
  <2>3. in["server"].got = Message("server") /\ LengthHolds(Plain("server"))
    BY <1>1, <2>2 DEF IInv, ServerInv
  <2>4. Fits(Plain("client")) /\ Fits(Plain("server"))
    BY <2>1, <2>2, <2>3, Lengths, LengthField DEF Peers
  <2>5. QED
    BY <2>2, <2>3, <2>4 DEF TooLong, Peers
<1>2. IInv => OkMeansWhole
  BY <1>1 DEF OkMeansWhole
<1>3. QED
  BY <1>2, WireInvariance, PTL
-----------------------------------------------------------------------------
(* The steps of RequestReply.                                              *)

\* A call that ends without an answer gives up.
LEMMA ClientRefines ==
  ASSUME IInv, Client \/ Drop
  PROVE  [Service!Next]_(Service!vars)
<1> USE DEF Service!vars, Service!Next, Asked, Handled, Question, Answered
<1>1. CASE Pack
  <2>1. Service!Ask(1, 1)
    BY <1>1 DEF IInv, TypeOK, Pack, Goto, Peers, Service!Ask
  <2>2. QED
    BY <2>1
<1>2. CASE PackPanics
  BY <1>2 DEF IInv, TypeOK, PackPanics, Goto, Peers
<1>3. CASE Write("client") \/ ReadHeader("client") \/ ReadBody("client")
  BY <1>3 DEF IInv, TypeOK, Write, ReadHeader, ReadBody, Goto, Peers, Other
<1>4. CASE WriteFails("client") \/ ReadFails("client") \/ Drop
  <2>1. Service!GiveUp(1)
    BY <1>4 DEF IInv, TypeOK, WriteFails, ReadFails, Drop, Goto, Peers, Service!GiveUp
  <2>2. QED
    BY <2>1
<1>5. CASE Return /\ RecordsOpen("client")
  <2>1. pc["server"] \in {"write", "done", "lost"}
    BY <1>5, Lengths DEF Return, IInv, TypeOK, ReaderInv, StreamInv, ServerInv, Peers
  <2>2. Service!Answer(1)
    BY <1>5, <2>1 DEF IInv, TypeOK, Return, Goto, Peers, Service!Answer
  <2>3. QED
    BY <2>2
<1>6. CASE Return /\ ~RecordsOpen("client")
  <2>1. Service!GiveUp(1)
    BY <1>6 DEF IInv, TypeOK, Return, Goto, Peers, Service!GiveUp
  <2>2. QED
    BY <2>1
<1>7. QED
  BY <1>1, <1>2, <1>3, <1>4, <1>5, <1>6 DEF Client, Progress

\* Of the server's steps, serving handles the question, which was asked.
LEMMA ServerRefines ==
  ASSUME IInv, Server \/ Cut \/ UNCHANGED vars
  PROVE  [Service!Next]_(Service!vars)
<1> USE DEF Service!vars, Service!Next, Asked, Handled, Question, Answered
<1>1. CASE Serve
  <2>1. in["server"].sent > 0
    BY <1>1, Lengths DEF Serve, IInv, TypeOK, ReaderInv, StreamInv, Peers
  <2>2. Asked = {1}
    BY <2>1 DEF IInv, ClientInv
  <2>3. Service!Handle(1)
    BY <1>1, <2>2 DEF IInv, TypeOK, Serve, Goto, Peers, Service!Handle
  <2>4. QED
    BY <2>3
<1>2. CASE Progress("server")
  BY <1>2 DEF IInv, TypeOK, Progress, Write, WriteFails, ReadHeader, ReadBody,
     ReadFails, Goto, Peers, Other
<1>3. CASE ServeFails \/ Cut \/ UNCHANGED vars
  BY <1>3 DEF IInv, TypeOK, ServeFails, Cut, Goto, Peers, vars
<1>4. QED
  BY <1>1, <1>2, <1>3 DEF Server

\* Byte for byte, a request is handled at most once, after it was asked, and its
\* caller gets its answer after that or gives up: the steps of RequestReply.
THEOREM WireRequestReplySteps ==
  Spec => Service!Init /\ [][Service!Next]_(Service!vars)
<1>1. Init => Service!Init
  BY DEF Init, Service!Init, Asked, Handled, Question, Answered, Peers
<1>2. IInv /\ [Next]_vars => [Service!Next]_(Service!vars)
  BY ClientRefines, ServerRefines DEF Next
<1>3. QED
  BY <1>1, <1>2, WireInvariance, PTL DEF Spec
=============================================================================
