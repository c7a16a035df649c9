------------------------------ MODULE MCCodecs ------------------------------
(***************************************************************************)
(* Instances of RecordParser, ProtobufJson and CivilDate for TLC, one run  *)
(* for the three: a behaviour parses a capture, converts a request or      *)
(* counts days, and leaves the rest alone.                                 *)
(***************************************************************************)
EXTENDS RecordParser, ProtobufJson, CivilDate

Fill(n, b) == [i \in 1 .. n |-> b]
Key(b) == <<4>> \o Fill(KeyLen - 1, b)
Random == [i \in 1 .. RandomLen |-> 100 + i]
Now == <<104, 0, 0, 1>>

Ticket == [type |-> 1, lifetime |-> <<0, 0, 28, 32>>, ageAdd |-> Fill(4, 9),
           reserved |-> Fill(4, 0), nonce |-> Fill(8, 7), ticket |-> Fill(16, 5)]
Tickets == [count |-> 2, tickets |-> <<Ticket, [Ticket EXCEPT !.ticket = <<>>]>>]

ClientHello(h) == [kind |-> "clientHello", hello |-> h, ticket |-> Ticket]
Hello(suite) == [version |-> ProtocolVersion, suite |-> suite, random |-> Random, key |-> Key(3)]
Cipher(n, b) == [kind |-> "cipher", len |-> n, byte |-> b]
Rec(type, message) == [type |-> type, message |-> message]

Keys == <<Key(1), Key(2)>>

CaptureSet == {
  <<Rec(Handshake, ClientHello(NewEcdheHello(Keys, Random, Now))),
    Rec(Handshake, Cipher(55, 255)), Rec(Record, Cipher(32, 0))>>,
  <<Rec(Handshake, ClientHello(NewPskOneHello(Keys, Ticket, Random, Now)))>>,
  <<Rec(System, ClientHello(NewPskZeroHello(Ticket, Random, Now))),
    Rec(System, Cipher(36, 0)), Rec(Record, Cipher(60, 255)), Rec(Abort, Cipher(23, 0))>>,
  <<Rec(Handshake, [kind |-> "serverHello", hello |-> Hello(ECDHE)]),
    Rec(Handshake, Cipher(94, 0)), Rec(Handshake, Cipher(68, 255)),
    Rec(Handshake, Cipher(55, 0)), Rec(Record, Cipher(32, 255))>>,
  <<Rec(Handshake, [kind |-> "serverHello", hello |-> Hello(PSK)]),
    Rec(Handshake, Cipher(55, 255)), Rec(Record, Cipher(60, 0)), Rec(Abort, Cipher(23, 255))>>,
  <<Rec(Handshake, [kind |-> "flaggedHello", hello |-> Hello(ECDHE)]),
    Rec(Handshake, [kind |-> "signature", tagged |-> [type |-> 15, data |-> Fill(20, 48)]]),
    Rec(Handshake, [kind |-> "ticket", tickets |-> Tickets]),
    Rec(Handshake, [kind |-> "finish", tagged |-> [type |-> 20, data |-> Fill(32, 6)]])>>,
  <<Rec(System, [kind |-> "psk", timestamp |-> Now]),
    Rec(Record, [kind |-> "data", type |-> <<0, 0, 0, 6>>, cmd |-> Fill(4, 255), data |-> <<>>]),
    Rec(Record, [kind |-> "data", type |-> <<0, 0, 0, 1>>, cmd |-> <<0, 0, 0, 1>>,
                 data |-> Fill(5, 104)]),
    Rec(Abort, [kind |-> "raw", data |-> <<0, 0, 0, 3, 0, 1, 1>>]),
    Rec(Abort, [kind |-> "raw", data |-> <<0>>]), Rec(System, [kind |-> "raw", data |-> <<0>>]),
    Rec(Handshake, [kind |-> "raw", data |-> <<>>])>>}

MessageSet == UNION {{capt[i].message : i \in DOMAIN capt} : capt \in CaptureSet}
-----------------------------------------------------------------------------
\* Numbers at the bounds of one and two bytes of a varint, and of the word.
Numbers == {Number64(n) : n \in {0, 127, 128, -1, 2^14 - 1, 2^15 - 1, -2^14}}

\* "", "a", "hello", "hi" (which spells field 13 = 105), and 128 bytes.
Texts == {Text(<<>>), Text(<<97>>), Text(<<104, 101, 108, 108, 111>>), Text(<<104, 105>>),
          Text(Fill(128, 97))}
Leaves == Numbers \cup Texts \cup {Null, <<"bool", TRUE>>, Unsupported}

\* Field numbers: small, the first whose tag has two bytes, the last that fits a
\* tag (2^7 - 1 here, 2^29 - 1 there), and two that do not.
FieldNumbers == {1, 13, 16, 127, 128, 129}

Inner ==
  {Object(<<>>), Object(<<<<1, Null>>>>), Object(<<<<1, Number64(300)>>, <<1, Text(<<97>>)>>>>),
   Object(<<<<2, Object(<<<<3, Text(<<104, 105>>)>>>>)>>>>), Object(<<<<NoField, Null>>>>),
   Array(<<>>), Array(<<Number64(1), Array(<<Text(<<104, 105>>), Null, Number64(128)>>)>>),
   Array(<<Object(<<>>), Object(<<<<1, Number64(2)>>>>)>>)}

JsonValues ==
  {Object(<<<<f, v>>, <<g, w>>>>) : f, g \in FieldNumbers, v \in Leaves, w \in Inner}
    \cup {Object(<<<<f, v>>, <<1, w>>>>) : f \in {0, 1, 129}, v \in Inner, w \in Leaves}
    \cup Leaves \cup Inner \cup {Array(<<v, w>>) : v, w \in Inner}

NoCapture == capture = <<>> /\ stream = <<>> /\ pos = 0 /\ shown = <<>>
NoRequest == json = Null /\ wire = <<Refused>> /\ view = <<>>

vars == <<parserVars, cliVars, dateVars>>

NoDate == day = LastDay /\ date = <<>>

Parse == ParseRecord /\ UNCHANGED <<cliVars, dateVars>>
Convert == (EncodeRequest \/ ShowAnswer) /\ UNCHANGED <<parserVars, dateVars>>
Count == Midnight /\ UNCHANGED <<parserVars, cliVars>>

ParserSpec == ParserInit /\ NoRequest /\ NoDate /\ [][Parse]_vars

CliSpec == CliInit /\ NoCapture /\ NoDate /\ [][Convert]_vars

Init ==
  \/ ParserInit /\ NoRequest /\ NoDate
  \/ CliInit /\ NoCapture /\ NoDate
  \/ DateInit /\ NoCapture /\ NoRequest

Next == Parse \/ Convert \/ Count

Spec == Init /\ [][Next]_vars
=============================================================================
