---------------------------- MODULE RecordParser ----------------------------
(***************************************************************************)
(* parse_records, the pretty-printer of captured records: a capture is one *)
(* direction of a connection, taken from its beginning and cut anywhere.   *)
(* What is shown of a message is its name and the pieces a reader would    *)
(* compare with the message; lengths, hexadecimal and dates are left out.  *)
(* A step parses one record.                                               *)
(***************************************************************************)
EXTENDS HandshakeCodec, FiniteSets

CONSTANTS
  Messages,  \* what records carry
  Captures   \* sequences of records; a record is its type and its message

VARIABLES
  capture,  \* the records captured
  stream,   \* their bytes, up to the cut
  pos,      \* where the next record starts
  shown     \* the records parsed

parserVars == <<capture, stream, pos, shown>>

Abort == 21
Handshake == 22
Record == 23
System == 25

RecordTypes == {Abort, Handshake, Record, System}

\* What is said of a payload that is not recognised, or not to its end.
Encrypted == [name |-> "Encrypted Payload"]

\* The subtraction of two lengths underflows: the program panics, in a build
\* without overflow checks on the allocation that follows.
Panic == [name |-> "panic"]
Panics(items) == \E i \in DOMAIN items : items[i] = Panic
-----------------------------------------------------------------------------
\* Ciphertext is bytes that are no message, in that the first four are not the
\* length of the rest.  A flaggedHello is the ServerHello of a server that marks
\* it as such, psk the extensions of a 0-RTT request, data a DataRecord.
PayloadBytes(m) ==
  CASE m.kind = "clientHello"  -> HelloBytes(m.hello)
    [] m.kind = "serverHello"  -> ServerHelloBytes(m.hello)
    [] m.kind = "flaggedHello" -> ReplaceAt(ServerHelloBytes(m.hello), 5, 2)
    [] m.kind = "ticket"       -> NewSessionTicketBytes(m.tickets)
    [] m.kind \in {"signature", "finish"} -> TaggedBytes(m.tagged)
    [] m.kind = "psk" ->
         Long(<<8>> \o Long(<<1>> \o Long(<<0, 18>> \o m.timestamp)))
    [] m.kind = "data" ->
         U32(Len(m.data) + 16) \o <<0, 16, 0, 1>> \o m.type \o m.cmd \o m.data
    [] m.kind = "raw"    -> m.data
    [] m.kind = "cipher" -> [i \in 1 .. m.len |-> m.byte]

\* The length of a payload fits the field for it.
ASSUME CaptureAssumption ==
  /\ \A m \in Messages : PayloadBytes(m) \in Seq(Byte) /\ Len(PayloadBytes(m)) < ShortLimit
  /\ Captures \subseteq Seq([type : RecordTypes, message : Messages])

\* What the messages of each kind are, and the records they travel in.
IsMessage(m) ==
  CASE m.kind = "clientHello" ->
         /\ IsClientHello(m.hello)
         /\ PSK \in DOMAIN m.hello.extensions =>
              /\ m.ticket \in SessionTicket
              /\ m.hello.extensions[PSK] = Presented(m.ticket)
    [] m.kind \in {"serverHello", "flaggedHello"} -> m.hello \in ServerHello
    [] m.kind = "ticket"    -> m.tickets \in NewSessionTicket
    [] m.kind = "signature" -> m.tagged \in Tagged /\ m.tagged.type = 15
    [] m.kind = "finish"    -> m.tagged \in Tagged /\ m.tagged.type = 20
    [] m.kind = "psk"       -> m.timestamp \in Fixed(4)
    [] m.kind = "data"      -> m.type \in Fixed(4) /\ m.cmd \in Fixed(4) /\ m.data \in Seq(Byte)
    [] m.kind = "raw"       -> m.data \in Seq(Byte)
    [] m.kind = "cipher"    ->
         /\ m.byte \in Byte /\ m.len \in 16 .. ShortLimit - 1
         /\ Number(PayloadBytes(m), 0, 4) \notin {m.len - 4, m.len}
    [] OTHER -> FALSE

TypesOf(m) ==
  CASE m.kind = "data"   -> {Record}
    [] m.kind = "raw"    -> IF Len(m.data) <= 5 THEN RecordTypes ELSE {Abort}
    [] m.kind = "cipher" -> RecordTypes
    [] OTHER             -> {Handshake, System}

ASSUME MessageAssumption ==
  /\ \A m \in Messages : IsMessage(m)
  /\ \A capt \in Captures : \A i \in DOMAIN capt : capt[i].type \in TypesOf(capt[i].message)

RecordBytes(r) ==
  <<r.type>> \o U16(ProtocolVersion) \o Short(PayloadBytes(r.message))
-----------------------------------------------------------------------------
\* parse_extension on a cursor; a failure (None) leaves the position at the
\* end, so that what extensions are still counted fail as well.
ShowExtension(c) ==
  LET len == Number(c.b, c.pos, 4)
      marker == Number(c.b, c.pos + 4, 2)
      at == c.pos + 6
      entries(Read(_, _)) ==
        IF Has(c.b, at, 1) THEN Read(c.b[at + 1], Cursor(c.b, at + 1))
                           ELSE Fail(Cursor(c.b, at))
      add(to, item) == [to EXCEPT !.items = Append(c.items, item)]
  IN IF ~Has(c.b, c.pos, 6) THEN Fail(c)
     ELSE CASE marker = 15 ->
                 LET e == entries(TicketEntries)
                 IN add(e, [suite |-> PSK, data |-> e.items])
            [] marker = 16 ->
                 LET e == entries(KeyEntries)
                     magic == IF Len(c.b) - e.pos < 13 THEN Len(c.b) - e.pos ELSE 13
                 IN add([e EXCEPT !.pos = @ + magic], [suite |-> ECDHE, data |-> e.items])
            [] OTHER ->
                 IF len < 2 THEN add(Fail(c), Panic)
                 ELSE LET e == Skip([c EXCEPT !.pos = at], len - 2)
                      IN IF e.ok THEN add(e, [suite |-> marker, data |-> <<>>]) ELSE e

\* parse_client_hello_fields.
ShowClientHello(b) ==
  LET exts == ExtensionsAt(b)
      c == Repeat(b[exts], ShowExtension, Cursor(b, exts))
      hello(extensions) == [name |-> "ClientHello", suites |-> SuitesOf(b),
                            random |-> Bytes(b, RandomAt(b), RandomLen),
                            extensions |-> extensions]
  IN IF Len(b) < 8 \/ ~Has(b, RandomAt(b), RandomLen + 4) THEN Encrypted
     ELSE IF ~Has(b, 0, exts) THEN hello(<<>>)
     ELSE IF Panics(c.items) THEN Panic
     ELSE hello(c.items)

\* Variant: the four bytes of the length count among those used.
ShowServerExtensionFromLength(c) ==
  LET key == c.pos + 10
      len == Number(c.b, c.pos, 4)
      used == 12 + Number(c.b, key, 2)
  IN IF ~Has(c.b, c.pos, 12) \/ ~HasShort(c.b, key) THEN Fail(c)
     ELSE IF len < used THEN [Fail(c) EXCEPT !.items = Append(@, Panic)]
     ELSE Skip([c EXCEPT !.pos = PastShort(c.b, key),
                         !.items = Append(@, [key |-> ShortAt(c.b, key)])], len - used)

\* parse_server_hello_extension, the same way.
ShowServerExtension(c) ==
  LET key == c.pos + 10
      len == Number(c.b, c.pos, 4)
      used == 8 + Number(c.b, key, 2)
  IN IF ~Has(c.b, c.pos, 12) \/ ~HasShort(c.b, key) THEN Fail(c)
     ELSE IF len < used THEN [Fail(c) EXCEPT !.items = Append(@, Panic)]
     ELSE Skip([c EXCEPT !.pos = PastShort(c.b, key),
                         !.items = Append(@, [key |-> ShortAt(c.b, key)])], len - used)

\* parse_server_hello_fields.
ShowServerHello(b) ==
  LET exts == RandomLen + 14
      c == Repeat(b[exts], ShowServerExtension, Cursor(b, exts))
      hello(extensions) == [name |-> "ServerHello", suite |-> Number(b, 7, 2),
                            random |-> Bytes(b, 9, RandomLen), extensions |-> extensions]
  IN IF ~Has(b, 0, 9 + RandomLen) THEN Encrypted
     ELSE IF ~Has(b, 0, exts) THEN hello(<<>>)
     ELSE IF Panics(c.items) THEN Panic
     ELSE hello(c.items)

\* parse_psk_extensions_fields: the inner length is not shown, the position of
\* the reader is.
ShowPsk(b) ==
  IF Len(b) < 20 THEN [name |-> "PSK Extensions (0-RTT)", raw |-> SubSeq(b, 6, Len(b))]
  ELSE [name |-> "PSK Extensions (0-RTT)", length |-> Number(b, 5, 4), flag |-> b[10], inner |-> 9,
        marker |-> Number(b, 14, 2), timestamp |-> Bytes(b, 16, 4)]

ShowTicket(b) ==
  LET nst == ReadNewSessionTicket(b)
  IN IF nst = Error THEN Encrypted ELSE [name |-> "NewSessionTicket", tickets |-> nst.tickets]

ShowTagged(b, name) ==
  LET m == ReadTagged(b)
  IN IF m = Error THEN Encrypted ELSE [name |-> name, data |-> m.data]

\* parse_handshake_payload: a payload is told by its length and its flag.
ShowHandshake(b) ==
  IF Number(b, 0, 4) # Len(b) - 4 THEN Encrypted
  ELSE CASE b[5] = 1  -> ShowClientHello(b)
         [] b[5] = 2  -> ShowServerHello(b)
         [] b[5] = 8  -> ShowPsk(b)
         [] b[5] = 15 -> ShowTagged(b, "Signature")
         [] b[5] = 4  -> ShowTicket(b)
         [] b[5] = 20 -> ShowTagged(b, "ServerFinish")
         [] OTHER     -> Encrypted

\* parse_application_data and parse_abort_payload.
ShowData(b) ==
  IF Len(b) >= 16 /\ Number(b, 0, 4) = Len(b)
    THEN [name |-> "Application Data", type |-> Bytes(b, 8, 4), cmd |-> Bytes(b, 12, 4),
          data |-> SubSeq(b, 17, Len(b))]
    ELSE [name |-> "Application Data"]

ShowAbort(b) ==
  [name |-> IF Len(b) >= 5 /\ Number(b, 0, 4) = Len(b) - 4
              THEN "Abort (plaintext)" ELSE "Abort (encrypted)"]

Show(type, b) ==
  CASE type \in {Handshake, System} /\ Len(b) > 5 -> ShowHandshake(b)
    [] type = Record -> ShowData(b)
    [] type = Abort  -> ShowAbort(b)
    [] type = System /\ Len(b) <= 5 -> Encrypted
    [] OTHER -> [name |-> "Unknown"]
-----------------------------------------------------------------------------
\* Variant: a record that ends with the capture is not there to its end.
WholeRecordStrict(b, at) ==
  Has(b, at, 5) /\ at + 5 + Number(b, at + 3, 2) < Len(b)

\* read_sync_record.
WholeRecord(b, at) == Has(b, at, 5) /\ HasShort(b, at + 3)

StreamOf(records) == FlattenSeq([i \in DOMAIN records |-> RecordBytes(records[i])])

ParserInit ==
  /\ capture \in Captures
  /\ LET all == StreamOf(capture)
     IN \E cut \in 0 .. Len(all) : stream = SubSeq(all, 1, cut)
  /\ pos = 0
  /\ shown = <<>>

\* Variant: the header is not consumed.
ParseRecordKeepingHeader ==
  /\ WholeRecord(stream, pos)
  /\ LET type == stream[pos + 1]
         data == ShortAt(stream, pos + 3)
     IN /\ shown' = Append(shown, [type |-> type, data |-> data, fields |-> Show(type, data)])
        /\ pos' = pos + Len(data)
  /\ UNCHANGED <<capture, stream>>

\* An iteration of parse_records; the loop ends at the first record that is not
\* there to its end.
ParseRecord ==
  /\ WholeRecord(stream, pos)
  /\ LET type == stream[pos + 1]
         data == ShortAt(stream, pos + 3)
     IN /\ shown' = Append(shown, [type |-> type, data |-> data, fields |-> Show(type, data)])
        /\ pos' = PastShort(stream, pos + 3)
  /\ UNCHANGED <<capture, stream>>

\* A capture is parsed; a run may leave the parser alone.
ParseSpec == ParserInit /\ [][ParseRecord]_parserVars
-----------------------------------------------------------------------------
ParserTypeOK ==
  /\ capture \in Captures \cup {<<>>}
  /\ pos \in 0 .. Len(stream)
  /\ \A i \in DOMAIN shown : shown[i].type \in RecordTypes

\* However long the capture: exactly the records that are there to their end
\* are reported, each as it was sent, and an incomplete one ends the report
\* without a trace.
WholeRecordsShown ==
  LET whole == {n \in DOMAIN capture : Len(StreamOf(SubSeq(capture, 1, n))) <= Len(stream)}
  IN /\ \A i \in DOMAIN shown :
          i \in whole /\ shown[i].type = capture[i].type
                      /\ shown[i].data = PayloadBytes(capture[i].message)
     /\ ~WholeRecord(stream, pos) => Len(shown) = Cardinality(whole)

\* What the last record parsed was sent as.
Sent == capture[Len(shown)].message
Got == shown[Len(shown)].data

\* A peer reads every handshake message as it was written: each extension of a
\* hello although ECDHE's is not read to its end, and from a hello the very
\* ticket id a session is stored under.
MessagesReadBack ==
  shown # <<>> =>
    /\ Sent.kind = "clientHello" =>
         /\ ReadClientHello(Got) = Sent.hello
         /\ PSK \in DOMAIN Sent.hello.extensions =>
              ReadTicket(ReadClientHello(Got).extensions[PSK][1]).ticket = Sent.ticket.ticket
    /\ Sent.kind = "serverHello" => ReadServerHello(Got) = Sent.hello
    /\ Sent.kind = "ticket" =>
         ReadNewSessionTicket(Got)
           = [reserved |-> 4, count |-> Sent.tickets.count, tickets |-> Sent.tickets.tickets]
    /\ Sent.kind \in {"signature", "finish"} => ReadTagged(Got) = Sent.tagged

\* The session a client keeps with a ticket is loaded as it was saved, and no
\* part of the file is: a save that was cut short is an error, not a session.
\* This is what SessionFile takes Parses from.
TornSessionRefused ==
  shown # <<>> /\ Sent.kind = "ticket" =>
    LET session == [access |-> <<1, 2>>, refresh |-> <<>>, tickets |-> Sent.tickets]
        saved == SessionBytes(session)
    IN /\ LoadSession(saved).tickets.tickets = Sent.tickets.tickets
       /\ \A n \in 0 .. Len(saved) - 1 : LoadSession(SubSeq(saved, 1, n)) = Error

\* The extensions a peer finds in a hello.
ReadExtensions(hello) ==
  {[suite |-> s, data |-> hello.extensions[s]] : s \in DOMAIN hello.extensions}

\* The parser is a second reader of the same bytes.  It agrees with the first,
\* gives every message its name and its content, gives none to ciphertext, and
\* nothing a peer of this library sends makes it panic: not even its ServerHello,
\* which does not have the flag the parser looks for and is read as something else.
ShownIsSent ==
  shown # <<>> =>
    LET fields == shown[Len(shown)].fields
    IN /\ Sent.kind = "clientHello" =>
            /\ fields.name = "ClientHello"
            /\ fields.suites = Sent.hello.suites
            /\ fields.random = Sent.hello.random
            /\ {fields.extensions[i] : i \in DOMAIN fields.extensions}
                 = ReadExtensions(ReadClientHello(Got))
       /\ Sent.kind = "flaggedHello" =>
            fields = [name |-> "ServerHello", suite |-> Sent.hello.suite,
                      random |-> Sent.hello.random,
                      extensions |-> <<[key |-> Sent.hello.key]>>]
       /\ Sent.kind = "ticket" =>
            fields = [name |-> "NewSessionTicket", tickets |-> Sent.tickets.tickets]
       /\ Sent.kind = "signature" => fields = [name |-> "Signature", data |-> Sent.tagged.data]
       /\ Sent.kind = "finish" => fields = [name |-> "ServerFinish", data |-> Sent.tagged.data]
       /\ Sent.kind = "psk" => fields.timestamp = Sent.timestamp
       /\ Sent.kind = "data" =>
            fields = [name |-> "Application Data", type |-> Sent.type, cmd |-> Sent.cmd,
                      data |-> Sent.data]
       /\ Sent.kind = "cipher" =>
            fields \in {Encrypted, [name |-> "Application Data"], [name |-> "Abort (encrypted)"]}
       /\ fields # Panic

\* A ServerHello is shown as one, as the parser's test of a response asserts
\* (parser.rs:1178).
ServerHelloIsNamed ==
  shown # <<>> /\ Sent.kind \in {"serverHello", "flaggedHello"} =>
    shown[Len(shown)].fields.name = "ServerHello"
=============================================================================
