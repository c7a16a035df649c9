--------------------------- MODULE HandshakeCodec ---------------------------
(***************************************************************************)
(* The bytes of the handshake messages and of the session file: what the   *)
(* serialize functions write and what the read functions make of it.  The  *)
(* other modules take a message to be read as it was written; this one     *)
(* says why, byte by byte, because lengths, counts and the order of the    *)
(* extensions decide it.  Bytes are numbers up to 255, integers are        *)
(* big-endian, positions count from zero as a Cursor's do.                 *)
(***************************************************************************)
EXTENDS Integers, Sequences, SequencesExt, TLC

CONSTANTS
  RandomLen,   \* bytes of a hello's random (32)
  KeyLen       \* bytes of an uncompressed public key (65)

ASSUME CodecAssumption == RandomLen \in 1 .. 255 /\ KeyLen \in 1 .. 255

PSK == 168      \* TLS_PSK_WITH_AES_128_GCM_SHA256, 0x00A8
ECDHE == 49195  \* TLS_ECDHE_ECDSA_WITH_AES_128_GCM_SHA256, 0xC02B
ProtocolVersion == 61700  \* 0xF104

\* What a read function returns when it fails.
Error == [failed |-> TRUE]
-----------------------------------------------------------------------------
Byte == 0 .. 255
ShortLimit == 65536  \* what the length of a Short stays below

U16(n) == <<n \div 256, n % 256>>
U32(n) == <<0, n \div 65536, (n \div 256) % 256, n % 256>>

\* write_u16_len_data and write_u32_len_data; the latter is also what a length
\* placeholder filled in later comes to.
Short(data) == U16(Len(data)) \o data
Long(data) == U32(Len(data)) \o data

Bytes(b, pos, n) == SubSeq(b, pos + 1, pos + n)
Has(b, pos, n) == pos + n <= Len(b)

\* A number larger than the length of any message.
Huge == 256 * 256 * 256

\* An integer of two bytes, or of four; of those that do not fit, only that
\* they are huge.
Number(b, pos, n) ==
  IF n = 2 THEN 256 * b[pos + 1] + b[pos + 2]
  ELSE IF b[pos + 1] > 0 THEN Huge
  ELSE 65536 * b[pos + 2] + 256 * b[pos + 3] + b[pos + 4]

\* read_u16_len_data: whether it succeeds, its data and where it ends.
HasShort(b, pos) == Has(b, pos, 2) /\ Has(b, pos + 2, Number(b, pos, 2))
ShortAt(b, pos) == Bytes(b, pos + 2, Number(b, pos, 2))
PastShort(b, pos) == pos + 2 + Number(b, pos, 2)

\* A Cursor and what was read with it.  A read past the end fails and leaves
\* the position at the end.
Cursor(b, pos) == [b |-> b, pos |-> pos, ok |-> TRUE, items |-> <<>>]
Fail(c) == [c EXCEPT !.pos = Len(c.b), !.ok = FALSE]
Skip(c, n) == IF Has(c.b, c.pos, n) THEN [c EXCEPT !.pos = @ + n] ELSE Fail(c)

\* A loop that reads n things, and none after one it cannot read.
Repeat(n, Step(_), c) ==
  LET after[i \in 0 .. n] ==
        IF i = 0 THEN c ELSE LET d == after[i - 1] IN IF d.ok THEN Step(d) ELSE d
  IN after[n]

\* An entry: skip bytes, a length of width bytes, and the data to keep.
Entry(c, skip, width) ==
  LET at == c.pos + skip
      n == Number(c.b, at, width)
  IN IF Has(c.b, at, width) /\ Has(c.b, at + width, n)
       THEN [c EXCEPT !.pos = at + width + n,
                      !.items = Append(@, Bytes(c.b, at + width, n))]
       ELSE Fail(c)

Entries(n, skip, width, c) == Repeat(n, LAMBDA d : Entry(d, skip, width), c)

\* Tickets, as a PSK extension has them; the keys of an ECDHE extension, each after
\* the length of its entry and its flag.
TicketEntries(n, c) == Entries(n, 0, 4, c)
KeyEntries(n, c) == Entries(n, 8, 2, c)
-----------------------------------------------------------------------------
\* SessionTicket.  Integers that are only copied stay bytes.
Fixed(n) == {s \in Seq(Byte) : Len(s) = n}

SessionTicket ==
  [type : Byte, lifetime : Fixed(4), ageAdd : Seq(Byte), reserved : Fixed(4),
   nonce : Seq(Byte), ticket : Seq(Byte)]

TicketBytes(t) ==
  <<t.type>> \o t.lifetime \o Short(t.ageAdd) \o t.reserved \o Short(t.nonce)
    \o Short(t.ticket)

ReadTicket(b) ==
  LET reserved == PastShort(b, 5)
      nonce == reserved + 4
      ticket == PastShort(b, nonce)
  IN IF HasShort(b, 5) /\ HasShort(b, nonce) /\ HasShort(b, ticket)
       THEN [type |-> b[1], lifetime |-> Bytes(b, 1, 4), ageAdd |-> ShortAt(b, 5),
             reserved |-> Bytes(b, reserved, 4), nonce |-> ShortAt(b, nonce),
             ticket |-> ShortAt(b, ticket)]
       ELSE Error

\* NewSessionTicket; the count is that of the tickets.
NewSessionTicket ==
  {nst \in [count : Byte, tickets : Seq(SessionTicket)] : nst.count = Len(nst.tickets)}

NewSessionTicketBytes(nst) ==
  Long(<<4, nst.count>>
         \o FlattenSeq([i \in DOMAIN nst.tickets |-> Long(TicketBytes(nst.tickets[i]))]))

\* Variant: a ticket that is not there to its end ends the list.
ReadNewSessionTicketLenient(b) ==
  LET entries == TicketEntries(b[6], Cursor(b, 6))
      tickets == [i \in DOMAIN entries.items |-> ReadTicket(entries.items[i])]
  IN IF Len(b) >= 6 /\ \A i \in DOMAIN tickets : tickets[i] # Error
       THEN [reserved |-> b[5], count |-> b[6], tickets |-> tickets]
       ELSE Error

ReadNewSessionTicket(b) ==
  LET entries == TicketEntries(b[6], Cursor(b, 6))
      tickets == [i \in DOMAIN entries.items |-> ReadTicket(entries.items[i])]
  IN IF Len(b) >= 6 /\ entries.ok /\ \A i \in DOMAIN tickets : tickets[i] # Error
       THEN [reserved |-> b[5], count |-> b[6], tickets |-> tickets]
       ELSE Error

\* Signature, ServerFinish and ClientFinish: a type byte and data.
Tagged == [type : Byte, data : Seq(Byte)]

TaggedBytes(m) == Long(<<m.type>> \o Short(m.data))

ReadTagged(b) ==
  IF Has(b, 0, 5) /\ HasShort(b, 5)
    THEN [type |-> b[5], data |-> ShortAt(b, 5)]
    ELSE Error
-----------------------------------------------------------------------------
\* ClientHello: extensions maps a cipher suite to the keys or tickets sent for it.
NewHello(suites, extensions, random, timestamp) ==
  [version |-> ProtocolVersion, suites |-> suites, random |-> random,
   timestamp |-> timestamp, extensions |-> extensions]

\* The hellos the constructors below make.
IsClientHello(h) ==
  /\ h = NewHello(h.suites, h.extensions, h.random, h.timestamp)
  /\ h.random \in Fixed(RandomLen) /\ h.timestamp \in Fixed(4)
  /\ h.suites \in {<<ECDHE>>, <<ECDHE, PSK>>, <<PSK>>}
  /\ h.extensions \in [ToSet(h.suites) -> Seq(Seq(Byte))]
  /\ ECDHE \in DOMAIN h.extensions => Len(h.extensions[ECDHE]) \in Byte
  /\ PSK \in DOMAIN h.extensions => Len(h.extensions[PSK]) = 1

\* A hello presents a ticket without its ticket_age_add.
Presented(ticket) == <<TicketBytes([ticket EXCEPT !.ageAdd = <<>>])>>

NewEcdheHello(keys, random, timestamp) ==
  NewHello(<<ECDHE>>, ECDHE :> keys, random, timestamp)
NewPskOneHello(keys, ticket, random, timestamp) ==
  NewHello(<<ECDHE, PSK>>, ECDHE :> keys @@ PSK :> Presented(ticket), random, timestamp)
NewPskZeroHello(ticket, random, timestamp) ==
  NewHello(<<PSK>>, PSK :> Presented(ticket), random, timestamp)

TrailingMagic == <<0, 0, 0, 0, 2, 0, 0, 0, 3, 0, 0, 0, 4>>

ExtensionBytes(suite, items) ==
  IF suite = PSK
    THEN Long(<<0, 15, 1>> \o Long(items[1]))
    ELSE Long(<<0, 16, Len(items)>>
                \o FlattenSeq([i \in DOMAIN items |-> Long(U32(4 + i) \o Short(items[i]))])
                \o TrailingMagic)

HelloHead(h) ==
  <<1>> \o Reverse(U16(h.version)) \o <<Len(h.suites)>>
    \o FlattenSeq([i \in DOMAIN h.suites |-> U16(h.suites[i])])
    \o h.random \o h.timestamp

\* Variant: the extensions in the order of the suites.
HelloBytesInOrder(h) ==
  Long(HelloHead(h)
         \o Long(<<Len(h.suites)>>
                   \o FlattenSeq([i \in DOMAIN h.suites |->
                                    ExtensionBytes(h.suites[i], h.extensions[h.suites[i]])])))

\* The extensions go the other way round than the suites, so that ECDHE's,
\* which read_client_hello leaves two bytes early, is the last.
HelloBytes(h) ==
  Long(HelloHead(h)
         \o Long(<<Len(h.suites)>>
                   \o FlattenSeq(Reverse([i \in DOMAIN h.suites |->
                                    ExtensionBytes(h.suites[i], h.extensions[h.suites[i]])]))))

Monus(a, b) == IF a > b THEN a - b ELSE 0

\* The rest of an extension, from which its two bytes of type are taken twice.
SkipRest(c, len, start) == Skip(c, Monus(Monus(len, 2), c.pos - start))

ReadExtension(c) ==
  LET len == Number(c.b, c.pos, 4)
      start == c.pos + 4
      type == Number(c.b, start, 2)
      count == c.b[start + 3]
      entries(Read(_, _)) ==
        IF Has(c.b, start, 3) THEN Read(count, Cursor(c.b, start + 3)) ELSE Fail(c)
      keep(e, suite) ==
        [e EXCEPT !.items = Append(c.items, [suite |-> suite, data |-> e.items])]
  IN IF ~Has(c.b, c.pos, 6) THEN Fail(c)
     ELSE CASE type = 15 -> keep(entries(TicketEntries), PSK)
            [] type = 16 -> LET e == entries(KeyEntries)
                            IN keep(IF e.ok THEN SkipRest(e, len, start) ELSE e, ECDHE)
            [] OTHER -> SkipRest([c EXCEPT !.pos = start + 2], len, start)

\* A HashMap: the last extension of a type stays.
ByCipher(items) ==
  [suite \in {items[i].suite : i \in DOMAIN items} |->
     LET last == CHOOSE i \in DOMAIN items :
                   /\ items[i].suite = suite
                   /\ \A j \in DOMAIN items : items[j].suite = suite => j <= i
     IN items[last].data]

\* Where the random and the extensions of a hello start.
RandomAt(b) == 8 + 2 * b[8]
ExtensionsAt(b) == RandomAt(b) + RandomLen + 9

SuitesOf(b) == [i \in 1 .. b[8] |-> Number(b, 6 + 2 * i, 2)]

ReadClientHello(b) ==
  LET c == Repeat(b[ExtensionsAt(b)], ReadExtension, Cursor(b, ExtensionsAt(b)))
  IN IF Len(b) >= 8 /\ Has(b, 0, ExtensionsAt(b)) /\ c.ok
       THEN [version |-> b[6] + 256 * b[7], suites |-> SuitesOf(b),
             random |-> Bytes(b, RandomAt(b), RandomLen),
             timestamp |-> Bytes(b, RandomAt(b) + RandomLen, 4),
             extensions |-> ByCipher(c.items)]
       ELSE Error
-----------------------------------------------------------------------------
\* ServerHello; serialize writes 1 for the flag.
ServerHello ==
  [version : 0 .. ShortLimit - 1, suite : {ECDHE, PSK}, random : Fixed(RandomLen),
   key : Fixed(KeyLen)]

ServerHelloBytes(h) ==
  Long(<<1>> \o U16(h.version) \o U16(h.suite) \o h.random
         \o Long(<<1>> \o Long(<<0, 16, 0, 0, 0, 1>> \o Short(h.key))))

\* The key is at a fixed place; a point is one if it has its length.
ReadServerHello(b) ==
  LET key == 24 + RandomLen
  IN IF /\ Len(b) >= 4
        /\ Len(b) = Number(b, 0, 4) + 4
        /\ Has(b, 0, key)
        /\ HasShort(b, key)
        /\ Len(ShortAt(b, key)) = KeyLen
       THEN [version |-> Number(b, 5, 2), suite |-> Number(b, 7, 2),
             random |-> Bytes(b, 9, RandomLen), key |-> ShortAt(b, key)]
       ELSE Error
-----------------------------------------------------------------------------
\* Session::save and load.  A session here is psk_access, psk_refresh and the
\* tickets.
SessionBytes(s) ==
  Short(s.access) \o Short(s.refresh) \o NewSessionTicketBytes(s.tickets)

LoadSession(b) ==
  LET rest == PastShort(b, PastShort(b, 0))
      tickets == ReadNewSessionTicket(SubSeq(b, rest + 1, Len(b)))
  IN IF HasShort(b, 0) /\ HasShort(b, PastShort(b, 0)) /\ tickets # Error
       THEN [access |-> ShortAt(b, 0), refresh |-> ShortAt(b, PastShort(b, 0)),
             tickets |-> tickets]
       ELSE Error
=============================================================================
