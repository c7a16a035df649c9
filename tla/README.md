# zhangxiaolong-rs: a TLA+ model of its mmtls implementation

zhangxiaolong-rs reimplements a WeChat server in Rust.  What the repository
contains today is `mmtls`, the transport WeChat runs over TCP: a client for each
of its two link types, a server for both, the handshake messages, the record
layer and a pretty-printer for captured records; around it a command-line client
and a Frida script that redirects an Android client.

This directory models the protocol engine: the two clients, the server, the
sessions they share, and everything that happens to them from outside (connections
lost or cut, calls dropped at an `await`, processes that die and start again,
sessions saved to a file and loaded by another process); and below and around it the
bytes: records and bodies in pieces of any size, the handshake messages and the session
file byte by byte, the parser of captured records, and the command-line tool's
conversions between JSON and protobuf.  Paths below are relative
to `src/crates/mmtls/src/` unless they say otherwise.

## The system

| part | source | state it keeps | operations |
|---|---|---|---|
| short-link client, `MmtlsClientShort` | `mmtls_short.rs` | `status`, `session`, `handshake_hasher`, both sequence numbers, the response being read (`packet_reader`) | `handshake`, `request`, `close` |
| long-link client, `MmtlsClient` | `mmtls.rs` | the same, and the `TcpStream` in `conn` | `handshake`, `noop`, `close` |
| server, `MmtlsServer` | `server.rs` | a P-256 key pair and a signing key drawn at start, the `sessions` map behind a mutex; per connection the locals of its task | `handle_http_connection` (short link), `handle_raw_connection` (long link) |
| session file | `session.rs`, `session_ticket.rs` | ticket and `psk_access` on disk | `save`, `load` |
| symbolic cryptography | `crypto.rs`, `util.rs`, `record.rs` | none | ECDH, HKDF, AES-GCM records with a nonce XORed with a sequence number, ECDSA verification |
| handshake messages | `client_hello.rs`, `server_hello.rs`, `signature.rs`, `server_finish.rs`, `client_finish.rs`, `session_ticket.rs`, `consts.rs` | none | build, serialise and read |
| HTTP framing | `mmtls_short.rs:348-414`, `server.rs:551-604`, `http_util.rs` | bytes read so far | chunked reads until `content_length` bytes are there |
| record parser | `parser.rs` | a cursor | pretty-prints captured records |
| command-line tool | `crates/mmtls-cli` | none | JSON to protobuf, one request, protobuf to JSON |
| Frida scripts | `android-scripts` | an address list | redirects `connect()` |
| library interface | `lib.rs`, `types.rs` | none | re-exports, error type |

### How the parts interact

* A short-link **handshake** is one HTTP request with a ClientHello in the clear
  and one HTTP response with four records: ServerHello, then the signature, a
  NewSessionTicket and ServerFinish under a handshake key.  The server stores
  (ticket id, `psk_access`) in `sessions`; the client keeps the ticket and its own
  derivation of `psk_access`.
* A short-link **request** opens another connection, presents the ticket in a PSK
  hello and seals three records (extensions, request, abort) under the early key
  derived from `psk_access`; the server looks the ticket up, opens them and seals
  ServerFinish, the echoed request and an abort under a key derived from
  `psk_access` and the transcript of both hellos.  `request()` runs a handshake
  first when it has no session.
* A long-link **handshake** exchanges the same records, plus the client's
  ClientFinish, one at a time over one stream; then both ends derive an application
  key, and a **noop** is a record each way under it.
* Client and server share nothing but bytes.  Three pieces of state have to agree
  for a record to open: the secret, the transcript hashed so far (each end hashes
  and derives in its own order), and the sequence number.
* The `zhangxiaolong` binary serves the short link; the tests run the long link.  All
  connection tasks of a server share `sessions`.  Clients share a session file.

### What is hard in it

`PROJECT.json` lists the hazards with their lines and the properties aimed at
them.  In short:

* **Agreement of two hand-written sequences.**  Client and server each interleave
  hashing, deriving and counting; a swap on one side shows only as a failed tag.
* **State that outlives a call.**  The hasher, the sequence numbers, the session and
  (long link) the connection live in the struct and survive an early return or a
  future dropped at an `await`.
* **A session outlives the server process** that knows its ticket, in memory and on
  disk, and one ticket is used many times, by several processes.
* **No timeouts anywhere.**  A call ends only because the other side answers, drops
  the connection, or the connection breaks.
* **Partial effects.**  The session is replaced before ServerFinish is checked; the
  long-link server sends a ticket before it stores the session; an answer may be
  lost after the server acted.
* **Lengths.**  Bodies arrive in pieces of any size, a record's length has 16 bits, and
  every message is written and read by its own arithmetic on nested lengths, the
  pretty-printer's a third time.

### What makes each part correct

* Short link: honest peers always open each other's records; a ticket is honoured
  as long as the server that issued it lives, with the right key, and refused only
  after it died; no call runs without a session; no key and nonce seal two records;
  a call returns, with the answer to its own request or an error.
* Long link: a connection taken up again never passes for a handshaken one; the
  application keys agree; a ticket is stored once the handshake is over; peers part
  only where the connection was misused; `noop()` succeeds only on a server's answer;
  no key and nonce seal two records; calls return and tasks end.
* Session file: a load that no save disturbs yields the last session saved, whole, or an
  error; one that overlaps with a single save, over a file that was whole, a session that
  was saved, whole, or an error.
* HTTP framing: a body is read to its last byte and not past it, however it arrives; a
  call fails for a cause; a record whose length outgrew 16 bits is never taken for one.
* Messages: what is read is what was written, although the extensions of a hello are
  written in one order and read to different ends.
* Record parser: it agrees with the readers of the protocol, names what it shows, and
  no message of this library makes it panic.
* Command-line tool: a request whose field numbers fit a tag comes back as it was, up to
  what protobuf without a schema cannot tell apart.

## The modules

| module | models |
|---|---|
| `MmtlsCrypto` | messages, transcripts, derived keys and records as symbolic terms |
| `ShortLink` | short-link clients × server tasks × session file |
| `RequestReply` | abstract: what `request()` promises its caller |
| `LongLink` | long-link clients × server tasks over two byte streams per connection |
| `KeyAgreement` | abstract: what the long link promises its two ends |
| `ShortWire` | the bytes of one short-link `request()`, read in pieces of any size |
| `SessionFile` | saves and loads of one session file, concurrent, interrupted and failing |
| `HandshakeCodec` | operators: the bytes of the handshake messages and of the session file |
| `RecordParser` | `parse_records` over a capture cut anywhere |
| `ProtobufJson` | JSON to protobuf and back, in the command-line tool |
| `CivilDate` | the date of a timestamp, beside a calendar |
| `MCShortLink`, `MCLongLink`, `MCShortWire`, `MCCodecs` | instances for TLC |
| `ShortLinkProofs` | theorems about `ShortLink` |
| `LongLinkProofs`, `LongLinkNonceProofs`, `LongLinkRefinementProofs` | theorems about `LongLink` |
| `ShortWireProofs` | theorems about `ShortWire` |
| `SessionFileProofs` | theorems about `SessionFile` |
| `HandshakeCodecProofs` | theorems about `HandshakeCodec`: what is read is what was written |
| `RecordParserProofs` | theorems about `RecordParser`, whose step is one record, and `CivilDate` |

Operators whose comment begins with "Variant:" belong to no behaviour: each is a
definition with a plausible slip in it, and `PROJECT.json` ("mutants") says which
property fails when it takes the original's place.

### `MmtlsCrypto`

A running SHA-256 is the sequence of messages fed to it; HKDF is the record of its
inputs; a sealed record opens only with the key half and sequence number it was
sealed with, which is what AES-GCM's nonce and additional data tie together
(`record.rs`).  `TrafficKey56` and `TrafficKey28` keep the two ways
`compute_traffic_key_n` fills a key pair, and `ToServerHalf` the move both ends make
of a 28-byte response key.  Randomness is a number nobody else draws: a message is its kind, its `fresh` number and
what it refers to.  The verification key compiled into the client belongs to no
server of this repository (`MmtlsServer` draws its signing key), so a client that
leaves `verify_ecdsa` on refuses every handshake: those are the `Verifying` clients.

### `ShortLink`

| code | actions |
|---|---|
| `handshake`, `mmtls_short.rs:45-157` | `HandshakeAgain`, `StartHandshake`, `ReceiveResponse`, `ReceiveFails`, `ReadServerHello`, `ReadSignature`, `ReadTicket`, `ReadFinish` |
| `request` and `pack_http`, `mmtls_short.rs:159-305` | `StartRequest` (or `StartHandshake` when it has no session), `SendRequest`, `ConnectRefused`, `ReadPskHello`, `ReadPskFinish`, `ReadData`, `ReadAbort` |
| `Session::save`, `load` | `SaveSession`, `LoadSession` |
| `handle_ecdhe_short_link`, `handle_psk_short_link`, `server.rs:261-510` | `IssueTicket`, `AnswerRequest`, `RefuseRequest`, `Respond` |
| outside | `Cancel`, `ClientRestart`, `Lose`, `ServerRestart` |

A connection is a number, and it also stands for the random bytes drawn on it
(ephemeral key, hello random, server random, ticket id).  A server handler takes the
mutex once, so building its response and touching the map is one step and writing
the response another.  No `await` separates the `Read…` steps of a client; the model
lets other tasks run between them, which only adds behaviours.  A response arrives
whole or the call fails: `parse_response` buffers all of it before anything is
decrypted, which is what `ShortWire` shows.  A client loads a session only when it is fresh, as the tests do.

`RequestReply` says what remains when records, keys, tickets and connections are
taken away: a question is handled at most once, the caller gets the answer to the
question of that very call, only after it was handled, or gives up, and it does one
of the two.  `ImplementsRequestReply` is the refinement: `asked` and `handled` are
the connections that carry a PSK hello and those whose response is built.

### `LongLink`

| code | actions |
|---|---|
| `handshake`, `mmtls.rs:42-129` | `StartHandshake`, `HelloFails`, `ConnectFails`, `HandshakeAgain`, `Reconnect`, `ReadServerHello`, `ReadSignature`, `ReadTicket`, `ReadServerFinish`, `SendClientFinish`, `ClientFinishFails` |
| `noop`, `close`, `mmtls.rs:131-141` | `StartNoop`, `NoopUnready`, `NoopUnconnected`, `NoopFails`, `ReadNoop`, `Close` |
| `handle_raw_connection`, `server.rs:48-259` | `ReadClientHello`, `SendServerHello`, `SendSignature`, `SendTicket`, `StoreSession`, `SendServerFinish`, `ReadClientFinish`, `ReadNoopRequest`, `SendNoopResponse`, `TaskFails` |
| outside | `Cancel`, `ReadFails`, `ReadGarbage`, `ClientRestart`, `Break`, `ServerRestart` |

Each direction of a connection is the sequence of records written to it and a count
of those read.  The connection stays in `conn` when a call fails or is dropped, so a
later `handshake()` writes a second ClientHello into a stream that may still hold
records of the first exchange; ClientHellos are therefore numbered on their own
(`hellos`).  A call dropped inside `read_record` may leave the stream in the middle
of a record (`torn`): from then on a read on it fails or waits.  The records a client writes are small, so a
write either goes to the socket buffer whole or fails.  `handle_ecdhe_handshake`
writes the ticket and stores the session after that `await`: `SendTicket` and
`StoreSession` are separate.  The server issues one ticket per handshake, and the
1-RTT PSK branch of the client's `handshake()` needs two, so it is not reachable
against this server and is not modelled.

`KeyAgreement` leaves records, transcripts and keys out: the task of a connection opens,
offers a key, accepts one client and answers it once, or ends; a client adopts an
offered key nobody has adopted before, and hears one answer under it.
`ImplementsKeyAgreement` is the refinement.  A client *holds* the key of a connection if
its application key is the one the task there derives, so two ends that disagree show as
an adoption without a key.

### `ShortWire`

| code | actions |
|---|---|
| `pack_http`, `write_all`, `mmtls_short.rs:168-173` | `Pack`, `PackPanics`, `Write("client")`, `WriteFails("client")` |
| `parse_http_request_body`, `server.rs:551-604` | `ReadHeader("server")`, `ReadBody("server")`, `ReadFails("server")` |
| `handle_psk_short_link`, sealing the echo | `Serve`, `ServeFails`, `Write("server")`, `WriteFails("server")` |
| `parse_response`, `mmtls_short.rs:365-414`, and what follows it | `ReadHeader("client")`, `ReadBody("client")`, `ReadFails("client")`, `Return` |
| outside | `Drop`, `Cut` |

A read returns any number of the bytes that are there, up to the buffer's size; a
peer's stream ends once the other has returned, failed or gone.  `left` is what
`content_length - body.len()` leaves to be read.  A record's length field counts modulo
`Width`: a build with overflow checks panics while sealing a record that is too long
(`PackPanics`, and one case of `ServeFails`), a build without seals one whose length
is not its own, which no reader opens.  The echo is the request's lossy UTF-8
conversion and may be longer than the request (`grow`).  `ShortWire` implements
`RequestReply` too, for a single question.

### `SessionFile`

| code | actions |
|---|---|
| `Session::save`, `session.rs:14-23` | `Create` (open and truncate), `Write`, `WriteFails` (disk full), `Kill` |
| `Session::load`, `session.rs:25-42` | `Open`, `Read` |

`tokio::fs::write` runs `std::fs::write` on another thread: a truncation and one write,
with nothing in between that another process could not see.  The reader asks for the
file's size once and then reads until a read returns nothing, so its pieces may fall on
both sides of anything.  A buffer is modelled as the sequence of the sessions its
pieces come from; that a part of a session does not parse is
`TornSessionRefused`, checked on the bytes.  All sessions have one size, as those of this
server do.

### `HandshakeCodec`, `RecordParser`

`HandshakeCodec` has a pair of operators per message, what `serialize` writes and what
the read function makes of any bytes; `RecordParser` has the parser's own third version
of the readers, and the loop of `parse_records` as a state machine whose step is one
record.  A capture is what a client or a server of this library sends (a plain text
hello, then ciphertext), or a row of decrypted messages, cut at any byte.  Ciphertext is
taken to be bytes whose first four are not their own length, which random bytes are
but for one time in 2^32; otherwise it may be taken for a message.

`read_client_hello` stops two bytes before the end of an ECDHE extension; messages are
still read back because the extensions are written in the reverse order of the cipher
suites, so that ECDHE's is the last.  The variant `HelloBytesInOrder` shows what the
other order does.

### `ProtobufJson`, `CivilDate`

`EncodeRequest` is `json_to_protobuf`; `ShowAnswer` decodes the same bytes, which is
what this server's echo holds.  The decoder guesses: a text that is a message is shown
as one (`"hi"` comes back as `{"13": 105}`), an object without fields as `""`.
`RoundTrip` says exactly what comes back, and that a guess never disturbs what is around
it, with values up to the limits of 64 bits.  It speaks of requests whose field numbers
a tag can hold (`TagHolds`), and so neither of larger ones, which come back under other
numbers (see the finding below), nor of a value without a tag, a bare one or one under
the key "0".  `CivilDate` compares `civil_from_days` (`parser.rs:944-956`) with a
calendar that turns one day at a time.

## What is checked

| run | instance | asks |
|---|---|---|
| `short_safety` | 2 clients, 3 connections, 2 server processes | `TypeOK`, `TicketHonoured`, `RefusedOnlyAfterRestart`, `HonestPeersAgree`, `SessionAtHand` |
| `short_nonces` | 1 client, 4 connections, 2 server processes | `NoNonceReuse` |
| `short_liveness` | 2 clients (one verifying), 2 connections, 2 server processes | `SessionFixedAfterHandshake`, `CallsReturn`, `ImplementsRequestReply` |
| `long_safety` | 1 client, 2 connections, 2 ClientHellos, 1 noop, 2 server processes | `TypeOK`, `StaleConnectionNeverCompletes`, `AppKeysAgree`, `TicketStoredOnceHandshaken`, `MismatchNeedsMisuse`, `ImplementsKeyAgreement` |
| `long_retries` | 1 client, 1 connection, 3 ClientHellos, 2 noops, 2 server processes | `NoNonceReuse`, `CallsReturn` |
| `long_liveness` | 2 clients (one verifying), 2 connections, 1 ClientHello, 3 noops | `NoNonceReuse`, `AliveMeansAnswered`, `CallsReturn`, `TasksEnd` |
| `long_reconnect` | 1 client, 2 connections, 1 ClientHello | `HandshakeReachesServer`, which fails (below) |
| `short_wire` | requests on both sides of what a 4-bit length holds, reads of up to 3 bytes | `TypeOK`, `BodiesAreWhole`, `FailsOnlyForCause`, `OkMeansWhole`, `ImplementsRequestReply` |
| `session_file` | 2 savers, 1 loader, 4 saves | `TypeOK`, `LoadedIsSaved`, `SavedIsLoaded` |
| `codecs` | 7 captures cut at every byte, about 4800 JSON values (2000 of them accepted and with field numbers that fit), every day up to 2106 | `ParserTypeOK`, `WholeRecordsShown`, `MessagesReadBack`, `TornSessionRefused`, `ShownIsSent`, `RoundTrip`, `DatesAreCivil` |
| `server_hello_name` | the same captures | `ServerHelloIsNamed`, which fails (below) |
| `field_numbers` | the same JSON values | `FieldNumbersKept`, which fails (below) |

All but `long_reconnect`, `server_hello_name` and `field_numbers` pass.  Deadlock checking
is on but for runs of programs that end: `short_wire` (one call) and the three codec runs.  In the
link runs a client can always restart, so it says little there, and progress rests on
the liveness properties.

**Bounds.**  `MaxConns`, `MaxEpochs`, `MaxHellos` and `MaxSeq` bound counters that the
code lets grow; each is a guard of the action that would exceed it and changes nothing
else.  Three short-link connections are a handshake and two uses of its ticket, a
handshake each and a use, or a use across a restart; four, for nonces, add a third use
of one ticket and two tickets used twice.  Two server processes give a ticket that
outlives its issuer; a third adds no case, as only "this process" and "an earlier
one" are told apart.  Two long-link connections are one left and one taken up; two
ClientHellos put a second exchange on top of a first, three (`long_retries`) let a
client retry again after the streams went out of step.  A handshake takes two sequence
numbers of the client, so `MaxSeq` 3, 4 and 5 let one, two and three noops follow it.  The
one ClientHello of `long_liveness` lets one of its clients handshake, whichever it is,
reconnect without a handshake and go on counting; handshakes that are repeated are the
subject of `long_retries`.  With `MaxHellos` 3 the safety run reaches further states and
no other outcome.  The safety properties of both links are proved for all sizes (below).

`short_wire` scales lengths down: a length field of 4 bits and a tag of 2 bytes, with
requests that fit, whose echo does not, that just do not, and that wrap around to a
length that looks small; headers of two bytes and buffers of three let a read end
before, at and after every boundary.  All sizes are proved.  `session_file` cuts a
session in three pieces, so that a load can see one, two or all of them; four saves are
two pairs that overlap.  `codecs` uses the real lengths of randoms and keys, every cut
of every capture (`Captures`, whose messages are `Messages`), and a word of 15 bits with a tag of 10: 15 and 64 leave the same
remainder divided by 7, so the last group of a varint is cut as it is in the
program, and a field number outgrows its tag at 2^7 as it does there at 2^29.  Day
49710 is the last of a 32-bit timestamp.

**Symmetry** of clients is used in `short_safety` alone, which checks invariants only
and where all clients verify alike.

**Fairness.**  The runtime polls a task whose input is there, so the steps of a call
in progress and of a server task are weakly fair, one formula per client and per
connection; for the short link "or the connect fails" is part of it, because the
bound on connections may keep `SendRequest` from happening while a connect always
ends one way or the other.  Nothing is assumed of callers (they need not call,
close or drop anything) or of faults, and a read of garbage on a torn stream is not
fair: whether enough bytes are there for a bogus header is not known.  `CallsReturn`
of the long link excludes torn connections for that reason, and `TasksEnd` speaks of
tasks whose client let go, since nothing ends a task whose client stays and is silent.

For `ShortWire` the client's and the server's steps are each weakly fair, on the same
grounds; nothing makes a caller drop its call or a connection break.

### The reconnect finding

`MmtlsClient::handshake` connects when `conn` is empty (`mmtls.rs:43`) before it looks
at `status`, and `close()` clears `conn` but not `status`.  After `handshake()`,
`close()`, `handshake()`, the last call returns `Ok(())` although nothing was sent on
the new connection; the server's task still waits for a ClientHello, and the `noop()`
that follows fails.  `crates/mmtls/tests/integration_server.rs:48-53` and the comment at
`server.rs:46-47` say that a noop follows a handshake that succeeded.  The run
`long_reconnect` finds the behaviour, and `MismatchNeedsMisuse` shows its consequence
is confined to such connections: they are one of the exceptions it names.

### The ServerHello finding

`ServerHello::serialize` writes 1 for the flag (`server_hello.rs:18`), the value of a
ClientHello; the parser tells handshake messages apart by it and expects 2
(`parser.rs:108-110`).  A ServerHello of this server is therefore read as a ClientHello: with
the ECDHE suite it ends as an encrypted payload, with the PSK suite as a ClientHello
without suites.  The parser's own test (`parser.rs:1178`) states that it is named
ServerHello, for bytes put together by hand with flag 2.  `read_server_hello` ignores the
flag, so handshakes are not affected; the run `server_hello_name` shows the behaviour,
and `ShownIsSent` that it does no more than misname.

### The field number finding

`json_to_protobuf` takes "field numbers as keys" (`crates/mmtls-cli/src/request.rs:41`) and
refuses a key that is none (`request.rs:88`), but any `u32` passes, and `write_tag` computes
`(field_num << 3) | wire_type` in 32 bits (`request.rs:104`).  From 2^29 on, the first number
protobuf does not have, the high bits are lost without an error: 2^29 is sent as field 0
and 2^29 + 1 as field 1, where it joins whatever the request has there.  The run
`field_numbers` shows it at the scaled bound, 2^7; below the bound `RoundTrip` holds.

## What is proved

### The short link

`ShortLinkProofs` proves, for every set of clients and every value of the bounds, every
safety property the runs of the short link check, the refinement's steps included:

| theorem | states |
|---|---|
| `TypeCorrect` | `Spec => []TypeOK` |
| `TicketsAreHonoured` | `Spec => []TicketHonoured` |
| `RefusalsAreForced` | `Spec => []RefusedOnlyAfterRestart` |
| `PeersAgree` | `Spec => []HonestPeersAgree` |
| `SessionsAreAtHand` | `Spec => []SessionAtHand` |
| `NoncesAreUnique` | `Spec => []NoNonceReuse` |
| `SessionIsFixed` | `Spec => SessionFixedAfterHandshake` |
| `RequestReplySteps` | `Spec => Service!Init /\ [][Service!Next]_(Service!vars)`, the part of `ImplementsRequestReply` without fairness |

They assume `ShortLinkAssumption` (verifying clients are clients, the bounds are
numbers, there is a first server process) and `NoneAssumption` (the value that stands
for `Option::None` is no message, no key and no session, as `Some` and `None` differ).

None of these properties is inductive: that a record opens depends on what its
writer had hashed, which depends on which connection answered whom in which epoch.
The inductive invariant `IInv` says it in full:

* `ConnInv(c)`: a connection is unused; or carries the ClientHello of its number and,
  once served, exactly the four records its number and serving epoch determine; or
  carries a request under some issued ticket and, once served, a refusal (issuer's
  epoch earlier) or exactly the answer that ticket's key determines;
* `MapInv`: the sessions map is the set of tickets issued in this epoch;
* `HeldInv`: every session in a client or in the file is that of an issued ticket;
* `ClientInv(k)`: at each place of a call, hasher, key, secret, sequence number and
  cursor are the ones the connection it is at determines.

Every action changes one connection, one client or the map, so most of the proof is
that the rest is stable (`ConnStable`, `ClientStable`, `MapKept`); one lemma per action
then shows its own part.  `NoncesAreUnique` adds where a key comes from: from its
transcript's first message one can read the connection it was derived on, from its
label and part the exchange and direction, and within one exchange the sequence
numbers differ.  `SessionIsFixed` adds that a client which is handshaking has not
completed a handshake before (`OnceOnly`).  `RequestReplySteps` adds that the data a
request holds is the echo of that request (`ReplyInv`); most steps are *quiet* (the
client neither asks nor is answered), and sending a request, the server's answer and
the last record of a response map to `Ask`, `Handle` and `Answer`.

### The long link

Three modules prove every safety property the runs of the long link check, for every
set of clients and every value of the bounds:

| theorem | states |
|---|---|
| `TypeCorrect` | `Spec => []TypeOK` |
| `StaleConnections` | `Spec => []StaleConnectionNeverCompletes` |
| `AppKeyAgreement` | `Spec => []AppKeysAgree` |
| `TicketStored` | `Spec => []TicketStoredOnceHandshaken` |
| `MismatchMisuse` | `Spec => []MismatchNeedsMisuse` |
| `AliveAnswered` | `Spec => []AliveMeansAnswered` |
| `NoNonceTwice` (`LongLinkNonceProofs`) | `Spec => []NoNonceReuse` |
| `KeyAgreementImplemented` (`LongLinkRefinementProofs`) | `Spec => ImplementsKeyAgreement`, the whole refinement: `KeyAgreement` has no fairness |

They assume `LongLinkAssumption` (verifying clients are clients, the bounds are numbers,
there is a first server process and a first sequence number) and `NoneAssumption`.

The properties say how two ends compare, and none of them is inductive: after a retry
both ends work on what the other one left in the streams.  The inductive invariant `IInv`
says of every connection what it carries, whoever wrote it:

* `HashInv`, `DownInv`: what the task has hashed begins with the first record it was
  sent, and decides every record it wrote;
* `UpInv`: clients wrote hellos alone, each drawn after the last (`HelloUp`); or one
  handshake with the noops that follow it, each numbered by its place (`FinishUp`); or
  noops alone, by a client that reconnected without a handshake (`NoopUp`);
* `TaskInv`: how far the task has come says how much it has hashed, written and read;
* `MapInv`: the session of the ticket is in the map from before ServerFinish is written
  until the server process dies;
* `ClientInv`: the hello of a handshake in progress is the last one on its connection; from
  the second record on, the client's transcript is a prefix of the task's; a client
  that is done holds the key of the connection its ticket names;
* `Owned`: no two clients share a connection.

The crux is the second record.  It opens only where client and task have derived the
same key, hence hashed the same two messages; the task's first one is the first record
on the connection, the client's hello is the last one there, so there is only one.  A
handshake that shares its connection with another one fails there (`StaleConnections`),
and all that follows goes right (`AppKeyAgreement`, `MismatchMisuse`).

`NoNonceTwice` reads connection and direction off the key and the place off the sequence
number.  The requests of noops need more, as a client may send them on one connection after
another under one key: `NoopInv` says that whatever a client has sent under the key it
holds is numbered below its `client_seq_num`, and that a key nobody holds any more is
never adopted again.  `KeyAgreementImplemented` rests on two readings of `IInv`: the key a
client holds is that of its ticket's connection, and a connection whose key is spent is one
in `FinishUp`.

### The bytes of a request

`ShortWireProofs` proves, for every length of header, request and echo, every buffer size
and every width of the length field:

| theorem | states |
|---|---|
| `WireTypeCorrect` | `Spec => []TypeOK` |
| `BodiesArriveWhole` | `Spec => []BodiesAreWhole` |
| `FailuresHaveCauses` | `Spec => []FailsOnlyForCause` |
| `OkIsWhole` | `Spec => []OkMeansWhole` |
| `WireRequestReplySteps` | `Spec => Service!Init /\ [][Service!Next]_(Service!vars)` |

from `WireAssumption` (lengths are numbers; headers, buffers, the tag and the width are
not zero).  The inductive invariant relates the two ends of a stream: what is read was
sent and no more than the message was (`StreamInv`), a reader in the body lacks exactly what
its message has beyond what it read (`ReaderInv`), what each peer's place says of the
other's (`ClientInv`, `ServerInv`), and every failed call has its cause (`CauseInv`).

### The session file

`SessionFileProofs` proves, for any number of savers and saves, any number of pieces and
any size of a read, from `FileAssumption`:

| theorem | states |
|---|---|
| `FileTypeCorrect` | `Spec => []TypeOK` |
| `LoadsAreSaved` | `Spec => []LoadedIsSaved` |
| `SavesAreLoaded` | `Spec => []SavedIsLoaded` |

The invariant of a load under way (`ReadingInv`): every save in progress overlaps with it;
the file is what it was when it was opened, or belongs to one of those saves; so does
every piece read; and from a file that was whole, what is read is all of the old session
or only pieces of the new ones, because the first read asks for the size seen at first.

### The handshake messages

`HandshakeCodecProofs` proves, for every message that fits its length fields, that the
bytes `serialize` writes are read as the message they were written from:

| theorem | states |
|---|---|
| `ClientHelloReadBack` | a ClientHello, with either cipher suite or both |
| `ServerHelloReadBack` | a ServerHello, with either cipher suite |
| `TaggedReadBack` | the signature, ServerFinish, ClientFinish |
| `TicketReadBack` | one session ticket, anywhere in a sequence |
| `ListReadBack` | a list of tickets; every proper prefix of one is an error |
| `SessionReadBack` | a session file; every proper prefix of one is an error |

They assume `CodecAssumption`: a random and a key have lengths that fit one byte, as 32
and 65 do.  Nothing is assumed of the number of tickets but that the list fits its
fields.

The argument has three layers.  `Stands(s, a, d, l)` says that `d` stands in `s` behind
`a` bytes and ends at `l`, and `Split` takes a concatenation apart into parts that stand;
a part that stands is read as what it was written from (`ReadBytes` and the lemmas about
numbers), and one that is cut off is an error (`CutFrom`).  A list is read by a loop over
a cursor: `Places` says that after `n` turns the cursor is where entry `n + 1` was
written, so a loop over `Repeat` is one fact about a turn.  The extensions of a ClientHello are
such a list whose turns end elsewhere: that of a PSK extension ends where the extension does,
that of an ECDHE extension two bytes before.  `ClientHelloReadBack` holds because ECDHE's is
the last one written, which is where the proof uses the order `HelloBytes` gives them.

### The record parser

`RecordParserProofs` proves, for captures of any length of any messages, cut at any
byte, and for every day number:

| theorem | states |
|---|---|
| `ParserTypeCorrect` | `ParseSpec => []ParserTypeOK` |
| `WholeRecordsOnly` | `ParseSpec => []WholeRecordsShown` |
| `MessagesAreReadBack` | `ParseSpec => []MessagesReadBack` |
| `MessagesAreShown` | `ParseSpec => []ShownIsSent` |
| `TornSessionsRefused` | `ParseSpec => []TornSessionRefused` |
| `DatesCivil` | `DateSpec => []DatesAreCivil` |

All but the last assume `CaptureAssumption`: a record has one of the four types, and its
payload is bytes that fit the length field (a longer one is the business of `ShortWire`).
The three about messages also assume `MessageAssumption`: what a capture is built from is
a message of one of the kinds `IsMessage` describes, in a record of its type.  TLC
evaluates both on the captures of `codecs`.
`AtARecord` is the inductive invariant: the stream is the beginning of what the capture was
sent as, the parser stands where the record it reads next starts (`Start`), and every
record before that is reported as sent, with what the parser makes of its bytes.  That
records are where `Start` says is a fact about a concatenation of any number of sequences
(`FlattenIs`, `Boundaries`, `Placed`).
Induction theorems with an operator parameter are out of the prover's reach; such facts
are proved from the least natural number that is not in a *set* (`AllNaturals`), with
functions built one value at a time (`Iteration`), both in `HandshakeCodecProofs`.
`Delivered` is what the theorems about messages add: the record just read holds the
payload of the one that was sent, so the theorems of `HandshakeCodecProofs` speak of it.

`ShownIsSent` is about a second reader of the same bytes.  `ShownAs` is what it says of a
message of each kind, and there is a lemma per kind: a hello of one suite or of both
(`ClientHelloShown`), where the cursor of each extension ends exactly where the next one
begins; a ServerHello with the flag the parser looks for (`FlaggedShown`: `len - used`
comes to 0, which is why the four bytes of the length do not count); tickets and the
rest.  The one that took thought is `UnflaggedShown`.  The library's own ServerHello has
the flag of a ClientHello.  If its suite is ECDHE, the high byte of the suite is taken for
192 cipher suites, and the payload is too short for them at every key length; if it is
PSK, for none, and then what stands where the extensions would be is a count of 0 or 1, a
length of 4096 or more and the type 0 (`ReadAsHello`), so the parser does not reach the
subtraction that underflows for a length below 2.  Both hold for every `RandomLen` and
`KeyLen` in `1 .. 255`.

`DatesAreCivil` is not inductive, because the closed form inverts the number of a day and
says nothing of the next one.  `CountsDays` is: the calendar shows the date whose number,
counted in years that begin in March, is that of the day.  `Tomorrow` is the step, at the
end of months and years too; `EraArithmetic` and `YearOfEra` show that
the correction for leap days finds the year, also on the last day of a leap year, of a
century and of an era of 400 years; `CivilOfDayNumber` puts them together.

## What is only model-checked

* Liveness (`CallsReturn`, `TasksEnd`) and the fairness of `RequestReply`: beyond this
  prover.
* `RoundTrip`: `ProtobufJson` is recursive over data, in `RECURSIVE` operators that the
  prover does not take.

## What is left out

* Cryptography itself: keys are terms, nobody guesses, forges or collides.  The
  contents of requests, HTTP headers (`httparse`), logging.
* `ticket_lifetime` (7200 s): the code writes it and never looks at it.
* The error branch of `pack_http` without a session: `SessionAtHand` shows it is
  not reached.  The 1-RTT PSK hello of the long link: see above; its bytes are modelled.
* The two links are modelled apart although one `MmtlsServer` may serve both over one
  map; their tickets are drawn apart and a short-link ticket is never presented on
  the long link.
* Bytes that no peer of this library writes: the readers are modelled for any bytes, and
  run on what the writers produce and its prefixes.  So is the protobuf decoder, whose
  `start + len` (`response.rs:182`) could only overflow on a length no encoder writes.
  Whether a point is on the curve, and ECDSA's encoding, belong to libraries.
* Of the record parser, the layout of what it prints (`format_records`, hexadecimal,
  colours) and `clean_hex_string`; of the command-line tool, arguments, decompression,
  files and highlighting.  These are I/O around libraries and keep no state.
* The Frida script compares the address of a `connect()` with a list and replaces it, in
  another process and another language; `lib.rs` and `types.rs` re-export.

## Plan

What is left, in the order of what it would say:

1. Both links over one sessions map, should a server ever accept a ticket of one on the
   other.
2. A bound on `sessions`, once `ticket_lifetime` is enforced.
