------------------------------ MODULE ShortWire ------------------------------
(***************************************************************************)
(* The bytes of one short-link request() on its connection.  Each message  *)
(* is an HTTP header and a body whose length the header announces, written *)
(* and read in pieces of any size; the body is a row of records whose      *)
(* length field has 16 bits, one of which carries the request and, on the  *)
(* way back, its echo.  ShortLink takes a message to arrive whole or not   *)
(* at all: this module is where that comes from.  Contents are positions   *)
(* in the stream, so a buffer is the number of bytes in it.                *)
(***************************************************************************)
EXTENDS Integers

CONSTANTS
  Requests,        \* requests: len bytes, which grow by grow as lossy UTF-8
  RequestHeader,   \* bytes of the HTTP header of a request
  ResponseHeader,  \* bytes of the HTTP header of a response
  RequestPart,     \* bytes gen_data_part puts around a request
  AnswerPart,      \* bytes of the answer's own status line and header
  RequestRest,     \* the other bytes of the request's records
  ResponseRest,    \* the other bytes of the response's records
  Chunk,           \* the size of a read buffer (4096)
  Tag,             \* bytes AES-GCM adds to a record (16)
  Width            \* a record's length field counts modulo this (65536)

ASSUME WireAssumption ==
  /\ Requests \subseteq [len : Nat, grow : Nat]
  /\ RequestHeader \in Nat \ {0} /\ ResponseHeader \in Nat \ {0}
  /\ RequestPart \in Nat /\ AnswerPart \in Nat
  /\ RequestRest \in Nat /\ ResponseRest \in Nat
  /\ Chunk \in Nat \ {0}
  /\ Tag \in Nat \ {0} /\ Width \in Nat \ {0}

VARIABLES
  request,  \* the caller's request
  pc,       \* where the client's call and the server's task are
  in,       \* per peer, the stream towards it: bytes sent, bytes read (got)
            \* and bytes of the body its reader still waits for (left)
  cut       \* the connection has failed

vars == <<request, pc, in, cut>>

Peers == {"client", "server"}
Other(p) == IF p = "client" THEN "server" ELSE "client"

\* Variant: subtracts the wrong way round, and does not saturate.
MonusSwapped(a, b) == b - a

\* saturating_sub.
Monus(a, b) == IF a > b THEN a - b ELSE 0

\* The plaintext of the record that carries the request, and of the one that
\* carries the answer: a length header and the request as lossy UTF-8.
Plain(p) ==
  IF p = "server" THEN RequestPart + request.len
                  ELSE AnswerPart + request.len + request.grow

Sealed(n) == n + Tag

\* (len as u16) + 16 leaves 16 bits.
Overflows(n) == (n % Width) + Tag >= Width

\* Variant: the bound forgets the tag.
LengthHoldsUntagged(n) == n < Width

\* The length field a reader of the record goes by is that of the ciphertext.
LengthHolds(n) == Sealed(n) % Width = Sealed(n)

\* A record the sender can seal and the reader can read.
Fits(n) == Sealed(n) < Width

Header(p) == IF p = "server" THEN RequestHeader ELSE ResponseHeader
ContentLength(p) ==
  Sealed(Plain(p)) + (IF p = "server" THEN RequestRest ELSE ResponseRest)
Message(p) == Header(p) + ContentLength(p)

Gone == {"ok", "failed", "lost", "panicked", "dropped", "done"}
-----------------------------------------------------------------------------
Init ==
  /\ request \in Requests
  /\ pc = [p \in Peers |-> IF p = "client" THEN "pack" ELSE "head"]
  /\ in = [p \in Peers |-> [sent |-> 0, got |-> 0, left |-> 0]]
  /\ cut = FALSE

Goto(p, place) == pc' = [pc EXCEPT ![p] = place]

\* The client packs its request.  A build with overflow checks panics where
\* one without seals a record that cannot be read back.
Pack ==
  /\ pc["client"] = "pack"
  /\ Goto("client", "write")
  /\ UNCHANGED <<request, in, cut>>

PackPanics ==
  /\ pc["client"] = "pack"
  /\ Overflows(Plain("server"))
  /\ Goto("client", "panicked")
  /\ UNCHANGED <<request, in, cut>>

\* write_all hands the message to the socket a piece at a time.
Write(p) ==
  /\ pc[p] = "write"
  /\ \E k \in 1 .. Message(Other(p)) - in[Other(p)].sent :
       /\ in' = [in EXCEPT ![Other(p)].sent = @ + k]
       /\ pc' = IF in[Other(p)].sent + k = Message(Other(p))
                  THEN [pc EXCEPT ![p] = IF p = "client" THEN "head" ELSE "done"]
                  ELSE pc
  /\ UNCHANGED <<request, cut>>

WriteFails(p) ==
  /\ pc[p] = "write"
  /\ cut \/ pc[Other(p)] \in Gone
  /\ Goto(p, "lost")
  /\ UNCHANGED <<request, in, cut>>

\* What one read may return.
Readable(p) ==
  {k \in 1 .. Chunk : k <= in[p].sent - in[p].got}

\* Variant: content_length is always taken to be the body so far.
ReadHeaderOnly(p) ==
  /\ pc[p] = "head"
  /\ \E k \in Readable(p) :
       /\ in' = [in EXCEPT ![p].got = @ + k]
       /\ IF in[p].got + k < Header(p) THEN UNCHANGED pc ELSE Goto(p, "open")
  /\ UNCHANGED <<request, cut>>

\* A read while the header is incomplete: with it comes none, a part or all
\* of the body.
ReadHeader(p) ==
  /\ pc[p] = "head"
  /\ \E k \in Readable(p) :
       LET got == in[p].got + k
           left == Monus(ContentLength(p), got - Header(p))
       IN IF got < Header(p)
            THEN in' = [in EXCEPT ![p].got = got] /\ UNCHANGED pc
            ELSE /\ in' = [in EXCEPT ![p].got = got, ![p].left = left]
                 /\ Goto(p, IF left = 0 THEN "open" ELSE "body")
  /\ UNCHANGED <<request, cut>>

\* A read of what the body lacks.
ReadBody(p) ==
  /\ pc[p] = "body"
  /\ \E k \in Readable(p) :
       LET left == Monus(in[p].left, k)
       IN /\ in' = [in EXCEPT ![p].got = @ + k, ![p].left = left]
          /\ Goto(p, IF left = 0 THEN "open" ELSE "body")
  /\ UNCHANGED <<request, cut>>

\* Variant: a stream with nothing to read is taken for one that has ended.
ReadFailsEmpty(p) ==
  /\ pc[p] \in {"head", "body"}
  /\ cut \/ in[p].got = in[p].sent
  /\ Goto(p, "failed")
  /\ UNCHANGED <<request, in, cut>>

\* Variant: a read of no bytes is tried again.
ReadFailsCut(p) ==
  /\ pc[p] \in {"head", "body"}
  /\ cut
  /\ Goto(p, "failed")
  /\ UNCHANGED <<request, in, cut>>

\* The stream ends, or fails, before the message does.
ReadFails(p) ==
  /\ pc[p] \in {"head", "body"}
  /\ cut \/ (pc[Other(p)] \in Gone /\ in[p].got = in[p].sent)
  /\ Goto(p, "failed")
  /\ UNCHANGED <<request, in, cut>>

\* read_sync finds every record of the body whole and they open.
RecordsOpen(p) ==
  /\ in[p].got >= Message(p)
  /\ LengthHolds(Plain(p))

\* The server opens the request and seals the echo, or gives up (a panic on
\* an echo too long included).
Serve ==
  /\ pc["server"] = "open"
  /\ RecordsOpen("server")
  /\ Goto("server", "write")
  /\ UNCHANGED <<request, in, cut>>

ServeFails ==
  /\ pc["server"] = "open"
  /\ ~RecordsOpen("server") \/ Overflows(Plain("client"))
  /\ Goto("server", "failed")
  /\ UNCHANGED <<request, in, cut>>

\* request() opens the answer and returns.
Return ==
  /\ pc["client"] = "open"
  /\ Goto("client", IF RecordsOpen("client") THEN "ok" ELSE "failed")
  /\ UNCHANGED <<request, in, cut>>

\* The caller drops request() at an await.
Drop ==
  /\ pc["client"] \in {"write", "head", "body"}
  /\ Goto("client", "dropped")
  /\ UNCHANGED <<request, in, cut>>

Cut ==
  /\ ~cut
  /\ cut' = TRUE
  /\ UNCHANGED <<request, pc, in>>

Progress(p) ==
  \/ Write(p)
  \/ WriteFails(p)
  \/ ReadHeader(p)
  \/ ReadBody(p)
  \/ ReadFails(p)

Client == Pack \/ PackPanics \/ Progress("client") \/ Return
Server == Serve \/ ServeFails \/ Progress("server")

Next == Client \/ Server \/ Drop \/ Cut

\* A task is polled while it can make a step; nothing drops a call or cuts a
\* connection for certain.
Spec == Init /\ [][Next]_vars /\ WF_vars(Client) /\ WF_vars(Server)
-----------------------------------------------------------------------------
TypeOK ==
  /\ request \in Requests
  /\ pc \in [Peers -> {"pack", "write", "head", "body", "open"} \cup Gone]
  /\ in \in [Peers -> [sent : Nat, got : Nat, left : Nat]]
  /\ cut \in BOOLEAN

\* parse_http_request_body and parse_response return when they hold every byte
\* of the message and none more, in whatever pieces it came: never the body so
\* far, never past the end.
BodiesAreWhole ==
  \A p \in Peers :
    pc[p] = "open" => in[p].got = Message(p)

\* A message is long enough for its length field to wrap around.
TooLong == ~Fits(Plain("server")) \/ ~Fits(Plain("client"))

\* No chunking, no order of the two sides' steps and no length below the limit
\* makes a call or its server fail: there is a cut, a caller that let go, or a
\* record that outgrew 16 bits.
FailsOnlyForCause ==
  \A p \in Peers :
    pc[p] \in {"failed", "lost", "panicked"} => cut \/ pc["client"] = "dropped" \/ TooLong

\* request() succeeds on a whole answer to a whole request only: a record whose
\* length wrapped around is not taken for one, by either side.
OkMeansWhole ==
  pc["client"] = "ok" =>
    ~TooLong /\ \A p \in Peers : in[p].got = Message(p)

\* What RequestReply sees: the one request is asked once packed and handled once
\* its echo is sealed.
Asked == IF pc["client"] \in {"pack", "panicked"} THEN {} ELSE {1}
Handled == IF pc["server"] \in {"write", "lost", "done"} THEN {1} ELSE {}
Question == <<IF pc["client"] \in {"write", "head", "body", "open"} THEN 1 ELSE 0>>
Answered == <<IF pc["client"] = "ok" THEN 1 ELSE 0>>

Service == INSTANCE RequestReply WITH
  Callers <- {1}, Questions <- {1},
  asked <- Asked, handled <- Handled, question <- Question, answer <- Answered

\* The same promise as ShortLink's, from bytes: the request is handled at most
\* once, its answer comes back whole or request() fails, and it returns.
ImplementsRequestReply == Service!Spec
=============================================================================
