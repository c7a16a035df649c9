----------------------------- MODULE MmtlsCrypto -----------------------------
(***************************************************************************)
(* The vocabulary both link types are written in: messages, transcript     *)
(* hashes, derived keys and records of the mmtls protocol, with the        *)
(* primitives of crypto.rs and record.rs read symbolically.  A hash is the *)
(* transcript it digests, HKDF is the record of its inputs, and a sealed   *)
(* record opens only under the key half and sequence number it was sealed  *)
(* with: exactly what AES-GCM's nonce and additional data tie together.    *)
(* Random bytes are numbers no two draws share.                            *)
(***************************************************************************)
EXTENDS Naturals, Sequences

CONSTANT None   \* "no value": Option::None, and an empty key

-----------------------------------------------------------------------------
(***************************************************************************)
(* Messages.  "fresh" is the randomness a message carries (hello random,   *)
(* ephemeral key, ticket id), "ref" what it refers to (the epoch of the    *)
(* server's key, or the ticket a PSK hello presents).                      *)
(***************************************************************************)
MessageKinds == {"ecdheHello", "pskHello", "serverHello", "signature",
                 "newSessionTicket", "extensions", "request", "response",
                 "abort", "noopRequest", "noopResponse"}

Messages == [msg: MessageKinds, fresh: Nat, ref: Nat]

Message(kind, fresh, ref) == [msg |-> kind, fresh |-> fresh, ref |-> ref]

EcdheHello(n)        == Message("ecdheHello", n, 0)
PskHello(n, ticket)  == Message("pskHello", n, ticket)
ServerHello(n, e)    == Message("serverHello", n, e)
Signature(n, e)      == Message("signature", n, e)
NewSessionTicket(t)  == Message("newSessionTicket", t, 0)
Extensions(n)        == Message("extensions", n, 0)
Abort                == Message("abort", 0, 0)

\* The state of a running SHA-256 is the sequence of messages fed to it.
Transcripts == Seq(Messages)

-----------------------------------------------------------------------------
(***************************************************************************)
(* Key schedule.  Ecdh(n, e) is what the client's ephemeral key n and the  *)
(* key of server process e agree on.                                       *)
(***************************************************************************)
ComKeys == [client: Nat, server: Nat]
Ecdh(n, e) == [client |-> n, server |-> e]

HkdfExpand(secret, label, hash) ==
  [secret |-> secret, label |-> label, hash |-> hash]

Psks == [secret: ComKeys, label: {"PSK_ACCESS"}, hash: Transcripts]
ExpandedSecrets ==
  [secret: ComKeys, label: {"expanded secret"}, hash: Transcripts]

\* Whatever a traffic key or a finish key is derived from.
Secrets == ComKeys \cup Psks \cup ExpandedSecrets

\* One direction of a traffic key: an AES key with the nonce that goes with it.
Half(secret, label, hash, part) ==
  [secret |-> secret, label |-> label, hash |-> hash, part |-> part]

KeyLabels == {"handshake key expansion", "early data key expansion",
              "application data key expansion"}
Halves == [secret: Secrets, label: KeyLabels, hash: Transcripts,
           part: {"client", "server"}]
KeyPairs == [client: Halves \cup {None}, server: Halves \cup {None}]

\* compute_traffic_key_n(.., 56) fills both directions.
TrafficKey56(secret, label, hash) ==
  [client |-> Half(secret, label, hash, "client"),
   server |-> Half(secret, label, hash, "server")]

\* compute_traffic_key_n(.., 28) fills the client's direction only.
TrafficKey28(secret, label, hash) ==
  [client |-> Half(secret, label, hash, "client"), server |-> None]

\* Both ends move the 28 bytes of a response key to the server's direction.
ToServerHalf(pair) == [client |-> None, server |-> pair.client]

\* ServerFinish and ClientFinish: an HMAC over the transcript.
Finish(label, secret, hash) ==
  [mac |-> HkdfExpand(secret, label, <<>>), over |-> hash]

Finishes == [mac: [secret: Secrets, label: {"server finished", "client finished"},
                   hash: {<<>>}],
             over: Transcripts]

-----------------------------------------------------------------------------
(***************************************************************************)
(* Records.  A clear record has no key; decrypting with an empty key is an *)
(* error, as is a key or sequence number other than the one sealed under.  *)
(***************************************************************************)
Records == [body: Messages \cup Finishes, key: Halves \cup {None}, seq: Nat]

Clear(body)          == [body |-> body, key |-> None, seq |-> 0]
Seal(body, key, seq) == [body |-> body, key |-> key, seq |-> seq]

Opens(record, key, seq) ==
  /\ key # None
  /\ record.key = key
  /\ record.seq = seq

\* The verification key compiled into the client is nobody's in this
\* repository: MmtlsServer draws sign_secret at random (epochs start at 1).
CompiledInSigner == 0
VerifyEcdsa(signature) == signature.ref = CompiledInSigner

-----------------------------------------------------------------------------
\* None is told apart from every value that may stand in its place.
ASSUME NoneAssumption ==
  /\ None \notin Messages
  /\ None \notin Psks
  /\ None \notin Halves
  /\ None \notin KeyPairs
  /\ None \notin [ticket: Nat, psk: Psks]
  /\ None \notin [ticket: Nat, psk: Psks, app: KeyPairs \cup {None}]
=============================================================================
