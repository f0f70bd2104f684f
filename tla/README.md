# TLA+ models of GmSSL

GmSSL is a C library and a set of command line tools for the Chinese national
cryptographic standards: SM2, SM3, SM4, SM9 and ZUC, the TLCP and TLS 1.2 /
1.3 protocols, X.509, CMS and PKCS #8, hash-based signatures and access to SDF
and SKF devices. This directory holds TLA+ modules that model the parts of it
that keep state or compute something a test hardly covers, the TLC
configurations that check them on small instances, and proofs that hold for
every instance. `PROJECT.json` maps every definition to the lines it models.

Contents: 1 inventory, 2 conventions, 3 modules, 4 runs, 5 proofs, 6 findings,
7 limits, 8 not modelled, 9 plan.

## 1. Inventory

Paths are below `src/` of the repository.

| component | code | state | operations | talks to |
|---|---|---|---|---|
| records and application data | `src/tls.c` | `TLS_CONNECT`: socket, keys, two sequence numbers, `databuf`/`data`/`datalen` | `tls_send`, `tls_recv`, `tls_shutdown`, `tls_encrypt_send`, `tls_decrypt_recv`, `tls_record_send`/`recv` | the peer over TCP, the application |
| TLCP handshake | `src/tlcp.c` | locals of one call: transcript digests, randoms, certificates; results in `TLS_CONNECT` | `tlcp_do_connect`, `tlcp_do_accept` | the peer, X.509, SM2 |
| TLS 1.2 / 1.3 handshakes | `src/tls12.c`, `src/tls13.c`, `src/tls_ext.c` | the same, with extensions and a key schedule | `tls12_do_*`, `tls13_do_*`, `tls13_send`/`recv` | the peer, X.509, SM2 |
| TLS configuration | `src/tls.c` | `TLS_CTX`: protocol, suites, CA and own certificates, keys | `tls_ctx_*`, `tls_init`, `tls_set_socket`, `tls_cleanup` | files, handshakes |
| SM4 modes | `src/sm4_*.c` | one context per mode: key, chaining value or counter, a partial block, MAC state | `init`, `update`, `finish`, one-shot functions | tools, applications |
| digests, MACs, KDFs | `src/sm3*.c`, `src/sha*.c`, `src/hmac.c`, `src/hkdf.c`, `src/digest.c` | chaining value, partial block, length | `init`, `update`, `finish` | everything |
| SM2 | `src/sm2_sign.c`, `src/sm2_enc.c`, `src/sm2_key.c`, `src/sm2_z256.c` | keys; contexts with a digest or a buffer and 32 (8) pre-computed nonces | sign, verify, encrypt, decrypt, one-shot and in pieces | random numbers, handshakes, X.509 |
| other SM2 schemes, SM9 | `src/sm2_*.c`, `src/sm9_*.c` | keys | sign, encrypt, exchange, share | random numbers |
| hash-based signatures | `src/sm3_xmss.c`, `src/sm3_lms.c` | key with a tree and the index of the next one-time key | generate, sign, verify, to and from bytes | key files |
| Kyber | `src/kyber.c` | keys | generate, encapsulate, decapsulate | random numbers |
| encodings | `src/asn1.c`, `src/base64.c`, `src/hex.c`, `src/pem.c` | base64: partial group | encode, decode | X.509, CMS, keys |
| X.509, CMS, PKCS #8 | `src/x509_*.c`, `src/cms.c`, `src/pkcs8.c` | none (buffers of the caller) | build, parse, verify chains, look up revocations | encodings, SM2, HTTP |
| devices | `src/sdf/`, `src/skf/` | handles of devices, sessions, containers, keys; a loaded library | open, close, sign, encrypt | a vendor's library |
| tools | `tools/*.c` | a buffer, files, a socket | one `main` per command | all of the above |

Not in the table because there is nothing to model: `tls_trace.c` and the
`*_print` functions (output only), the SIMD and assembly variants and the
generated tables (other ways to compute functions that are symbolic here),
`rand_*.c`, `file.c`, `socket.c`, `debug.c` (operating system calls).

What is hard to test in this code:

* **Two processes and a network.** Records can be altered, lost, repeated or
  overtaken; either process can time out or end at any step; both calls block.
  A handshake is correct only if what both sides believe at the end agrees.
* **State carried from call to call.** `conn->datalen`, sequence numbers, the
  partial block of a cipher context, the number of nonces left, the index of an
  XMSS key: each is right after the usual sequence of calls and may be wrong
  after another legal one.
* **Boundaries nobody reaches.** 2^56 records, 2^32 - 2 counter blocks,
  `r = 0`, digests above the group order, an all-zero key stream, the signature
  after the last one.
* **One step of several failing.** Random numbers that fail in the middle of a
  refill, a send that fails after its sequence number is spent, the seventh of
  fifteen calls in a tool that has files, keys and device handles open by then.
* **The same thing written three times.** Every ASN.1 type has a writer, a
  reader and a printer, three chains of calls that nothing but the programmer
  keeps in step.

The library starts no threads and takes no locks; concurrency is between
processes. Nothing but key files is persistent.

What makes the components correct, in the order of importance the plan follows:
the peer's application gets a prefix of what was sent, and all of it before a
clean end; two peers that complete a handshake share keys and saw the same
messages, and nobody waits for ever; a cipher context gives what its one-shot
function gives however the input is cut; a signature verifies for its message
and for no other, each nonce and each one-time key is used once; what is
encoded decodes to the same; a chain is accepted exactly if every link is good;
a handle is used only while it is open.

## 2. Conventions

* One action per call, per message or per step at which another process can
  come in between. Guards are the code's conditions; a failed call is an action
  of its own.
* Cryptography is symbolic. A signature, a MAC or a digest *is* the value it
  covers, so that two are equal only if they were computed from the same input.
  What is proved is that the code combines the primitives correctly, not that
  the primitives are strong.
* Definitions that model a C function have its name. `Mutant:` marks a
  deliberately wrong variant of the definition below it, with which the run of
  the property it belongs to is known to fail; mutants are used by nothing else.
* History variables (`log`, `acc`, `total`, `got`, `out`) record what happened
  for the properties; no guard that models code reads them, except for bounds.

## 3. Modules

### TlsConn, SecureStream: application data

`TlsConn` is two peers after a TLCP or TLS 1.2 handshake (both protocols run
the same functions). `seqW`/`seqR` are the two sequence numbers, `pending` is
`conn->data[0 .. datalen-1]`, `wire` the TCP streams as sequences of records,
`st`/`ended` how the last calls returned. Actions: `tls_send`; `tls_recv` as
`RecvBuffered`, `RecvData`, `RecvCloseNotify`, `RecvReject`, `RecvEof`,
`RecvError`; `tls_shutdown` as `ShutdownSend`, `EncryptSendRefused`,
`ShutdownAccept`, `ShutdownReject`, `ShutdownFail`; `Close` (also the end of a
process); `NetworkFault`. Two details of the code matter: `tls_cbc_decrypt`
sets `*outlen` before it checks the MAC, so a refused record leaves junk in
`pending` (`RejectRecord`), and a sequence number is spent before
`tls_record_send` may fail (`EncryptSendFails`). `Readers` are the sides that
receive in a loop: the servers do (`tlcp_server.c:171`) until a call fails, which
their echo does while a part of the record is still buffered (`EncryptSendRefused`),
`tlcp_client` calls `tls_recv` once for each time `select` wakes it, and
`tls12_client` waits in `fgets` before each call.

`SecureStream` is what the applications are promised: a written stream per
direction, of which a prefix is delivered, and completeness once the reader was
told so. `TlsConn` implements it (`ImplementsStream`).

### TlcpHandshake, KeyAgreement: the TLCP handshake

One action per message that `tlcp_do_connect` and `tlcp_do_accept` send or
receive, in the order of the code, with the optional CertificateRequest,
client Certificate and CertificateVerify. `config` ranges over what the two
applications may have configured (with or without CA certificates, with good,
untrusted or missing certificates, with a server chain that lacks its
encryption certificate). `transcript` is what is in `sm3_ctx`, `secret` the
master secret as a term over the pre-master secret and the randoms. A record
altered by the network is altered where a check on the spot notices (`bad`),
where later steps use the value (`core`) or where only Finished can tell
(`rest`). A failing step sends an alert where the code does and returns.

`KeyAgreement` is the promise: the client settles on keys and a transcript, the
server may complete with exactly those, the client completes only after it.

### HandshakeLink, Tls12Handshake, Tls13Handshake, TlsHandshake

`HandshakeLink` is what the two newer handshakes share: the TCP connection, the
transcript, record protection with its sequence numbers, alerts, and a network
that alters, loses, repeats or swaps records. `Tls12Handshake` and
`Tls13Handshake` add one action per message of `tls12_do_connect`/`_accept` and
`tls13_do_connect`/`_accept`; `TlsHandshake` composes them as
`tls_do_handshake` does, by the protocol, and states the properties. Four
details of the code are in the model because they could matter: a signature
whose computation fails goes out as it happens to be, as nobody looks at the
results of `sm2_sign_init` and `sm2_sign_finish` (`tls.c:556`, `tls13.c:502`; it
counts as a fault); a TLS 1.2 server ignores whether it understood the
extensions of a ClientHello (`tls12.c:760`); a hello without a key share leaves
the ECDHE public key unset, and a TLS 1.3 server answers the versions and the
key share and no other extension (`tls13.c:654`); and a TLS 1.3 client is done before the server has
verified it, so `tls13_send` and `tls13_recv` run while the server is still in
its handshake (`sent`, `got`).

Both implement `KeyAgreement`, in TLS 1.3 with the roles exchanged: there the
server settles the keys and the client completes first.

### Asn1Schema, X509Schema, CrlSchema, KeySchema, CmsSchema, Asn1Codec, Asn1Samples

Every ASN.1 type of the library is a record with three chains of fields, one for
each of `x_to_der`, `x_from_der` and `x_print`, each taken from its own function
(`Asn1Schema` is the vocabulary, the four schema modules are the types).
`Asn1Codec` says what such chains write, read and print: `EncT`, `DecT`,
`Prt` stand for all functions of the three families, with the return values 1,
0 and -1 and the input pointer that moves only on success. A reader that returns
0 for a missing value leaves the variables of its caller alone, or sets them to
"absent": both occur, and `left` is what they held before, something or nothing.
`Asn1Samples` has the
values that are written. `MCAsn1Codec` instantiates both with all types and is the
life of one encoding: chosen, written, changed in one place or not, read,
printed. A DER element is a tag with a primitive content or a sequence of
elements; the bytes of lengths and contents are left out.

### X509Chain: certificate chains

`x509_certs_verify`, `x509_certs_verify_tlcp` and the `certverify` command, which
look at a message or a file one certificate at a time: `ReadEntity`, `ReadKenc`
(the encryption certificate of a pair), `ReadCa`, `Ends` or `Unreadable`, then
`FindRoot`. `path` are the certificates read, `cert`, `path_len`, `double_certs`
and `check_crl` the variables of the code, `crl` the lists that were fetched. A
certificate is a record of its names, keys, dates and extensions, and a signature
is the key it was made with. The command checks names, signatures and
revocation and nothing else; the library checks everything except revocation.
`Proper` says what a path is without the loop: who issued what, what each
certificate may be used for, how many CAs it may have below it.

### Calls and the programs

A function of the device layer, of the TLS context or of a command line tool is
a *program*: the calls it makes in the order it makes them, with the exit each
takes when it fails (`goto end`, a plain return, none), what it opens, fills,
hands to its caller and gives back, and what the end label closes and erases.
`PkiTools`, `KeyTools`, `CipherTools`, `TlsTools`, `SdfPrograms`, `SdfTests` and
`SkfPrograms` hold 292 of them. `Calls` runs one: `Succeed`, `Fail`, `Skip` (a
condition the model does not follow), `PrintHelp`, `Cleanup`. `held` are the
open objects, `stale` those closed while a variable still names them, `secret`
the variables with key material, `lost` objects no variable names any more,
`misused` what a call needed and did not have, `report` the status. A call of
another function of the project (`Do`) has that function's promise, which its own
program is checked against. Where the promise is not kept, the caller's program
says so: `skf_open_device` may be told of success by `SKF_OpenDevice` and have no
handle. A function whose end label makes calls that may fail, and returns the
status of the last one, is a `Masking` one.

### CipherStream: SM4 modes and tools

Sixteen contexts (ECB, CBC, CTR, CTR32, CFB, OFB, GCM, XTS, CBC and CTR with
HMAC, decryption where it differs). A byte of output is the term of the key
stream or chaining value and the input byte it came from. `update` is called
with pieces of any length; `OneShot` is the one-shot function of the same mode.
Where `tool` is set the pieces are those of the command line tools, which update
a buffer in place; the buffer is a multiple of the block, of `sbytes` and of the
data unit, as the tools' buffers are. For GCM the start counter is the one of a 12-byte IV; other
IV lengths only relabel it.

### Sm2Sign, Sm2Pool: SM2

`Sm2Sign` is the arithmetic of signing and verifying: the curve is a cyclic
group of prime order `N` together with *any* assignment of x-coordinates to its
points, words go up to `Word` (2^256), and Montgomery factors are kept. It has
no interleavings; TLC enumerates curves, keys, digests and nonces.
`sm2_fast_verify` and `sm2_do_verify` differ in how they multiply a point and
share one definition.

`Sm2Pool` is the pool of pre-computed nonces of `SM2_SIGN_CTX` and
`SM2_ENC_CTX`: `init`, `reset`, `finish`, refills and their failures after any
number of draws. No call asks whether `init` succeeded: `tls.c:556`, `tls12.c:234`
and `tls13.c:502` ignore its result and sign all the same, from whatever their
stack held (`PoolInit` allows any number of entries left, one beyond the array
included, and `Unset` is a nonce nobody drew). A nonce is the number of its draw. `from` is the nonce that
`x1_modn` or `C1` was computed from, which a half-way failure leaves behind.

### Xmss

WOTS+ with checksum, L-tree, hash tree, authentication path as functions over
symbolic hashes that carry the address they were computed with, and the life of
a key: generate, sign, advance the index (the caller does, as the test shows),
save, end of process, read back. A verifier is given the signature with its own
or another index and any digest: as the digest covers the index
(`sm3_xmss.c:764`), another index comes with another digest. `Xmss` lets `sig.index` run one past the tree,
as the code does. Loops are recursive functions of the number of their rounds:
`Shifts` is the checksum losing a digit at a time, `Halves` an index on its way up,
`Levels` the hash tree level by level and `Tree` the same in the one array of the code.

## 4. Runs

Each run ends within five minutes on two workers. `CHECK_DEADLOCK FALSE` is set
for the protocols, for `asn1_codec`, `x509_chain` and `calls`, whose systems really end,
and nowhere else.

| run | module | what it shows |
|---|---|---|
| `conn` | TlsConn | with one fault anywhere, partial reads, closes, a receive timeout at the client and sequence numbers that wrap after two records: each application has a prefix of the peer's stream (`PrefixDelivered`), all of it at close_notify (`CompleteAtNotify`), records are accepted only in their turn (`AcceptInOrder`), the connection implements SecureStream, what is sent undisturbed to a side that receives in a loop arrives (`EventuallyDelivered`), and `tls_shutdown` returns on a socket with a timeout, when the peer is gone, and when both are in it (`ShutdownReturns`) |
| `tlcp_faults` | TlcpHandshake | all configurations, two faults, timeouts, processes that end: `UnalteredView`, `Authenticated`, `KeyFromServer`, `ReadyForData`, and KeyAgreement is implemented |
| `tlcp_live` | TlcpHandshake | no faults, no timeouts, processes that end: both calls return (`Returns`), compatible peers complete unless a process ends (`Completes`) and fail for no reason of their own (`FailsForAReason`) |
| `tls_handshake` | MCTlsHandshake | TLS 1.2 and 1.3, every kind of certificate, one disturbed record or failed signature, with and without timeouts: `Authenticated`, KeyAgreement implemented, `ReadyForData`, data of TLS 1.3, a client's early data included, handed out once and in order (`DataInOrder`), `FailsForAReason`, `Returns`, and a TLS 1.3 client that the server refuses after it completed finds out if it goes on receiving (`LearnsOfRefusal`) |
| `stream_pieces` | CipherStream | all modes, all cuts of inputs up to 26 bytes, and the tools' in-place encryption loops over three buffers: `StreamIsOneShot`, `NeverAhead` (padding and tag are held back), `OutFits`; GCM encryption stops before a counter is used twice (`CounterFresh`) |
| `sm2_arithmetic` | Sm2Sign | every curve of order 7: `SignatureVerifies` for its digest and no other, `FastAgrees` with `sm2_do_sign` |
| `sm2_pool` | Sm2Pool | `NonceOnce` through refills and failures, those of an init that nobody looked at included; `PointOfNonce` for contexts whose init succeeded |
| `xmss_sign` | Xmss | `VerifiesExactly`, `OtherDigestNeedsEarlier` for all digests and indices, given alone or together |
| `asn1_codec` | MCAsn1Codec | what is written is read back (`RoundTrip`), an encoding changed in one place is not read as the same value (`Unambiguous`), what was read can be printed (`PrintAccepts`); the exceptions of the first and the last are exact, those of the second name the kinds of change the code lets through |
| `calls` | MCCalls | every call of every program failing or not: what was opened is given back (`GivesBack`), keys are erased (`SecretsErased`), nothing is used that is not there (`UsesWhatItHas`), the status is honest (`HonestStatus`), each with a table of the places where the code falls short |
| `x509_chain` | MCX509Chain | chains of up to two intermediate certificates before six lists of trusted ones: what is accepted is a proper path to a trusted certificate, for a TLCP pair and with CRLs too (`AcceptsOnlyPaths`), and what is refused is not, or is completed only by a trusted certificate behind another of its name (`RefusesForAReason`) |
| `tool_cbc_decrypt` | CipherStream | the finding of section 6 |

The tables of `asn1_codec` (`WrittenNotRead`, `LeftUnset`, `Slack`, `PrintRefuses`) and of
`calls` (`Kept`, `Exposed`, `Unfounded`, `Unreported` and three sets of names)
are part of the properties: a place that comes to join them fails the run.
`RoundTrip` and `PrintAccepts` are equivalences, so that a place that leaves
them fails it too. `Slack` is no equivalence: it says of a change what it looks
like (a NULL after an algorithm, UTCTime for GeneralizedTime of the same second,
a minimum of 0, another order where each element says what it is, something
after what a reader looked for), and of some types only.

**Bounds.** In `conn` three records per direction and two sequence numbers make
the third record carry the number of the first, so that the numbers wrap while a
record that is lost, repeated or overtaken is followed by others that might be
mistaken for it; an application that sends three bytes gets two of them sent, and
reads of one and two bytes make every split. Two faults in a
handshake allow a change and a second one that might hide it; the proofs remove
the bound. A block of 3 bytes, a tag of 2 and a MAC of 4 put every boundary of
the partial-block logic within a few blocks, with a tag shorter and a tag longer
than a block; 26 bytes are more than two of the tools' buffers of 12. The
counter has 6 values instead of 2^32, so that its end is reached within five
blocks; a piece never exceeds what GCM allows for a whole message, as no buffer
of 64 GB would. Order 7 with words up to 9 has digests and x-coordinates on both sides
of the order and every edge of `r`, `s` and `k`. A pool of 2 with 5 draws is
filled, emptied, refilled and left half-filled. Base 3 digits, 2 of them with 2 of
checksum, make every digest, index and pair of them enumerable (an L-tree of odd
levels is left to the proof); a tree of height 2 has left and right nodes on
each level. In `conn` only the client has a timeout because
`tlcp_client -get` sets `SO_RCVTIMEO` and the servers do not. In `tls_handshake` one fault
and two pieces of data per side, the least that have an order, are what a run with both protocols and liveness
has room for; TLCP, with the same Finished logic as TLS 1.2, is checked with
two, and the proofs remove both bounds for all but what happens undisturbed. In `asn1_codec` every type is written with all of its fields, with every
one and two of them missing, with none, and with every content of one field;
encodings are changed by one removal, repetition, exchange, addition or
replacement anywhere in the tree, as a chain that forgets a check does so for
one element. Each is read into variables that hold something or nothing. In `x509_chain` an entity, a CA with two keys and another CA have
certificates with every signer, seven sets of extensions for the entity and six
for CAs, and seven flaws; depths of 1 and 2 with two intermediate certificates
reach both sides of each limit, and the proofs remove these bounds for what is
accepted and for what is refused. In `calls` the options of a tool come at most once and in a fixed
order, loops run any number of times, and a release whose result the code
ignores succeeds; one whose result becomes the status may fail.

**Fairness.** `TlsConn`: the receive loop of a server calls `tls_recv` until it
does not return 1, and a call inside `tls_shutdown` runs on. Nothing is assumed of
a client, which waits for its user, and nobody is assumed to close: the servers
keep the socket of a connection that has ended (`tls12_server.c:166`). `TlcpHandshake`: a blocking call runs on
when it can, and a tool whose handshake failed exits. `TlsHandshake`: the same;
nothing is assumed of an application whose handshake is done, since `tls13_client`
waits in `fgets` first, and `LearnsOfRefusal` has the client's receiving as its
premise (`ClientReceives`). All weak fairness; nothing
is assumed of the network, of senders or of timeouts beyond a call that waits
being woken.

## 5. Proofs

Eight modules are checked by TLAPS: `TlsConnProofs`, `TlcpHandshakeProofs`,
`TlsHandshakeProofs` and `TlsScriptProofs` (about five minutes each),
`X509ChainProofs`, `Sm2Proofs`, `CipherStreamProofs` and `XmssProofs`.

* **TypeCorrect** (TlsConn): the type invariant. It needs that removing,
  doubling and swapping records keeps sequences sequences.
* **SafeCorrect**, **InOrderCorrect** (TlsConn): `SafeInv` is inductive: records
  are numbered by their place in the log (`LogInv`), a record in flight that
  still decrypts is one that was sent (`WireInv`), and the receiver's number is
  that of the next record it accepts (`RecvInv`). With `NoWrap`, fewer records
  than sequence numbers, an acceptable record is therefore the next one. Holds
  for any number of faults and for applications that go on after failures.
* **StreamCorrect**, **CompleteCorrect** (TlsConn): prefix delivery, and
  completeness at close_notify, for applications that stop at the first failure
  (`~Persistent`). `AcceptInOrder` does not give it: what was returned and what
  is buffered must together be the bytes of the accepted records
  (`DeliveryInv`), and close_notify must be last (`CloseInv`).
* **RefinesStream** (TlsConn): from the same invariants and hypotheses, every step
  is a step of `SecureStream` or changes nothing of it.
* **TypeCorrect**, **AgreeCorrect**, **AgreementCorrect** (TlcpHandshake):
  refinement of KeyAgreement for any number of faults, timeouts and crashes.
  `AgreeInv` says that from its Finished on the client only waits, that an
  intact Finished in flight stands for what its sender still has, and that from
  there on the server has the client's view.
* **KeyFromServerCorrect**, **UnalteredCorrect**, **AuthenticatedCorrect**,
  **ReadyCorrect**, **FailsCorrect** (TlcpHandshake): the
  five safety invariants of the TLCP run, for any number of faults. `KeyInv`
  follows the pre-master secret from the client that draws it to the server that
  decrypts it; `AlteredInv` says that a message altered on the way and taken up
  leaves the transcripts different for good; `AuthInv` that a signature in flight
  is over a transcript its sender had; `NumberInv` counts the protected records,
  of which **ReadyCorrect** says that both sides start their data at number 1 (that
  they have one master secret is part of **AgreementCorrect**).
  `ScriptInv` is the long one: while nothing was disturbed the two sides, their
  wires and their transcripts are at one of the places of a single script, and
  the only branch out of it is one for which `FailsForAReason` has a reason.
* **TypeCorrect**, **DataCorrect**, **AuthenticatedCorrect**, **AgreementCorrect**,
  **SameKeysCorrect** (TlsHandshake): TLS 1.2 and TLS 1.3 for any number of faults,
  failed signatures, pieces of data and timeouts. One lemma per message says
  where it leads, what it puts on the wire or takes from it and what it adds to
  the transcript (`Sends`, `Takes`, `Shows`, `Skims`); the invariants rest on these
  lemmas and on the network never making a record that counts (`Weighty`).
  `DataInv`: a data record that was not altered carries the datum its number
  stands for, and the numbers of a side that has completed count its data, so
  that only the next datum decrypts. `AuthInv`: a signature in flight is in its
  sender's transcript, over what came before it, and who is past a check has
  passed it. `AgreeInv12` is TLCP's argument with the client settling first;
  `AgreeInv13` the same with the roles exchanged: the server derives the
  application secrets at its Finished, an intact Finished in flight stands for
  them, and a client past it has derived the same, because both hash the same
  messages under the same key exchange. That keys agree (`SameKeys`) is the
  first half of `ReadyForData` and follows from `AgreeInv`. TLC has checked the
  three invariants on the instance of `tls_handshake`.
* **ScriptCorrect**, **ReadyForDataCorrect**, **FailsForAReasonCorrect**
  (TlsHandshake, in `TlsScriptProofs`): what happens while nothing was disturbed
  and nobody has failed (`Calm`). `ScriptInv` gives each protocol one script. Per side, its step fixes
  how many records it has sent and taken, its transcript, its secrets and its
  record numbers; `InFlight` says that the records between the two counts are what
  is on the wire. In TLS 1.3 the script goes on with the data, which a client may
  send while the server still waits for its Finished, and the numbers start again
  with every change of keys. Where the server asks for a certificate the script has
  three more messages; a TLS 1.3 client without one sends its Finished at once,
  which is where the script ends for a reason. The pairs of steps that occur
  together are those for which the counts fit. `NoRefusal12` and `NoRefusal13` say that
  no side of it refuses what it takes: a step that leaves the script is one for which `FailsForAReason` has a reason, and two sides at the end of it have the
  numbers that `ReadyForData` asks for. TLC has checked `ScriptInv` on the instance
  of `tls_handshake`.
* **NonceOnceCorrect**, **PointOfNonceCorrect** (Sm2Pool): for pools of any
  size. `PoolInv` says of the entries still to be taken that they were drawn,
  are complete, are in one place only and unused; a failed refill is harmless
  because it happens only to an empty pool. A failed init is not: the signer goes
  on with entries that are half new and half what was there before. `NonceOnce`
  survives it, as no nonce that was drawn gets into two places; `PointOfNonce`
  is stated for contexts whose last init succeeded.
* **PathsCorrect** (X509Chain): `AcceptsOnlyPaths` for chains of any length and any
  certificates, lists and CRLs. `ChainInv` says that what was read so far is a
  proper path that ends at `cert`, that `path_len` is one less than its length,
  and that the checks that are made once are pending exactly as long as no CA was
  read. One step adds `Vouches` to it, whichever of the three verifiers it is.
* **RefusalsCorrect** (X509Chain): the converse, `RefusesForAReason`. `RefuseInv`
  says that a check that has failed so far is one a proper path passes;
  `CheckCrlComplete` that the CRL check refuses nothing else.
* **SignaturesCorrect**, **FastCorrect** (Sm2Sign): for every prime order, key,
  digest and nonce a signature that `sm2_do_sign` returns verifies, and
  `sm2_fast_sign` computes the same one. Both rest on
  s(1 + d) = k - rd (mod n) having exactly one solution. That inverses exist is
  proved from the primality of n by the least-number principle (`LeastNumber`:
  the smallest positive value of ax mod n divides n), the products in Montgomery
  form cancel their factors, and r + s is not 0 because `MustRetry` has excluded
  r + k = n.
* **OneShotCorrect**, **NeverAheadCorrect**, **CounterCorrect**, **FitsCorrect**
  (CipherStream): all four properties of `stream_pieces`, for every mode, block
  size, tag length, counter period and piece. The inductive invariant (`Inv`) says
  of a running stream (`RunAt`) that its first k blocks are out, that the context
  holds exactly the bytes after them, the chaining value of block k and, where
  there is a tag, the bytes that may be it, and that the MAC has seen the rest;
  `Counts` fixes k from the bytes known, with the block that is held back for its
  padding. Three lemmas carry it through an update (`BlockStep`, `MacStep`,
  `TagStep`), the last one through the three cases in which old tag bytes, new
  bytes or both turn out to be data. The loop over blocks, `CryptBlocks`, is a
  recursive function on memory in which input and output may overlap;
  `CryptBlocksIs` gives its closed form by the least block at which it could go
  wrong. Two hypotheses: `ToolsInPlace`, because in-place calls are right only
  where nothing is held back and the buffer holds whole blocks (the finding of
  section 6 is a tool that breaks it), and `PiecesFit`, no piece beyond the GCM limit,
  because a single call may be refused for bytes that are the tag. TLC has checked
  `RunAt` on the instance of `stream_pieces`, which satisfies both.
* **VerifiesExactlyCorrect**, **OtherDigestNeedsEarlierCorrect**, **TypeCorrect**
  (Xmss): both properties of `xmss_sign` for every base, every number of digits
  and every height. Signing and verifying are functions of their input, so the
  invariant (`SignedInv`) only says how the last signature and verdict were computed
  and the work is in the lemmas. The checksum: the larger the digits the smaller
  the sum (`CsumOrder`), and a number whose digits are all at least another's is at
  least as large (`DigitsOrder`), so that no digest dominates another in all its
  digits (`SomeDigitBelow`). Accepting: a chain can be left and entered again
  (`ChainAppend`), the verifier's nodes are those of the tree (`PathAccepts`; the
  array of the tree has no overlapping levels, `LevelsApart`). Rejecting, from the
  root down: an index whose path ends at node 0 is one of the tree (`HalvesToRoot`),
  equal nodes have equal children (`PathRejects`), equal L-tree roots equal leaves
  although odd nodes move up unhashed (`LtreeInjective`), equal ends of chains equal
  beginnings (`ChainInjective`), and the chains of two one-time keys never meet
  (`KeyChainsApart`). That equal hash values come from equal inputs and addresses
  is what the model takes a hash to be; the proof shows that the addresses the code
  gives the hashes, its checksum and its tree are enough for the rest. The one
  assumption besides positive sizes, that the largest checksum fits in its digits,
  holds of the code's 16, 64 and 3. TLC has checked `SignedInv` on the instance of
  `xmss_sign`.

Assumptions are those of the modules that declare the constants (positive
sizes, distinct peers, lists that are sequences, a prime order, options for the
command only, and for SM4 `sbytes` and the GCM tag no longer than a block, the data
unit no shorter, more than one counter value). Only model-checked: everything under fairness
(`EventuallyDelivered`, `ShutdownReturns`, `Returns`, `Completes`,
`LearnsOfRefusal`), which TLAPS does not do; `Asn1Codec`, whose results are computed
by RECURSIVE operators over templates and encodings of any depth; `Calls`, whose
programs are constants that TLC runs through completely up to the bounds above, so
that there is no general instance to prove.

What the recursive functions of `CipherStream` and `Xmss` compute is proved by the
least number at which a claim fails (`LeastNumber`, from the well-founded order of the
natural numbers): that a function with the given equation exists, then its values.

## 6. Findings

One is a run in which TLC violates what the repository says of itself.

* The sm4_cbc tool, which decrypts in place, goes wrong on input longer than its
  buffer (`tool_cbc_decrypt`).

The modules state more such properties that TLC refutes. No run keeps them; to
reproduce one, give the named property to the cfg named with it.

* `ShutdownSawNotify` (TlsConn, `MCTlsConn.cfg`): `tls_shutdown` takes any record
  for the close_notify that its trace line announces (`tls.c:1837`).
* `NotifiedCanAnswer` (TlsConn, `MCTlsConn.cfg`): `tls_shutdown` cannot
  answer a close_notify that `tls_recv` has read, because the alert's bytes count
  as buffered data.
* `ShutdownAlwaysReturns` (TlsConn, `MCTlsConn.cfg`): a `tls_shutdown` without a
  receive timeout waits for ever for a peer that has read the close_notify and
  neither answers nor closes, which is what the servers do; `tls12_client.c:149`
  has no timeout.
* `DecryptWithinLimit` (CipherStream, `MCCipherStream.cfg`): `sm4_gcm_decrypt_update` counts less than it decrypts.
* `ToolDecrypts` and `ToolIsOneShot` (CipherStream, `MCToolCbcDecrypt.cfg` with
  `"gcm_dec"` in `Modes` and `ToolModes`): the sm4_gcm tool fails on input longer
  than its buffer, and writes bytes for an empty message because
  `sm4_gcm_decrypt_update` leaves `*outlen` unset for short input.
* `FastVerifies` (Sm2Sign, `MCSm2Sign.cfg`): `sm2_fast_sign` lacks the retries
  that `sm2_do_sign` documents.
* `RetriesOnZero` (Sm2Pool, `MCSm2Pool.cfg`): `sm2_encrypt_finish` does not retry
  when the key stream is all zero, as `sm2_do_encrypt_ex` asks of it.
* `UncheckedInitIsSafe` (Sm2Pool, `MCSm2Pool.cfg`): after a failed
  `sm2_sign_init`, whose result the handshakes ignore, `sm2_sign_finish` signs with
  a nonce nobody drew, or with a new nonce and the point of another one.
* `CasAreCas` (X509Chain, `MCX509Chain.cfg`): "middle_ca_cert: ca = 1" and
  "root_ca_cert: ca = 1" say the comments of `x509_basic_constraints_check`
  (`x509_ext.c:2040`), but a certificate without BasicConstraints is not noticed
  there: only the first intermediate one cannot do without.
* `NoPointNoCheck` (X509Chain, `MCX509Chain.cfg`): `certverify -check_crl` refuses
  an entity without CRLDistributionPoints, where its help says "If the entity
  certificate has CRLDistributionPoints extension" (`certverify.c:33`):
  `x509_cert_check_crl` turns the 0 that means so into -1.
* `SignsWithinTree` (Xmss, `MCXmss.cfg`): `sm3_xmss_sign_finish` signs with an
  index past the tree.

The tables of `MCCalls` are lists of places where the code does not keep its own
rules. The ones that change what a user gets:

* `SKF_OpenDevice` overwrites `rv` in its clean-up, so that a failed
  authentication of the device returns `SAR_OK` with no handle set
  (`skf_ext.c:79`), which `skf_open_device` goes on to lock (`skf.c:301`); if only
  the key cannot be closed, it returns an error with the handle set.
* `sm3xmss_sign` never signs: it decodes its key from no bytes
  (`sm3xmss_sign.c:94`). `sm3xmss_keygen` does not free the tree of its key
  (`sm3xmss_keygen.c:147`).
* `crlgen -ca_issuers_uri` as the last argument reads `argv[argc]`
  (`crlgen.c:182`).
* `sdfdecrypt` never writes the plaintext of the first piece; `rand -rdrand`
  writes a buffer it did not fill; `sm4 -ccm` tests a result nobody set.
* `tls12_client` and `tls13_client` return 0, `sm9setup` and `sm9keygen` 1,
  whatever happens; `sm9verify` has its status the wrong way round; `cmsverify`
  and `crlget` succeed although the output failed.
* `skf_import_sign_cert` and `skf_export_sign_cert` use a container they did not
  open; `sdf_destroy_key` drops a session without closing it, and with it
  `sdfencrypt` and `sdfdecrypt` (line 215 of each); `skf_open_device`
  locks the device twice and keeps it if the second lock fails.
* `tls_ctx_set_certificate_and_key` returns past its clean-up with the key in
  memory (`tls.c:2176`, `tls.c:2180`); the tools for CMS, certificates, requests
  and CRLs leave their key behind on some or all paths.
* An end label frees a context that was never set (the TLS clients), closes a
  library that was not loaded (`sdf_meth.c:100`), and forgets files, buffers or
  handles in the tools that `Kept` names. The TLS servers never close their
  listening socket or a connection.

`asn1_codec` says of the readers and printers: a CRL entry without extensions
and an issuing distribution point without a name are written and not read; the
version of a CRL or of SignedData is looked at only when reading; the printers
refuse the distribution points and the empty CMS content the library writes.
The print of InhibitAnyPolicy lacks its return and goes on into the next case with
pointers nobody set (`x509_ext.c:282`). Three readers return 1 with a variable of
their caller unset: an EDI party name without its assigner (`x509_ext.c:805`), a
user notice without a reference (`x509_ext.c:1498`), and a CRL without nextUpdate
that has entries or extensions (`x509_cer.c:129`), whose `next_update`
`x509_crl_check` then compares with the time (`x509_crl.c:1613`). A distribution
point named relative to its issuer leaves the address unset that
`x509_crl_new_from_cert` tests (`x509_new.c:201`).

Met on the way and outside the models: `x509_certs_verify_tlcp` asks a client's
certificates for the use of a server's (`x509_cer.c:1889`), as the model does;
`tools/sm3xmss_sign.c`
would, if it signed, never write the advanced key back; `sm4.c:689` decrypts XTS with `encrypt_update`;
`http.c:56` keeps the result of `recv` in a `size_t`, so that -1 is never seen;
`sdf.c:308` compares where it means to copy an initial vector;
`cms_encrypted_data_to_der` writes its second pass to NULL (`cms.c:425`; the
model follows `cms_encrypted_data_encrypt_to_der`); `tls_shutdown` uses the CBC
code and unset MAC keys for TLS 1.3 connections, the server then fails without
closing (`tls13_server.c:160`) and the client waits.

## 7. Limits

* The prefix guarantee is for applications that stop at the first `-1`. One
  that calls `tls_recv` again may be given bytes of a refused record.
* Sequence numbers wrap at 2^56; the safety proofs assume fewer records.
* A record is read and written in one step. `tls_record_recv` waits for ever in
  the middle of a record and returns 0 at an end of stream there; both are
  planned with the record framing.
* Sockets are blocking, with or without a receive timeout. `tls_set_socket`
  accepts non-blocking ones, with which the handshakes treat `-EAGAIN` as a
  failure.
* Alert descriptions are left out: every reader treats any alert alike.
* No liveness property rests on a server closing the socket of a connection that
  has ended, as none does before it accepts the next; a client that waits for such
  a close waits until its own timeout. `EventuallyDelivered` is for a side that
  receives in a loop.
* In the handshakes a random number, an encryption or (TLCP) a signature that
  fails inside a step, which ends it with an alert, is left out.
* That the sequence numbers may wrap is checked with one fault; with as many as the
  network likes an old record of the same number may come back, which is why the
  proofs exclude the wrap.
* `next_update` of a CRL in `X509Chain` is what the reader hands out, which is not
  always what the CRL says (section 6).
* `OutFits` says nothing of XTS and of CFB with `sbytes` below the block size.
* The tools' CFB loops are checked for `sbytes` that divide the buffer, as 1, 8
  and 16 do.
* `Returns` of `TlsHandshake` says nothing of a connection without timeouts on
  which a record was disturbed: after a lost one a side does wait.
* `Calls` has no arithmetic on lengths: a query that is made only to learn a
  length, and the counting of arguments, are left out. Closing an SDF session ends
  its rights and keys, disconnecting an SKF device its lock.
* `X509Chain` compares names as a whole and does not look into name constraints,
  policies or alternative names, as the code does not.
* Random numbers never repeat (`Sm2Pool`) and are unpredictable (symbolic).

## 8. Not modelled

* `tls_trace.c`, the printing of numbers and names, `gmssl.c`, `version.c`:
  output and dispatch. `sm2speed.c` times functions, `sdfutil.c` is not compiled.
* `sm2_z256_table.c`, `sm9_z256_table.c`, the SIMD and assembly files: tables and
  other ways to compute what is symbolic here.
* The compression functions and block ciphers, the tower field of SM9, limbs and
  carries: bit mixing and 256-bit arithmetic, out of TLC's reach. A small
  limb width is possible and in the plan.
* `sdf_sansec.c`, `skf_wisec.c` and `skf_prn.c`, which translate a vendor's
  numbers into names and back, and `skf_dummy.c`.
* `rand_*.c`, `file.c`, `socket.c`: operating system calls. What they do to their
  callers (fail, return less, wait) is in the modules of the callers.
* PEM lines, hex and base64, the bytes of DER lengths, integers and times:
  planned.

## 9. Plan

Written so far: the modules of section 3. Next, in this order:

1. Proofs: `RoundTrip` and `Unambiguous` of `Asn1Codec`, for which encoding and parsing
   have to be functions on the depth of a template.
2. `Cms`: whose key signs (`cms.c:1102`, `cms.c:1805`); the verdict of `X509Chain`
   as an input of the handshakes replaced by their composition.
3. `RecordIO`: `tls_record_send`/`recv` in pieces with timeouts, composed with
   `TlsConn`.
4. `DigestStream` for SM3, SHA and HMAC contexts, base64 and ZUC after
   `CipherStream`; CCM and CBC-MAC; PEM and DER bytes.
5. `Lms` after `Xmss`; SM9 signing with its retry (`sm9_sign.c:133`) over a
   symbolic pairing; Shamir shares and ring signatures over `Sm2Sign`; limb
   arithmetic with a small limb width; Kyber's transform over a small modulus.
