-------------------------------- MODULE Wire --------------------------------
(***************************************************************************)
(* A connection byte by byte: frames that TCP hands over in chunks of any  *)
(* length, the Noise handshake, the nonces of the ciphers, and the         *)
(* messages inside.  EspHomeDevice starts where this module ends: there a  *)
(* frame is a unit.  The states after the handshake are one here, "Ready". *)
(* The node is external: it reads and writes what the code does.           *)
(***************************************************************************)
EXTENDS Proto

CONSTANTS
  Key,         \* pre-shared keys, numbers
  UpMessage,   \* the messages of the service: type and fields
  DownMessage, \* those of the node
  MaxSent      \* bound on the messages in either direction

ASSUME WireAssumption == Key \subseteq Nat /\ MaxSent \in Nat

VARIABLES
  encryptionKey, \* the key of the service
  nodeKey,       \* the key of the node
  m_state,       \* EspHomeDevice::m_state, "Closed" once the socket is given up
  m_noise,       \* NoiseNNpsk0: its next action, m_complete, the two nonces
  m_rxBuf,       \* bytes received and not yet consumed
  reading,       \* the loop of onReadyRead is running
  toNode,        \* bytes under way to the node
  toService,     \* bytes under way to the service
  nodeState,     \* how far the node has come
  nodeNonce,     \* the two nonces of the node
  sentUp, gotUp,    \* history: plaintexts of the messages sent and processed
  sentDown, gotDown

service == <<m_state, m_noise, m_rxBuf, reading>>
node    == <<nodeState, nodeNonce>>
keys    == <<encryptionKey, nodeKey>>
vars    == <<keys, service, node, toNode, toService, sentUp, gotUp, sentDown, gotDown>>

-----------------------------------------------------------------------------
(***************************************************************************)
(* Frames                                                                  *)
(***************************************************************************)
Limit == Base * Base   \* lengths are quint16

\* A number as two bytes, and back.
HighLow(n) == <<(n % Limit) \div Base, n % Base>>
FrameSize(buf) == buf[2] * Base + buf[3]

Framed(payload) == <<1>> \o HighLow(Len(payload)) \o payload

\* Whether the loop goes on: a whole header, and after it the whole frame.
FrameComplete(buf) == Len(buf) >= 3 /\ Len(buf) >= 3 + FrameSize(buf)

framePayload(buf) == SubSeq(buf, 4, 3 + FrameSize(buf))

Remainder(buf) == SubSeq(buf, 4 + FrameSize(buf), Len(buf))

-----------------------------------------------------------------------------
(***************************************************************************)
(* Noise.  What only the holder of a key can make is a value beyond the    *)
(* bytes: a handshake message under a key, the MAC of the n-th message.    *)
(* A MAC does not say which key: the service looks at one only when its    *)
(* handshake is complete, and then the keys are equal.                     *)
(***************************************************************************)
Handshake(key, n) == <<Base + 3 * key + n>>   \* n is 1 or 2
Mac(n) == <<Base + 3 * n>>

\* The constructor: the handshake starts with a message of the initiator.
NewNoise == [action |-> "WRITE", m_complete |-> FALSE, send |-> 0, recv |-> 0]

FaultyReadHandshake(data) == m_noise.action = "READ"

\* readHandshake: a second message made with our key, when it is its turn.
readHandshake(data) == m_noise.action = "READ" /\ data = Handshake(encryptionKey, 2)

\* encrypt: the library refuses a message longer than a frame can be.
encrypt(plaintext, n) ==
  IF Len(plaintext) + Len(Mac(n)) >= Limit THEN <<>> ELSE plaintext \o Mac(n)

\* decrypt: empty when the MAC is not that of the n-th message.
decrypt(ciphertext, n) ==
  IF ciphertext # <<>> /\ ciphertext[Len(ciphertext)] = Mac(n)[1]
    THEN SubSeq(ciphertext, 1, Len(ciphertext) - 1) ELSE <<>>

-----------------------------------------------------------------------------
(***************************************************************************)
(* Messages                                                                *)
(***************************************************************************)
\* What sendMessage encrypts.
inner(m) ==
  LET payload == encode(m.fields) IN HighLow(m.type) \o HighLow(Len(payload)) \o payload

ASSUME MessageAssumption ==
  UpMessage \cup DownMessage \subseteq [type : 0..(Limit - 1), fields : Seq(Encodable)]

\* What the loop makes of a plaintext of four bytes or more.
Parsed(plaintext) ==
  LET dataLen == plaintext[3] * Base + plaintext[4]
      end     == IF 4 + dataLen > Len(plaintext) THEN Len(plaintext) ELSE 4 + dataLen
  IN [type |-> plaintext[1] * Base + plaintext[2], fields |-> decode(SubSeq(plaintext, 5, end))]

FaultyProcessed(plaintext) == IF Len(plaintext) <= 4 THEN <<>> ELSE <<plaintext>>

\* A plaintext is handed to processMessage unless it is too short.
Processed(plaintext) == IF Len(plaintext) < 4 THEN <<>> ELSE <<plaintext>>

-----------------------------------------------------------------------------
(***************************************************************************)
(* The service                                                             *)
(***************************************************************************)
\* sendMessage, with sendRaw; nothing is sent before the handshake is complete.
sendMessage(m) ==
  /\ m_state # "Closed" /\ ~reading
  /\ m_noise.m_complete
  /\ Len(sentUp) < MaxSent
  /\ LET encrypted == encrypt(inner(m), m_noise.send)
     IN /\ toNode' = toNode \o Framed(encrypted)
        /\ m_noise' = [m_noise EXCEPT !.send = IF encrypted = <<>> THEN @ ELSE @ + 1]
  /\ sentUp' = Append(sentUp, inner(m))
  /\ UNCHANGED <<keys, m_state, m_rxBuf, reading, node, toService, gotUp, sentDown, gotDown>>

\* readyRead: n more bytes.
onReadyRead(n) ==
  /\ ~reading /\ m_state # "Closed"
  /\ m_rxBuf' = m_rxBuf \o SubSeq(toService, 1, n)
  /\ toService' = SubSeq(toService, n + 1, Len(toService))
  /\ reading' = TRUE
  /\ UNCHANGED <<keys, m_state, m_noise, node, toNode, sentUp, gotUp, sentDown, gotDown>>

FaultyLoopReturns ==
  /\ reading
  /\ reading' = FALSE
  /\ UNCHANGED <<keys, m_state, m_noise, m_rxBuf, node, toNode, toService, sentUp, gotUp, sentDown, gotDown>>

\* Too few bytes for the header or the frame.
LoopReturns ==
  /\ reading
  /\ ~(Len(m_rxBuf) >= 3 /\ (m_rxBuf[1] # 1 \/ FrameComplete(m_rxBuf)))
  /\ reading' = FALSE
  /\ UNCHANGED <<keys, m_state, m_noise, m_rxBuf, node, toNode, toService, sentUp, gotUp, sentDown, gotDown>>

\* The frames on which the loop closes the connection.
Refused(payload) ==
  CASE m_state = "ServerHello" -> payload = <<>> \/ payload[1] # 1
    [] m_state = "NoiseHandshake" -> payload = <<>> \/ payload[1] # 0 \/ ~readHandshake(Tail(payload))
    [] m_state = "Ready" -> decrypt(payload, m_noise.recv) = <<>>

GiveUp ==
  /\ reading
  /\ Len(m_rxBuf) >= 3
  /\ m_rxBuf[1] # 1 \/ (FrameComplete(m_rxBuf) /\ Refused(framePayload(m_rxBuf)))
  /\ m_state' = "Closed"
  /\ reading' = FALSE
  /\ UNCHANGED <<keys, m_noise, m_rxBuf, node, toNode, toService, sentUp, gotUp, sentDown, gotDown>>

\* A frame that is accepted is consumed, and the loop goes on.
TakeFrame ==
  /\ reading
  /\ FrameComplete(m_rxBuf) /\ m_rxBuf[1] = 1
  /\ ~Refused(framePayload(m_rxBuf))
  /\ m_rxBuf' = Remainder(m_rxBuf)

ServerHelloFrame ==
  /\ m_state = "ServerHello"
  /\ TakeFrame
  /\ m_state' = "NoiseHandshake"
  /\ UNCHANGED <<keys, m_noise, reading, node, toNode, toService, sentUp, gotUp, sentDown, gotDown>>

NoiseHandshakeFrame ==
  /\ m_state = "NoiseHandshake"
  /\ TakeFrame
  /\ m_state' = "Ready"
  /\ m_noise' = [m_noise EXCEPT !.action = "NONE", !.m_complete = TRUE]
  /\ UNCHANGED <<keys, reading, node, toNode, toService, sentUp, gotUp, sentDown, gotDown>>

MessageFrame ==
  /\ m_state = "Ready"
  /\ TakeFrame
  /\ m_noise' = [m_noise EXCEPT !.recv = @ + 1]
  /\ gotDown' = gotDown \o Processed(decrypt(framePayload(m_rxBuf), m_noise.recv))
  /\ UNCHANGED <<keys, m_state, reading, node, toNode, toService, sentUp, gotUp, sentDown>>

\* The node has closed and nothing is left to read.
Disconnected ==
  /\ nodeState = "closed" /\ toService = <<>>
  /\ ~reading /\ m_state # "Closed"
  /\ m_state' = "Closed"
  /\ UNCHANGED <<keys, m_noise, m_rxBuf, reading, node, toNode, toService, sentUp, gotUp, sentDown, gotDown>>

-----------------------------------------------------------------------------
(***************************************************************************)
(* The node                                                                *)
(***************************************************************************)
NodeTakes == FrameComplete(toNode) /\ toNode' = Remainder(toNode)

\* The client hello is answered with the server hello: 1, a name, 0.
NodeHello ==
  /\ nodeState = "hello" /\ NodeTakes
  /\ nodeState' = "noise"
  /\ toService' = toService \o Framed(<<1, 2, 0>>)
  /\ UNCHANGED <<keys, service, nodeNonce, sentUp, gotUp, sentDown, gotDown>>

\* The first handshake message is answered, or refused if it was made with
\* another key.
NodeHandshake ==
  /\ nodeState = "noise" /\ NodeTakes
  /\ IF framePayload(toNode) = <<0>> \o Handshake(nodeKey, 1)
       THEN /\ nodeState' = "open"
            /\ toService' = toService \o Framed(<<0>> \o Handshake(nodeKey, 2))
       ELSE /\ nodeState' = "closed"
            /\ toService' = toService \o Framed(<<1>>)
  /\ UNCHANGED <<keys, service, nodeNonce, sentUp, gotUp, sentDown, gotDown>>

\* A node that holds another key and answers all the same.
NodePretends ==
  /\ nodeState = "noise" /\ nodeKey # encryptionKey
  /\ NodeTakes
  /\ nodeState' = "open"
  /\ toService' = toService \o Framed(<<0>> \o Handshake(nodeKey, 2))
  /\ UNCHANGED <<keys, service, nodeNonce, sentUp, gotUp, sentDown, gotDown>>

NodeReceives ==
  /\ nodeState = "open" /\ NodeTakes
  /\ LET plaintext == decrypt(framePayload(toNode), nodeNonce.recv)
     IN /\ nodeState' = IF plaintext = <<>> THEN "closed" ELSE "open"
        /\ nodeNonce' = [nodeNonce EXCEPT !.recv = @ + 1]
        /\ gotUp' = gotUp \o Processed(plaintext)
  /\ UNCHANGED <<keys, service, toService, sentUp, sentDown, gotDown>>

NodeSends(m) ==
  /\ nodeState = "open"
  /\ Len(sentDown) < MaxSent
  /\ toService' = toService \o Framed(encrypt(inner(m), nodeNonce.send))
  /\ nodeNonce' = [nodeNonce EXCEPT !.send = @ + 1]
  /\ sentDown' = Append(sentDown, inner(m))
  /\ UNCHANGED <<keys, service, nodeState, toNode, sentUp, gotUp, gotDown>>

-----------------------------------------------------------------------------
\* After onConnected: the empty client hello and the first handshake message
\* have left in one write.
Init ==
  /\ encryptionKey \in Key /\ nodeKey \in Key
  /\ m_state = "ServerHello"
  /\ m_noise = [NewNoise EXCEPT !.action = "READ"]
  /\ toNode = Framed(<<>>) \o Framed(<<0>> \o Handshake(encryptionKey, 1))
  /\ m_rxBuf = <<>> /\ reading = FALSE /\ toService = <<>>
  /\ nodeState = "hello" /\ nodeNonce = [send |-> 0, recv |-> 0]
  /\ sentUp = <<>> /\ gotUp = <<>> /\ sentDown = <<>> /\ gotDown = <<>>

Reads == (\E n \in 1..Len(toService) : onReadyRead(n)) \/ LoopReturns \/ GiveUp
         \/ ServerHelloFrame \/ NoiseHandshakeFrame \/ MessageFrame \/ Disconnected

NodeReads == NodeHello \/ NodeHandshake \/ NodeReceives

Next ==
  \/ Reads \/ NodeReads \/ NodePretends
  \/ \E m \in UpMessage : sendMessage(m)
  \/ \E m \in DownMessage : NodeSends(m)

\* Qt emits readyRead for bytes that arrive and runs the loop to its end; the
\* node reads what it is sent.
Spec == Init /\ [][Next]_vars /\ WF_vars(Reads) /\ WF_vars(NodeReads)

-----------------------------------------------------------------------------
(***************************************************************************)
(* Properties                                                              *)
(***************************************************************************)
Up   == INSTANCE Pipe WITH sent <- sentUp, got <- gotUp
Down == INSTANCE Pipe WITH sent <- sentDown, got <- gotDown

\* Whatever the chunks in which the bytes of frames arrive, the messages are
\* processed one by one, unchanged and in order, in both directions, also when one
\* was too long to be sent.
InOrder == Up!Spec /\ Down!Spec

\* Nothing is processed on a connection whose ends hold different keys, even if
\* the node goes on as if they were equal.
SameKeyOnly == gotUp # <<>> \/ gotDown # <<>> => encryptionKey = nodeKey

\* With equal keys the handshake ends, every message of the node is processed
\* and every one of the service reaches the node, unless one was too long:
\* frames that are there in full are never left waiting in m_rxBuf, and the
\* service never gives up on a node that does nothing wrong.
Arrives ==
  /\ encryptionKey = nodeKey ~> m_noise.m_complete
  /\ \A k \in 1..MaxSent :
       LET spoilt == \E i \in DOMAIN sentUp : encrypt(sentUp[i], 0) = <<>>
       IN /\ (encryptionKey = nodeKey /\ Len(sentDown) >= k) ~> (Len(gotDown) >= k \/ spoilt)
          /\ (encryptionKey = nodeKey /\ Len(sentUp) >= k) ~> (Len(gotUp) >= k \/ spoilt)

IsPrefixOf(s, t) == Len(s) <= Len(t) /\ s = SubSeq(t, 1, Len(s))

\* A message that is processed has the fields that were sent, and a payload cut
\* short anywhere would have given the first of them: no field is made up from
\* the bytes that are left.
ReadAsWritten ==
  \A i \in DOMAIN gotDown : \E m \in DownMessage :
    /\ Parsed(gotDown[i]) = m
    /\ \A n \in 0..Len(encode(m.fields)) :
         IsPrefixOf(decode(SubSeq(encode(m.fields), 1, n)), m.fields)

-----------------------------------------------------------------------------
(***************************************************************************)
(* The inductive invariant for SameKeyOnly                                 *)
(***************************************************************************)
\* What a node that holds another key may send: not the answer to our handshake.
NotOurs == Nat \ {Handshake(encryptionKey, 2)[1]}

\* What the service sends before the handshake is complete: no MAC.
Unsealed == 0..(Base - 1) \cup {Handshake(encryptionKey, 1)[1]}

KeyInv ==
  /\ encryptionKey \in Key /\ nodeKey \in Key
  /\ nodeNonce \in [send : Nat, recv : Nat]
  /\ encryptionKey # nodeKey =>
       /\ m_state # "Ready" /\ ~m_noise.m_complete
       /\ toService \in Seq(NotOurs) /\ m_rxBuf \in Seq(NotOurs)
       /\ toNode \in Seq(Unsealed)
       /\ gotUp = <<>> /\ gotDown = <<>>
=============================================================================
