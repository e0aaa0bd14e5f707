----------------------------- MODULE WireProofs -----------------------------
(***************************************************************************)
(* Nothing is processed on a connection whose ends hold different keys,    *)
(* whatever the keys, the messages, the width of a byte and the chunks.    *)
(***************************************************************************)
EXTENDS Wire, ProtoProofs

-----------------------------------------------------------------------------
(***************************************************************************)
(* Frames                                                                  *)
(***************************************************************************)
\* The high byte of a number below the square of the base.
LEMMA HighByte ==
  ASSUME NEW n \in Nat, NEW B \in Nat \ {0}
  PROVE  (n % (B * B)) \div B \in 0..(B - 1)
<1> DEFINE r == n % (B * B)
           q == r \div B
<1>1. B * B \in Nat \ {0}
  OBVIOUS
<1>2. r \in 0..(B * B - 1)
  BY <1>1
<1> HIDE DEF r
<1>3. q \in Nat /\ q * B <= r
  BY <1>2
<1>4. q * B < B * B
  BY <1>1, <1>2, <1>3
<1> HIDE DEF q
<1>5. q < B
  BY <1>3, <1>4
<1> QED BY <1>3, <1>5 DEF q, r

LEMMA WiderAlphabet ==
  ASSUME NEW S, NEW T, S \subseteq T, NEW s \in Seq(S)
  PROVE  s \in Seq(T)
OBVIOUS

LEMMA HighLowBytes ==
  ASSUME NEW n \in Nat
  PROVE  HighLow(n) \in Seq(Byte)
<1>1. (n % Limit) \div Base \in Byte
  BY Bases, HighByte DEF Limit, Byte
<1>2. n % Base \in Byte
  BY Bases DEF Byte
<1> QED BY <1>1, <1>2 DEF HighLow

LEMMA FramedIn ==
  ASSUME NEW S, Byte \subseteq S, NEW payload \in Seq(S)
  PROVE  Framed(payload) \in Seq(S)
<1>1. HighLow(Len(payload)) \in Seq(S)
  <2>1. HighLow(Len(payload)) \in Seq(Byte)
    BY HighLowBytes
  <2> QED BY <2>1
<1>2. <<1>> \in Seq(S)
  BY Bases
<1> QED BY <1>1, <1>2 DEF Framed

\* A frame that is complete, and what follows it, are parts of the buffer.
LEMMA FrameParts ==
  ASSUME NEW S, S \subseteq Nat, NEW buf \in Seq(S), FrameComplete(buf)
  PROVE  framePayload(buf) \in Seq(S) /\ Remainder(buf) \in Seq(S)
<1> DEFINE n == FrameSize(buf)
<1>1. Len(buf) \in Nat /\ Len(buf) >= 3 /\ Len(buf) >= 3 + n
  BY DEF FrameComplete
<1>2. n \in Nat
  <2>1. buf[2] \in Nat /\ buf[3] \in Nat
    <3>1. 2 \in DOMAIN buf /\ 3 \in DOMAIN buf
      BY <1>1
    <3>2. \A k \in DOMAIN buf : buf[k] \in S
      OBVIOUS
    <3> QED BY <3>1, <3>2
  <2>2. \A a, b, c \in Nat : a * b + c \in Nat
    OBVIOUS
  <2> QED BY <2>1, <2>2, Bases DEF FrameSize
<1> HIDE DEF n
<1>3. SubSeq(buf, 4, 3 + n) \in Seq(S)
  <2>1. \A k \in 4..(3 + n) : buf[k] \in S
    BY <1>1, <1>2
  <2> QED BY <1>1, <1>2, <2>1
<1>4. SubSeq(buf, 4 + n, Len(buf)) \in Seq(S)
  <2>1. \A k \in (4 + n)..Len(buf) : buf[k] \in S
    BY <1>1, <1>2
  <2> QED BY <1>1, <1>2, <2>1
<1> QED BY <1>3, <1>4 DEF framePayload, Remainder, n

\* What MessageAssumption says of a message.
LEMMA MessageParts ==
  ASSUME NEW m \in UpMessage \cup DownMessage
  PROVE  /\ m = [type |-> m.type, fields |-> m.fields]
         /\ m.type \in Nat /\ m.type < Limit
         /\ m.fields \in Seq(Encodable) /\ encode(m.fields) \in Seq(Byte)
<1>1. m \in [type : 0..(Limit - 1), fields : Seq(Encodable)]
  BY MessageAssumption
<1>2. m = [type |-> m.type, fields |-> m.fields] /\ m.type \in 0..(Limit - 1) /\ m.fields \in Seq(Encodable)
  BY <1>1
<1>3. Limit \in Nat
  BY Bases DEF Limit
<1>4. encode(m.fields) \in Seq(Byte)
  BY <1>2, EncodedBytes
<1>5. m.type \in Nat /\ m.type < Limit
  BY <1>2, <1>3
<1> QED BY <1>2, <1>4, <1>5

LEMMA InnerBytes ==
  ASSUME NEW m \in UpMessage \cup DownMessage
  PROVE  inner(m) \in Seq(Byte)
<1>1. encode(m.fields) \in Seq(Byte) /\ m.type \in Nat
  BY MessageParts
<1>2. HighLow(m.type) \in Seq(Byte) /\ HighLow(Len(encode(m.fields))) \in Seq(Byte)
  BY <1>1, HighLowBytes
<1> QED BY <1>1, <1>2 DEF inner

LEMMA EncryptedIn ==
  ASSUME NEW S, NEW plaintext \in Seq(S), NEW n, Base + 3 * n \in S
  PROVE  encrypt(plaintext, n) \in Seq(S)
BY DEF encrypt, Mac

-----------------------------------------------------------------------------
(***************************************************************************)
(* The values beyond the bytes                                             *)
(***************************************************************************)
\* A handshake message of one key is neither a byte, a MAC nor one of another key.
LEMMA Apart ==
  ASSUME NEW k \in Nat, NEW l \in Nat, NEW n \in Nat
  PROVE  /\ Handshake(k, 1)[1] \in Nat /\ Handshake(k, 2)[1] \in Nat /\ Mac(n)[1] \in Nat
         /\ Handshake(k, 1)[1] \notin Byte /\ Handshake(k, 2)[1] \notin Byte /\ Mac(n)[1] \notin Byte
         /\ Handshake(k, 1)[1] # Mac(n)[1] /\ Handshake(k, 2)[1] # Mac(n)[1]
         /\ k # l => Handshake(k, 2)[1] # Handshake(l, 2)[1]
<1>1. /\ Handshake(k, 1)[1] = Base + 3 * k + 1 /\ Handshake(k, 2)[1] = Base + 3 * k + 2
      /\ Handshake(l, 2)[1] = Base + 3 * l + 2 /\ Mac(n)[1] = Base + 3 * n
  BY DEF Handshake, Mac
<1> QED BY <1>1, Bases DEF Byte

LEMMA Alphabets ==
  ASSUME encryptionKey \in Key, nodeKey \in Key, encryptionKey # nodeKey
  PROVE  /\ Byte \subseteq NotOurs /\ NotOurs \subseteq Nat /\ Handshake(nodeKey, 2)[1] \in NotOurs
         /\ \A n \in Nat : Mac(n)[1] \in NotOurs /\ Mac(n)[1] \notin Unsealed
         /\ Unsealed \subseteq Nat /\ Byte \subseteq Unsealed
<1>1. encryptionKey \in Nat /\ nodeKey \in Nat
  BY WireAssumption
<1>2. Handshake(encryptionKey, 2)[1] \notin Byte /\ Handshake(encryptionKey, 1)[1] \in Nat
  BY <1>1, Apart
<1>3. Handshake(nodeKey, 2)[1] \in Nat /\ Handshake(encryptionKey, 2)[1] # Handshake(nodeKey, 2)[1]
  BY <1>1, Apart
<1>4. ASSUME NEW n \in Nat
      PROVE  /\ Mac(n)[1] \in Nat /\ Mac(n)[1] \notin Byte
             /\ Mac(n)[1] # Handshake(encryptionKey, 1)[1] /\ Mac(n)[1] # Handshake(encryptionKey, 2)[1]
  BY <1>1, Apart
<1> QED BY <1>2, <1>3, <1>4, Bases DEF NotOurs, Unsealed, Byte

\* Nothing without a MAC is decrypted.
LEMMA NotDecrypted ==
  ASSUME NEW S, NEW c \in Seq(S), NEW n, Mac(n)[1] \notin S
  PROVE  decrypt(c, n) = <<>>
<1>1. c # <<>> => c[Len(c)] \in S
  OBVIOUS
<1> QED BY <1>1 DEF decrypt

-----------------------------------------------------------------------------
(***************************************************************************)
(* The steps                                                               *)
(***************************************************************************)
LEMMA InitKeys ==
  ASSUME Init
  PROVE  KeyInv
<1>1. encryptionKey \in Key /\ nodeKey \in Key /\ nodeNonce \in [send : Nat, recv : Nat]
  BY DEF Init
<1>2. m_state # "Ready" /\ ~m_noise.m_complete
  BY DEF Init, NewNoise
<1>3. ASSUME encryptionKey # nodeKey PROVE toNode \in Seq(Unsealed)
  <2>1. Byte \subseteq Unsealed /\ Handshake(encryptionKey, 1)[1] \in Unsealed
    BY <1>1, <1>3, Alphabets DEF Unsealed
  <2>2. <<0>> \o Handshake(encryptionKey, 1) \in Seq(Unsealed)
    <3>1. Handshake(encryptionKey, 1) \in Seq(Unsealed)
      BY <2>1 DEF Handshake
    <3>2. <<0>> \in Seq(Unsealed)
      BY <2>1, Bases
    <3> QED BY <3>1, <3>2
  <2>3. <<>> \in Seq(Unsealed)
    OBVIOUS
  <2>4. Framed(<<>>) \in Seq(Unsealed) /\ Framed(<<0>> \o Handshake(encryptionKey, 1)) \in Seq(Unsealed)
    BY <2>1, <2>2, <2>3, FramedIn
  <2> QED BY <2>4 DEF Init
<1> QED BY <1>1, <1>2, <1>3 DEF Init, KeyInv

\* The answers of the node, all in its own key.
LEMMA NodeStep ==
  ASSUME KeyInv, NodeHello \/ NodeHandshake \/ NodePretends, encryptionKey # nodeKey
  PROVE  toService' \in Seq(NotOurs) /\ toNode' \in Seq(Unsealed)
<1>1. /\ Byte \subseteq NotOurs /\ Handshake(nodeKey, 2)[1] \in NotOurs /\ Unsealed \subseteq Nat
      /\ toService \in Seq(NotOurs) /\ toNode \in Seq(Unsealed)
  BY Alphabets DEF KeyInv
<1>2. toNode' \in Seq(Unsealed)
  BY <1>1, FrameParts DEF NodeHello, NodeHandshake, NodePretends, NodeTakes
<1>3. \E payload \in {<<1, 2, 0>>, <<1>>, <<0>> \o Handshake(nodeKey, 2)} :
        toService' = toService \o Framed(payload)
  BY DEF NodeHello, NodeHandshake, NodePretends
<1>4. <<1, 2, 0>> \in Seq(NotOurs) /\ <<1>> \in Seq(NotOurs) /\ <<0>> \o Handshake(nodeKey, 2) \in Seq(NotOurs)
  <2>1. 0 \in NotOurs /\ 1 \in NotOurs /\ 2 \in NotOurs
    BY <1>1, Bases DEF Byte
  <2>2. <<0>> \in Seq(NotOurs) /\ Handshake(nodeKey, 2) \in Seq(NotOurs)
    BY <1>1, <2>1 DEF Handshake
  <2> QED BY <2>1, <2>2
<1>5. PICK payload \in Seq(NotOurs) : toService' = toService \o Framed(payload)
  BY <1>3, <1>4
<1>6. Framed(payload) \in Seq(NotOurs)
  BY <1>1, FramedIn
<1> QED BY <1>1, <1>2, <1>5, <1>6

LEMMA StepKeys ==
  ASSUME KeyInv, [Next]_vars
  PROVE  KeyInv'
<1>1. CASE encryptionKey = nodeKey
  <2>1. encryptionKey' = encryptionKey /\ nodeKey' = nodeKey
    BY DEF Next, Reads, NodeReads, NodePretends, sendMessage, NodeSends, onReadyRead, LoopReturns, GiveUp,
           ServerHelloFrame, NoiseHandshakeFrame, MessageFrame, Disconnected, NodeHello, NodeHandshake,
           NodeReceives, vars, keys
  <2>2. nodeNonce' \in [send : Nat, recv : Nat]
    BY DEF KeyInv, Next, Reads, NodeReads, NodePretends, sendMessage, NodeSends, onReadyRead, LoopReturns, GiveUp,
           ServerHelloFrame, NoiseHandshakeFrame, MessageFrame, Disconnected, NodeHello, NodeHandshake,
           NodeReceives, vars, keys, node
  <2> QED BY <1>1, <2>1, <2>2 DEF KeyInv
<1>2. CASE encryptionKey # nodeKey
  <2>1. /\ m_state # "Ready" /\ ~m_noise.m_complete /\ nodeNonce \in [send : Nat, recv : Nat]
        /\ toService \in Seq(NotOurs) /\ m_rxBuf \in Seq(NotOurs) /\ toNode \in Seq(Unsealed)
        /\ gotUp = <<>> /\ gotDown = <<>> /\ encryptionKey \in Key /\ nodeKey \in Key
    BY <1>2 DEF KeyInv
  <2>2. /\ Byte \subseteq NotOurs /\ NotOurs \subseteq Nat /\ Unsealed \subseteq Nat
        /\ \A n \in Nat : Mac(n)[1] \in NotOurs /\ Mac(n)[1] \notin Unsealed
    BY <1>2, <2>1, Alphabets
  <2>same. (encryptionKey' = encryptionKey) => NotOurs' = NotOurs /\ Unsealed' = Unsealed
    BY DEF NotOurs, Unsealed
  <2>3. CASE UNCHANGED vars
    BY <2>3, <2>1, <2>same DEF vars, keys, service, node, KeyInv
  <2>4. CASE \E m \in UpMessage : sendMessage(m)
    BY <2>1, <2>4 DEF sendMessage
  <2>5. CASE \E n \in 1..Len(toService) : onReadyRead(n)
    <3>1. PICK n \in 1..Len(toService) : onReadyRead(n)
      BY <2>5
    <3>2. SubSeq(toService, 1, n) \in Seq(NotOurs) /\ SubSeq(toService, n + 1, Len(toService)) \in Seq(NotOurs)
      <4>1. \A k \in 1..Len(toService) : toService[k] \in NotOurs
        BY <2>1
      <4> QED BY <2>1, <4>1
    <3>3. m_rxBuf' \in Seq(NotOurs) /\ toService' \in Seq(NotOurs)
      BY <2>1, <3>1, <3>2 DEF onReadyRead
    <3> QED BY <2>1, <2>same, <3>1, <3>3 DEF onReadyRead, keys, node, KeyInv
  <2>6. CASE LoopReturns \/ GiveUp \/ Disconnected
    BY <2>1, <2>6, <2>same DEF LoopReturns, GiveUp, Disconnected, keys, node, KeyInv
  <2>7. CASE ServerHelloFrame
    <3>1. m_rxBuf' \in Seq(NotOurs)
      BY <2>1, <2>2, <2>7, FrameParts DEF ServerHelloFrame, TakeFrame
    <3> QED BY <2>1, <2>7, <2>same, <3>1 DEF ServerHelloFrame, keys, node, KeyInv
  <2>8. CASE NoiseHandshakeFrame
    <3> DEFINE payload == framePayload(m_rxBuf)
    <3>1. payload \in Seq(NotOurs)
      BY <2>1, <2>2, <2>8, FrameParts DEF NoiseHandshakeFrame, TakeFrame
    <3>2. payload # <<>> /\ Tail(payload) = Handshake(encryptionKey, 2)
      BY <2>8 DEF NoiseHandshakeFrame, TakeFrame, Refused, readHandshake
    <3> HIDE DEF payload
    <3>3. Tail(payload) \in Seq(NotOurs)
      BY <3>1, <3>2
    <3>4. Len(Handshake(encryptionKey, 2)) = 1
      BY DEF Handshake
    <3>5. Handshake(encryptionKey, 2)[1] \in NotOurs
      BY <3>2, <3>3, <3>4
    <3> QED BY <3>5 DEF NotOurs
  <2>9. CASE MessageFrame
    BY <2>1, <2>9 DEF MessageFrame
  <2>10. CASE NodeHello \/ NodeHandshake \/ NodePretends
    <3>1. toService' \in Seq(NotOurs) /\ toNode' \in Seq(Unsealed)
      BY <1>2, <2>10, NodeStep
    <3> QED BY <2>1, <2>10, <2>same, <3>1 DEF NodeHello, NodeHandshake, NodePretends, keys, service, KeyInv
  <2>11. CASE NodeReceives
    <3> DEFINE plaintext == decrypt(framePayload(toNode), nodeNonce.recv)
    <3>1. framePayload(toNode) \in Seq(Unsealed) /\ toNode' \in Seq(Unsealed)
      BY <2>1, <2>2, <2>11, FrameParts DEF NodeReceives, NodeTakes
    <3>2. plaintext = <<>>
      BY <2>1, <2>2, <3>1, NotDecrypted
    <3>3. Processed(plaintext) = <<>>
      BY <3>2 DEF Processed
    <3>4. gotUp' = <<>>
      BY <2>1, <2>11, <3>3 DEF NodeReceives
    <3>5. nodeNonce' \in [send : Nat, recv : Nat]
      BY <2>1, <2>11 DEF NodeReceives
    <3> QED BY <2>1, <2>11, <2>same, <3>1, <3>4, <3>5 DEF NodeReceives, keys, service, KeyInv
  <2>12. CASE \E m \in DownMessage : NodeSends(m)
    <3>1. PICK m \in DownMessage : NodeSends(m)
      BY <2>12
    <3> DEFINE sealed == encrypt(inner(m), nodeNonce.send)
    <3>2. inner(m) \in Seq(NotOurs)
      <4>1. inner(m) \in Seq(Byte)
        BY InnerBytes
      <4> QED BY <2>2, <4>1, WiderAlphabet
    <3>3. sealed \in Seq(NotOurs)
      <4>1. Base + 3 * nodeNonce.send \in NotOurs
        BY <2>1, <2>2 DEF Mac
      <4> QED BY <3>2, <4>1, EncryptedIn
    <3>4. Framed(sealed) \in Seq(NotOurs)
      BY <2>2, <3>3, FramedIn
    <3>5. toService' \in Seq(NotOurs)
      <4>1. toService' = toService \o Framed(sealed)
        BY <3>1 DEF NodeSends
      <4> HIDE DEF sealed
      <4> QED BY <2>1, <3>4, <4>1
    <3>6. nodeNonce' \in [send : Nat, recv : Nat]
      <4>1. nodeNonce' = [nodeNonce EXCEPT !.send = @ + 1]
        BY <3>1 DEF NodeSends
      <4> QED BY <2>1, <4>1
    <3> QED BY <2>1, <2>same, <3>1, <3>5, <3>6 DEF NodeSends, keys, service, KeyInv
  <2> QED BY <2>3, <2>4, <2>5, <2>6, <2>7, <2>8, <2>9, <2>10, <2>11, <2>12 DEF Next, Reads, NodeReads
<1> QED BY <1>1, <1>2

\* No message is processed at either end unless both hold the same key, for all
\* keys, messages and chunks, and although the node may go on as if they were equal.
THEOREM KeysAreEqual == Spec => []SameKeyOnly
<1>1. Init => KeyInv
  BY InitKeys
<1>2. KeyInv /\ [Next]_vars => KeyInv'
  BY StepKeys
<1>3. KeyInv => SameKeyOnly
  BY DEF KeyInv, SameKeyOnly
<1> QED BY <1>1, <1>2, <1>3, PTL DEF Spec
=============================================================================
