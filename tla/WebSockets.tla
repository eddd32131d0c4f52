----------------------------- MODULE WebSockets -----------------------------
(***************************************************************************)
(* The WebSocket transport (interface/wsServer.ts): the shim that turns    *)
(* the bytes of an upgraded socket into the messages the connection        *)
(* handler reads, and what the handler writes into frames.                 *)
(*                                                                         *)
(* The peer sends whole, well-formed frames; TCP hands their bytes over in *)
(* chunks of any size.  The first two bytes of a frame are records of      *)
(* their fields, every other byte is a number.                             *)
(***************************************************************************)
EXTENDS Integers, Sequences, SequencesExt, Bitwise

CONSTANTS
  Frames,       \* the frames a peer may send: records of PeerFrame
  MaxFrames,    \* bound: frames sent
  Radix,        \* 256: the values of a byte of a length
  Small,        \* 126: lengths below it fit the second byte
  Medium,       \* 65536: lengths below it take two bytes
  MaxMessage,   \* MAX_MESSAGE_BYTES
  Refused,      \* messages at which the handler destroys the socket
  Texts,        \* what the handler may write, as sequences of bytes
  MaxTexts      \* bound: texts written

ASSUME WebSocketsAssumption ==
  /\ Small \in Nat /\ Medium \in Nat /\ Small <= Medium
  /\ Radix \in Nat \ {0} /\ Medium = Radix * Radix
  /\ MaxMessage \in Nat /\ MaxFrames \in Nat /\ MaxTexts \in Nat

VARIABLES
  sent,        \* history: the frames the peer sent
  transit,     \* bytes on their way
  shim,        \* the shim's fields, and what it emitted and answered
  written,     \* history: texts written while the socket was open
  down         \* the frames written to the peer, as bytes

wsVars == <<sent, transit, shim, written, down>>

\* Opcodes by name; "other" stands for the reserved ones.
DataOps == {"continuation", "text", "binary"}
Opcodes == DataOps \cup {"close", "ping", "pong", "other"}

----------------------------------------------------------------------------
(* The wire format (RFC 6455), as the peer writes and reads it.            *)

\* n as big-endian bytes.
BigEndian(n, width) ==
  [i \in 1..width |-> IF width - i > 3 THEN 0 ELSE (n \div (Radix^(width - i))) % Radix]

\* The bytes of one frame of the peer.
PeerBytes(f) ==
  LET n == Len(f.payload) IN
    <<[fin |-> f.fin, opcode |-> f.opcode],
      [masked |-> f.mask # <<>>, len |-> IF n < Small THEN n ELSE IF n < Medium THEN Small ELSE Small + 1]>>
    \o (IF n < Small THEN <<>> ELSE BigEndian(n, IF n < Medium THEN 2 ELSE 8))
    \o f.mask
    \o [i \in 1..n |-> IF f.mask = <<>> THEN f.payload[i]
                                        ELSE f.payload[i] ^^ f.mask[((i - 1) % 4) + 1]]

\* Mutant: the limit of the two-byte form is one too high.
EncodeTextFrame_OffByOne(text) ==
  LET n == Len(text) IN
    <<[fin |-> TRUE, opcode |-> "text"],
      [masked |-> FALSE, len |-> IF n < Small THEN n ELSE IF n <= Medium THEN Small ELSE Small + 1]>>
    \o (IF n < Small THEN <<>> ELSE
        IF n <= Medium THEN <<(n \div Radix) % Radix, n % Radix>> ELSE BigEndian(n, 8))
    \o text

\* encodeTextFrame.
EncodeTextFrame(text) ==
  LET n == Len(text) IN
    <<[fin |-> TRUE, opcode |-> "text"],
      [masked |-> FALSE, len |-> IF n < Small THEN n ELSE IF n < Medium THEN Small ELSE Small + 1]>>
    \o (IF n < Small THEN <<>> ELSE
        IF n < Medium THEN <<(n \div Radix) % Radix, n % Radix>> ELSE BigEndian(n, 8))
    \o text

----------------------------------------------------------------------------
(* The shim.                                                               *)

NewShim ==
  [buf |-> <<>>, frags |-> <<>>, destroyed |-> FALSE, left |-> FALSE,
   messages |-> <<>>, pongs |-> 0]

\* Bytes of the extended length.
Extended(b1) == CASE b1.len = Small -> 2 [] b1.len = Small + 1 -> 8 [] OTHER -> 0

\* readUInt16BE, readBigUInt64BE: the lengths the instances use fit four bytes.
Length(buf) ==
  LET x == Extended(buf[2])
      at(i) == buf[2 + i]
  IN CASE x = 0 -> buf[2].len
       [] x = 2 -> at(1) * Radix + at(2)
       [] x = 8 -> ((at(5) * Radix + at(6)) * Radix + at(7)) * Radix + at(8)

\* Where the payload of the first frame in buf starts.
Offset(buf) == 2 + Extended(buf[2]) + (IF buf[2].masked THEN 4 ELSE 0)

\* The early returns of onBytes: two bytes, the header, the payload.
Complete(buf) ==
  /\ Len(buf) >= 2
  /\ Len(buf) >= Offset(buf)
  /\ Len(buf) >= Offset(buf) + Length(buf)

\* The payload of the first frame, unmasked.
Payload(buf) ==
  LET o == Offset(buf)
      n == Length(buf)
  IN [i \in 1..n |-> IF buf[2].masked THEN buf[o + i] ^^ buf[o - 4 + ((i - 1) % 4) + 1]
                                      ELSE buf[o + i]]

\* destroy(), after which onBytes returns: the rest of the buffer is never parsed.
Leave(s) == [s EXCEPT !.destroyed = TRUE, !.left = TRUE]

\* emit('data'): the handler reads the message, and may destroy the socket meanwhile.
Emit(s, message) ==
  [s EXCEPT !.messages = Append(@, message), !.destroyed = @ \/ message \in Refused]

\* Mutant: the fragments of a message are not cleared once it is emitted.
Collect_KeepsFragments(s, fin, payload) ==
  LET frags == Append(s.frags, payload) IN
    IF Len(FlattenSeq(frags)) > MaxMessage THEN Leave([s EXCEPT !.frags = frags])
    ELSE IF fin THEN Emit([s EXCEPT !.frags = frags], FlattenSeq(frags))
    ELSE [s EXCEPT !.frags = frags]

\* A frame of data: collected, and emitted with the last one of its message.
Collect(s, fin, payload) ==
  LET frags == Append(s.frags, payload) IN
    IF Len(FlattenSeq(frags)) > MaxMessage THEN Leave([s EXCEPT !.frags = frags])
    ELSE IF fin THEN Emit([s EXCEPT !.frags = <<>>], FlattenSeq(frags))
    ELSE [s EXCEPT !.frags = frags]

\* The switch on the opcode, for the first frame in buf; a pong written to a destroyed
\* socket goes nowhere.
Dispatch(s) ==
  LET rest == [s EXCEPT !.buf = SubSeq(s.buf, Offset(s.buf) + Length(s.buf) + 1, Len(s.buf))]
      op == s.buf[1].opcode
  IN CASE op = "ping" -> [rest EXCEPT !.pongs = IF s.destroyed THEN @ ELSE @ + 1]
       [] op = "pong" -> rest
       [] op \in DataOps -> Collect(rest, s.buf[1].fin, Payload(s.buf))
       [] OTHER -> Leave(rest)

\* onBytes: as many complete frames as the buffer holds.  The loop does not ask whether
\* the handler has destroyed the socket: it parses the chunk to its end.
RECURSIVE OnBytes(_)
OnBytes(s) ==
  IF ~s.left /\ Complete(s.buf) THEN OnBytes(Dispatch(s)) ELSE s

----------------------------------------------------------------------------
WsInit ==
  /\ sent = <<>> /\ transit = <<>>
  /\ shim = NewShim
  /\ written = <<>> /\ down = <<>>

\* The peer sends a frame.
PeerSends(f) ==
  /\ Len(sent) < MaxFrames
  /\ sent' = Append(sent, f)
  /\ transit' = transit \o PeerBytes(f)
  /\ UNCHANGED <<shim, written, down>>

\* TCP hands over the next n bytes; after destroy() there is no more data.
Data(n) ==
  /\ ~shim.destroyed
  /\ shim' = OnBytes([shim EXCEPT !.buf = @ \o SubSeq(transit, 1, n)])
  /\ transit' = SubSeq(transit, n + 1, Len(transit))
  /\ UNCHANGED <<sent, written, down>>

\* The connection handler writes.
Write(text) ==
  /\ ~shim.destroyed
  /\ Len(written) < MaxTexts
  /\ written' = Append(written, text)
  /\ down' = Append(down, EncodeTextFrame(text))
  /\ UNCHANGED <<sent, transit, shim>>

\* The hub destroys the socket between two chunks: it fell behind, or was revoked.
Destroy ==
  /\ ~shim.destroyed
  /\ shim' = [shim EXCEPT !.destroyed = TRUE]
  /\ UNCHANGED <<sent, transit, written, down>>

WsNext ==
  \/ \E f \in Frames : PeerSends(f)
  \/ \E n \in 1..Len(transit) : Data(n)
  \/ \E text \in Texts : Write(text)
  \/ Destroy

WsSpec == WsInit /\ [][WsNext]_wsVars

----------------------------------------------------------------------------
(* The reference: what frames mean, without bytes, chunks or buffers.      *)

\* The frames whose bytes have all arrived.
Arrived ==
  LET missing(k) == Len(FlattenSeq([i \in 1..Len(sent) - k |-> PeerBytes(sent[k + i])]))
      k == CHOOSE k \in 0..Len(sent) :
             /\ missing(k) >= Len(transit)
             /\ \A j \in k + 1..Len(sent) : missing(j) < Len(transit)
  IN SubSeq(sent, 1, k)

\* The messages of a sequence of frames: each frame of data with `fin' ends one, made of
\* the payloads since the one before.
MessagesOf(frames) ==
  LET data == SelectSeq(frames, LAMBDA f : f.opcode \in DataOps)
      ends == SelectSeq([i \in 1..Len(data) |-> i], LAMBDA i : data[i].fin)
      first(m) == IF m = 1 THEN 1 ELSE ends[m - 1] + 1
  IN [m \in 1..Len(ends) |->
        FlattenSeq([i \in 1..ends[m] - first(m) + 1 |-> data[first(m) + i - 1].payload])]

\* The bytes of the message that frame i belongs to, up to that frame.
SoFar(frames, i) ==
  LET same == {j \in 1..i : \A k \in j..i - 1 : ~(frames[k].opcode \in DataOps /\ frames[k].fin)}
      lens == [j \in 1..i |-> IF j \in same /\ frames[j].opcode \in DataOps
                                THEN Len(frames[j].payload) ELSE 0]
  IN FoldSeq(+, 0, lens)

\* The frames before the first one that ends the connection.
Heeded(frames) ==
  LET fatal == {i \in 1..Len(frames) :
                  \/ frames[i].opcode \in {"close", "other"}
                  \/ frames[i].opcode \in DataOps /\ SoFar(frames, i) > MaxMessage}
  IN IF fatal = {} THEN frames ELSE SubSeq(frames, 1, (CHOOSE i \in fatal : \A j \in fatal : i <= j) - 1)

\* The frames up to the first one that completes a message the handler refuses.
Served(frames) ==
  LET refusing == {k \in 1..Len(frames) :
                     \E i \in DOMAIN MessagesOf(SubSeq(frames, 1, k)) :
                       MessagesOf(SubSeq(frames, 1, k))[i] \in Refused}
  IN IF refusing = {} THEN frames ELSE SubSeq(frames, 1, Min(refusing))

\* The text a peer reads from a frame, and where it looks for the next frame.
TextOf(bytes) ==
  LET o == 2 + Extended(bytes[2])
  IN [text |-> SubSeq(bytes, o + 1, o + Length(bytes)), next |-> o + Length(bytes) + 1]

----------------------------------------------------------------------------
(* Properties.                                                             *)

\* However TCP cuts the stream, and whatever control frames come between fragments, the
\* handler gets exactly the messages of the frames that have arrived, in order and intact,
\* and every ping before the socket was destroyed was answered; a close, a reserved opcode
\* or a message over the cap ends it, at the same frame every time.  What is left of a
\* chunk in which the handler destroyed the socket is still handed to it.
Reassembled ==
  LET heeded == Heeded(Arrived)
      served == Served(heeded)
  IN /\ shim.messages = MessagesOf(heeded)
     /\ shim.pongs = Len(SelectSeq(served, LAMBDA f : f.opcode = "ping"))
     /\ shim.left = (heeded # Arrived)
     /\ (shim.left \/ served # heeded) => shim.destroyed

\* What the handler writes, the peer reads, at every length: below, at and above the
\* limits of the three forms of a frame's length.  The frame ends where the peer looks for
\* the next one, so frames written one after the other are told apart.
PeerReads ==
  /\ Len(down) = Len(written)
  /\ \A i \in DOMAIN down : TextOf(down[i]) = [text |-> written[i], next |-> Len(down[i]) + 1]

=============================================================================
