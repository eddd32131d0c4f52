------------------------------ MODULE MCRules -------------------------------
(* Small instances of the parts that share no state with the others: the   *)
(* hook-margin rule, the WebSocket transport and the QR encoder.  A        *)
(* behaviour uses one of them.  Two ticks to the second for the margin.    *)
(* The limits 126 and 65536 of the transport become 2 and 4, and a byte of *)
(* a length takes 2 values instead of 256: as in the code, 4 = 2 * 2 is    *)
(* the first length that two bytes do not hold, and payloads of 1, 2, 3, 4 *)
(* and 5 bytes stand on both sides of both limits.                         *)
EXTENDS HookMargin, WebSockets, Qr

Mask == <<1, 2, 4, 7>>

PeerFrame(opcode, fin, mask, payload) ==
  [opcode |-> opcode, fin |-> fin, mask |-> mask, payload |-> payload]

\* Whole and fragmented messages of every length form, and control frames.
MixedFrames ==
  {PeerFrame("text", TRUE, Mask, <<3>>), PeerFrame("text", FALSE, Mask, <<5, 6>>),
   PeerFrame("continuation", FALSE, <<>>, <<>>), PeerFrame("continuation", TRUE, Mask, <<1, 2, 3, 4, 5>>),
   PeerFrame("ping", TRUE, Mask, <<9>>), PeerFrame("pong", TRUE, <<>>, <<>>),
   PeerFrame("close", TRUE, Mask, <<>>), PeerFrame("other", TRUE, Mask, <<>>)}

ShortTexts == {<<>>, <<1>>, <<1, 2>>, <<1, 2, 3>>, <<1, 2, 3, 4>>, <<1, 2, 3, 4, 5>>}

\* A message of two fragments at which the handler gives up.
BadMessages == {<<5, 6, 1, 2, 3, 4, 5>>}

\* Payloads that fill each of the fifteen versions, some that are one byte too long for
\* theirs, and one that no version holds.
FullPayloads ==
  {[i \in 1..n |-> (37 * i + 11 * n) % 256] :
     n \in {0, 14, 15, 26, 42, 62, 84, 106, 122, 123, 152, 180, 181, 213, 251, 287, 331, 362, 412, 413}}

NoSettings == settings = [readable |-> FALSE, hooks |-> {}] /\ edits = 0

RulesInit == Init /\ WsInit /\ QrInit

RulesSpec ==
  /\ RulesInit
  /\ [][\/ sent = <<>> /\ written = <<>> /\ qrStage = "none"
           /\ Next /\ UNCHANGED <<wsVars, qrVars>>
        \/ NoSettings /\ qrStage = "none" /\ WsNext /\ UNCHANGED <<vars, qrVars>>
        \/ NoSettings /\ sent = <<>> /\ written = <<>> /\ QrNext /\ UNCHANGED <<vars, wsVars>>
       ]_<<vars, wsVars, qrVars>>
=============================================================================
