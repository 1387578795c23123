--------------------------- MODULE GosterChannel ---------------------------
(***************************************************************************)
(* The encrypted channel of a custom TCP connection: the frames under way  *)
(* between a device and the goroutine that serves its connection, the keys *)
(* both ends hold, and the nonces they use (gosterwy/codec.go and the loop *)
(* of customtcp/adapter.go).  A key is a number, fresh for every exchange  *)
(* because the server's half of it is; 0 is no key.  The device follows    *)
(* chapter 6 of API_SPECIFICATION.md; it waits for the answers to its      *)
(* handshake and its token, and for no other before its next frame.        *)
(***************************************************************************)
EXTENDS Naturals, Sequences, FiniteSets

CONSTANTS
  Conn,
  MaxFrame   \* bound of the frames a device sends in one connection

ASSUME FrameAssumption == MaxFrame \in Nat

VARIABLE link   \* connection -> both ends and the frames under way

\* nonceDirection: the half of the nonces a frame takes its own from
nonceDirection(cmd, isAck) ==
  CASE cmd \in {"HandshakeInit", "AuthVerify", "KeyExchangeUplink"}     -> 1
    [] cmd \in {"HandshakeResp", "AuthAck", "KeyExchangeDownlink"}      -> 2
    [] cmd \in {"MetricsReport", "ErrorReport"} -> IF isAck THEN 2 ELSE 1
    [] cmd = "ActionExec"                       -> IF isAck THEN 1 ELSE 2

Closed ==
  [open |-> FALSE,
   serverKey |-> 0, writeSeq |-> 0, authenticated |-> FALSE, inflight |-> FALSE,
   deviceKey |-> 0, deviceSeq |-> 0, admitted |-> FALSE, owed |-> FALSE,
   asked |-> FALSE,   \* the device waits for the answer to a key exchange
   lastKey |-> 0,
   up |-> <<>>, down |-> <<>>,
   sent |-> {}]       \* key and nonce of every encrypted frame, and whose it was

ChannelInit == link = [c \in Conn |-> Closed]

Open(c)  == link' = [link EXCEPT ![c] = [Closed EXCEPT !.open = TRUE]]
Close(c) == link' = [link EXCEPT ![c] = Closed]

\* Pack: a frame is encrypted when there is a key.
Pack(cmd, isAck, key, seq, offer, crossing) ==
  [cmd |-> cmd, ack |-> isAck, key |-> key, seq |-> seq, offer |-> offer, crossing |-> crossing]

Used(who, frames, before) ==
  {[from |-> who, nth |-> before + i, key |-> frames[i].key, seq |-> frames[i].seq,
    dir |-> nonceDirection(frames[i].cmd, frames[i].ack)] :
      i \in {j \in DOMAIN frames : frames[j].key # 0}}

\* Unpack: a frame without encryption is taken whatever the key is.
Readable(f, key) == f.key \in {0, key}

-----------------------------------------------------------------------------
\* The device

Exchanges == {"HandshakeInit", "KeyExchangeUplink"}

Send(c, cmd, isAck) ==
  LET l == link[c]
      f == Pack(cmd, isAck, l.deviceKey, l.deviceSeq + 1, 0, l.asked) IN
  /\ l.open /\ l.deviceSeq < MaxFrame
  /\ link' = [link EXCEPT ![c] =
       [l EXCEPT !.deviceSeq = @ + 1,
                 !.asked = @ \/ cmd \in Exchanges,
                 !.owed = @ /\ ~isAck,
                 !.up = Append(@, f),
                 !.sent = @ \cup Used("device", <<f>>, l.deviceSeq)]]

Handshake(c)   == ~link[c].asked /\ link[c].deviceKey = 0 /\ Send(c, "HandshakeInit", FALSE)
Verify(c)      == link[c].deviceKey # 0 /\ ~link[c].admitted /\ Send(c, "AuthVerify", FALSE)
Report(c)      == link[c].admitted /\ Send(c, "MetricsReport", FALSE)
Rekey(c)       == link[c].admitted /\ ~link[c].asked /\ Send(c, "KeyExchangeUplink", FALSE)
Confirm(c)     == link[c].owed /\ Send(c, "ActionExec", TRUE)
ReportError(c) == link[c].admitted /\ Send(c, "ErrorReport", FALSE)

\* The device reads the next frame with the key it holds at that time.
DeviceReads(c) ==
  LET l == link[c]  f == Head(l.down) IN
  /\ l.open /\ l.down # <<>> /\ Readable(f, l.deviceKey)
  /\ link' = [link EXCEPT ![c] =
       [l EXCEPT !.down = Tail(@),
                 !.deviceKey = IF f.offer # 0 THEN f.offer ELSE @,
                 !.asked = @ /\ f.offer = 0,
                 !.admitted = @ \/ f.cmd = "AuthAck",
                 !.owed = @ \/ f.cmd = "ActionExec"]]

Device(c) ==
  Handshake(c) \/ Verify(c) \/ Report(c) \/ Rekey(c) \/ Confirm(c) \/ ReportError(c) \/ DeviceReads(c)

-----------------------------------------------------------------------------
\* The goroutine that serves the connection

\* What an unauthenticated session may send; a registration, which is answered
\* like a token, is left out.
Allowed(l, f) == l.authenticated \/ f.cmd \in {"HandshakeInit", "AuthVerify"}

\* Faulty variant: the answer to a key exchange is packed with the new key.
BugAnswerWithNewKey(l, f) ==
  IF f.cmd = "HandshakeInit" THEN 0
  ELSE IF f.cmd = "KeyExchangeUplink" THEN l.lastKey + 1 ELSE l.serverKey

\* The key the answer to f is packed with: a handshake is answered without one,
\* a key exchange with the old one.
AnswerKey(l, f) == IF f.cmd = "HandshakeInit" THEN 0 ELSE l.serverKey

KeyAfter(l, f) == IF f.cmd \in Exchanges THEN l.lastKey + 1 ELSE l.serverKey

Answer(l, f) ==
  LET reply(cmd) == <<Pack(cmd, TRUE, AnswerKey(l, f), l.writeSeq + 1,
                           IF f.cmd \in Exchanges THEN l.lastKey + 1 ELSE 0, FALSE)>> IN
  CASE f.cmd = "HandshakeInit"     -> reply("HandshakeResp")
    [] f.cmd = "AuthVerify"        -> reply("AuthAck")
    [] f.cmd = "MetricsReport"     -> reply("MetricsReport")
    [] f.cmd = "KeyExchangeUplink" -> reply("KeyExchangeDownlink")
    [] OTHER                       -> <<>>

\* One turn of handleConnection: a frame is read, handled and answered, and an
\* authenticated session then sends the next command if there is one and the
\* last one was confirmed.  The connection ends with a frame that cannot be
\* read or is not allowed, a token that is not accepted, and an error report.
ServeFrame(c, accepted, command) ==
  LET l == link[c]
      f == Head(l.up)
      inflight == l.inflight /\ f.cmd # "ActionExec"
      authenticated == l.authenticated \/ (f.cmd = "AuthVerify" /\ accepted)
      pops == command /\ authenticated /\ ~inflight
      answer == Answer(l, f)
      frames == answer \o (IF pops THEN <<Pack("ActionExec", FALSE, KeyAfter(l, f),
                                              l.writeSeq + Len(answer) + 1, 0, FALSE)>>
                                   ELSE <<>>)
      count == Cardinality({t \in l.sent : t.from = "server"}) IN
  /\ l.open /\ l.up # <<>>
  /\ IF \/ ~Readable(f, l.serverKey) \/ ~Allowed(l, f)
        \/ f.cmd = "AuthVerify" /\ ~accepted
        \/ f.cmd = "ErrorReport"
     THEN Close(c)
     ELSE link' = [link EXCEPT ![c] =
            [l EXCEPT !.up = Tail(@),
                      !.serverKey = KeyAfter(l, f),
                      !.lastKey = IF f.cmd \in Exchanges THEN @ + 1 ELSE @,
                      !.writeSeq = @ + Len(frames),
                      !.authenticated = authenticated,
                      !.inflight = inflight \/ pops,
                      !.down = @ \o frames,
                      !.sent = @ \cup Used("server", frames, count)]]

-----------------------------------------------------------------------------
\* The key the device will hold when it comes to the i-th frame under way
HeldAt(l, i) ==
  LET offers == {j \in 1..(i-1) : l.down[j].offer # 0} IN
  IF offers = {} THEN l.deviceKey
  ELSE l.down[CHOOSE j \in offers : \A k \in offers : k <= j].offer

\* Every frame can be read when its turn comes, however the two ends' frames
\* cross and keys change, except one the device sent while it waited for the
\* answer to a key exchange (adapter.go:313-325 switches right after it).
ReadableInTurn ==
  \A c \in Conn : LET l == link[c] IN
    /\ \A i \in DOMAIN l.down : Readable(l.down[i], HeldAt(l, i))
    /\ \A i \in DOMAIN l.up : l.up[i].crossing \/ Readable(l.up[i], l.serverKey)

\* API_SPECIFICATION.md:95: under one key no nonce is used twice, although both
\* ends count on their own from 1 (codec.go:73-99).
NoncesUnique ==
  \A c \in Conn : \A s, t \in link[c].sent :
    s # t => <<s.key, s.dir, s.seq>> # <<t.key, t.dir, t.seq>>

FramesInStep == ReadableInTurn /\ NoncesUnique
=============================================================================
