------------------------ MODULE ControllerBridgeProofs ------------------------
(***************************************************************************)
(* Proofs about ControllerBridge, for any number of connections and ICU    *)
(* clients, any buffer size, any lengths of fragments and any bounds: its  *)
(* type, what a frame is made of, what a session is computed from, and on  *)
(* the ICU-facing side what the writes to a client can be, and that it is  *)
(* a relay of the latest frame.                                            *)
(***************************************************************************)
EXTENDS ControllerBridge, SequenceTheorems, TLAPS

-----------------------------------------------------------------------------
(* Type correctness. *)

LEMMA InitType == Init => TypeOK
  <1> SUFFICES ASSUME Init PROVE TypeOK
    OBVIOUS
  <1>1. /\ 0 \in 0..MaxMessages
        /\ 0 \in 0..MaxFrameLen
    BY BoundsAssumption
  <1>2. /\ <<>> \in Seq(Fragment)
        /\ <<>> \in Seq(Nat)
    OBVIOUS
  <1>3. /\ sent \in 0..MaxMessages
        /\ motorFed \subseteq 0..MaxMessages
        /\ clockFed \subseteq 0..MaxMessages
    BY <1>1 DEF Init, WarmUp
  <1>4. /\ wire \in [Conn -> {NoMessage} \cup
                      [msg : 1..MaxMessages, count : 1..MaxFragments - 1, bytes : Nat]]
        /\ buf \in [Conn -> Seq(Fragment)]
        /\ len \in [Conn -> 0..MaxFrameLen]
        /\ since \in [Conn -> 0..MaxMessages]
    BY <1>1, <1>2 DEF Init
  <1>5. /\ payload \in [no : Nat, frame : Seq(Fragment)]
        /\ icu \in [ICU -> {"down", "idle", "pending"}]
        /\ joined \in [ICU -> Nat]
        /\ inbox \in [ICU -> Seq(Nat)]
    BY <1>2 DEF Init
  <1> QED
    BY <1>3, <1>4, <1>5 DEF Init, TypeOK

\* The names ControllerReceive gives to what arrives on c.
First(c) == wire[c] = NoMessage
Msg(c) == IF First(c) THEN sent + 1 ELSE wire[c].msg
Held(c) == IF First(c) THEN <<>> ELSE buf[c]
Total(c, n) == IF First(c) THEN n ELSE len[c] + n
Arrived(c, n, final) == [msg |-> Msg(c), no |-> wire[c].count + 1, at |-> wire[c].bytes,
                         size |-> n, final |-> final]
Filled(c, n, final) == Append(Held(c), Arrived(c, n, final))

InMessage == [msg : 1..MaxMessages, count : 1..MaxFragments - 1, bytes : Nat]

LEMMA ReceiveCases ==
  ASSUME NEW c \in Conn, NEW n \in FragmentLen, NEW final \in BOOLEAN,
         ControllerReceive(c, n, final)
  PROVE  /\ c \in open
         /\ First(c) => sent < MaxMessages
         /\ wire[c].count + 1 = MaxFragments => final
         /\ sent' = IF First(c) THEN Msg(c) ELSE sent
         /\ wire' = [wire EXCEPT ![c] =
                        IF final THEN NoMessage
                        ELSE [msg |-> Msg(c), count |-> wire[c].count + 1,
                              bytes |-> wire[c].bytes + n]]
         /\ \/ /\ Overflows(Total(c, n))
               /\ Discard(c)
               /\ UNCHANGED <<motorFed, clockFed, payload, payloadLen, icu>>
            \/ /\ ~Overflows(Total(c, n))
               /\ ~final
               /\ Hold(c, Filled(c, n, final), Total(c, n))
               /\ UNCHANGED <<motorFed, clockFed, payload, payloadLen, icu>>
            \/ /\ ~Overflows(Total(c, n))
               /\ final
               /\ Forward(Msg(c), Filled(c, n, final), Total(c, n))
               /\ Discard(c)
         /\ UNCHANGED <<open, since, alone, protocol, joined, inbox>>
  BY DEF ControllerReceive, First, Msg, Held, Total, Arrived, Filled

\* A fragment that arrives is one of its message, and the message stays in its bounds.
LEMMA FragmentArrives ==
  ASSUME TypeOK, NEW c \in Conn, NEW n \in FragmentLen, NEW final \in BOOLEAN,
         ControllerReceive(c, n, final)
  PROVE  /\ n \in Nat
         /\ wire[c].bytes \in Nat
         /\ Msg(c) \in 1..MaxMessages
         /\ Arrived(c, n, final) \in Fragment
         /\ Held(c) \in Seq(Fragment)
         /\ Filled(c, n, final) \in Seq(Fragment)
         /\ Total(c, n) \in Nat
         /\ wire' \in [Conn -> {NoMessage} \cup InMessage]
         /\ sent' \in 0..MaxMessages
  <1>1. n \in Nat
    BY BoundsAssumption
  <1>2. wire[c] = NoMessage \/ wire[c] \in InMessage
    BY DEF TypeOK, InMessage
  <1>3. Msg(c) \in 1..MaxMessages
    BY <1>2, ReceiveCases, BoundsAssumption DEF TypeOK, First, Msg, InMessage
  <1>4. wire[c].count + 1 \in 1..MaxFragments
    BY <1>2, BoundsAssumption DEF NoMessage, InMessage
  <1>5. wire[c].bytes \in Nat
    BY <1>2 DEF NoMessage, InMessage
  <1>6. Arrived(c, n, final) \in Fragment
    BY <1>3, <1>4, <1>5 DEF Fragment, Arrived
  <1>7. Held(c) \in Seq(Fragment)
    BY DEF TypeOK, Held
  <1>8. Filled(c, n, final) \in Seq(Fragment)
    BY <1>6, <1>7 DEF Filled
  <1>9. Total(c, n) \in Nat
    BY <1>1 DEF TypeOK, Total
  <1>10. ~final => [msg |-> Msg(c), count |-> wire[c].count + 1,
                    bytes |-> wire[c].bytes + n] \in InMessage
    BY <1>1, <1>3, <1>4, <1>5, ReceiveCases, BoundsAssumption DEF InMessage
  <1>11. wire' \in [Conn -> {NoMessage} \cup InMessage]
    <2>1. wire' = [wire EXCEPT ![c] =
                      IF final THEN NoMessage
                      ELSE [msg |-> Msg(c), count |-> wire[c].count + 1,
                            bytes |-> wire[c].bytes + n]]
      BY ReceiveCases
    <2>2. wire \in [Conn -> {NoMessage} \cup InMessage]
      BY DEF TypeOK, InMessage
    <2> QED
      BY <1>10, <2>1, <2>2
  <1>12. sent' \in 0..MaxMessages
    <2>1. sent' = IF First(c) THEN Msg(c) ELSE sent
      BY ReceiveCases
    <2> QED
      BY <1>3, <2>1, BoundsAssumption DEF TypeOK
  <1> QED
    BY <1>1, <1>3, <1>5, <1>6, <1>7, <1>8, <1>9, <1>11, <1>12

LEMMA ForwardType ==
  ASSUME TypeOK, NEW m \in 1..MaxMessages, NEW frame \in Seq(Fragment), NEW bytes \in Nat,
         Forward(m, frame, bytes)
  PROVE  /\ motorFed' \subseteq 0..MaxMessages
         /\ clockFed' \subseteq 0..MaxMessages
         /\ payload' \in [no : Nat, frame : Seq(Fragment)]
         /\ payloadLen' \in {0, 1}
         /\ icu' \in [ICU -> {"down", "idle", "pending"}]
  <1>1. CallbackOnWritable => icu' \in [ICU -> {"down", "idle", "pending"}]
    BY DEF CallbackOnWritable, TypeOK
  <1>2. m \in 0..MaxMessages
    BY BoundsAssumption
  <1>3. CASE bytes = 0
    <2>1. /\ payloadLen' = 0
          /\ clockFed' = clockFed \cup {m}
          /\ CallbackOnWritable
          /\ UNCHANGED <<motorFed, payload>>
      BY <1>3 DEF Forward
    <2> QED
      BY <1>1, <1>2, <2>1 DEF TypeOK
  <1>4. CASE bytes > 0
    <2>1. motorFed' \in {motorFed, motorFed \cup {m}}
      BY <1>4 DEF Forward
    <2>2. motorFed' \subseteq 0..MaxMessages
      BY <1>2, <2>1 DEF TypeOK
    <2>3. CASE /\ payload' = [no |-> payload.no + 1, frame |-> frame]
               /\ payloadLen' = 1
               /\ clockFed' = clockFed \cup {m}
               /\ CallbackOnWritable
      <3>1. payload' \in [no : Nat, frame : Seq(Fragment)]
        BY <2>3 DEF TypeOK
      <3> QED
        BY <1>1, <1>2, <2>2, <2>3, <3>1 DEF TypeOK
    <2>4. CASE UNCHANGED <<payload, payloadLen, clockFed, icu>>
      BY <2>2, <2>4 DEF TypeOK
    <2> QED
      BY <1>4, <2>3, <2>4 DEF Forward
  <1> QED
    BY <1>3, <1>4

LEMMA ReceiveType ==
  ASSUME TypeOK, NEW c \in Conn, NEW n \in FragmentLen, NEW final \in BOOLEAN,
         ControllerReceive(c, n, final)
  PROVE  TypeOK'
  <1>1. /\ Msg(c) \in 1..MaxMessages
        /\ Filled(c, n, final) \in Seq(Fragment)
        /\ Total(c, n) \in Nat
        /\ wire' \in [Conn -> {NoMessage} \cup InMessage]
        /\ sent' \in 0..MaxMessages
    BY FragmentArrives
  <1>2. ~Overflows(Total(c, n)) => Total(c, n) \in 0..MaxFrameLen
    BY <1>1, BoundsAssumption DEF Overflows
  <1>3. /\ buf' \in [Conn -> Seq(Fragment)]
        /\ len' \in [Conn -> 0..MaxFrameLen]
    <2>1. 0 \in 0..MaxFrameLen /\ <<>> \in Seq(Fragment)
      BY BoundsAssumption
    <2>2. CASE Discard(c)
      BY <2>1, <2>2 DEF TypeOK, Discard, Hold
    <2>3. CASE ~Overflows(Total(c, n)) /\ Hold(c, Filled(c, n, final), Total(c, n))
      BY <1>1, <1>2, <2>3 DEF TypeOK, Hold
    <2> QED
      BY <2>2, <2>3, ReceiveCases
  <1>4. /\ motorFed' \subseteq 0..MaxMessages
        /\ clockFed' \subseteq 0..MaxMessages
        /\ payload' \in [no : Nat, frame : Seq(Fragment)]
        /\ payloadLen' \in {0, 1}
        /\ icu' \in [ICU -> {"down", "idle", "pending"}]
    <2>1. CASE Forward(Msg(c), Filled(c, n, final), Total(c, n))
      BY <1>1, <2>1, ForwardType
    <2>2. CASE UNCHANGED <<motorFed, clockFed, payload, payloadLen, icu>>
      BY <2>2 DEF TypeOK
    <2> QED
      BY <2>1, <2>2, ReceiveCases
  <1>5. UNCHANGED <<open, since, alone, protocol, joined, inbox>>
    BY ReceiveCases
  <1> QED
    BY <1>1, <1>3, <1>4, <1>5 DEF TypeOK, InMessage

LEMMA NextType == TypeOK /\ [Next]_vars => TypeOK'
  <1> SUFFICES ASSUME TypeOK, [Next]_vars PROVE TypeOK'
    OBVIOUS
  <1>1. ASSUME NEW c \in Conn, ControllerEstablished(c) PROVE TypeOK'
    BY <1>1, BoundsAssumption
       DEF TypeOK, ControllerEstablished, ResetEstimators, serverVars
  <1>2. ASSUME NEW c \in Conn, ControllerClosed(c) PROVE TypeOK'
    BY <1>2, BoundsAssumption DEF TypeOK, ControllerClosed, serverVars
  <1>3. ASSUME NEW c \in Conn, NEW n \in FragmentLen, NEW final \in BOOLEAN,
               ControllerReceive(c, n, final)
        PROVE TypeOK'
    BY <1>3, ReceiveType
  <1>4. ASSUME NEW i \in ICU, IcuEstablished(i) PROVE TypeOK'
    BY <1>4 DEF TypeOK, IcuEstablished, OnConnect, receiverVars
  <1>5. ASSUME NEW i \in ICU, IcuWriteable(i) PROVE TypeOK'
    <2>1. inbox' \in [ICU -> Seq(Nat)]
      BY <1>5 DEF TypeOK, IcuWriteable
    <2> QED
      BY <1>5, <2>1 DEF TypeOK, IcuWriteable, receiverVars
  <1>6. ASSUME NEW i \in ICU, IcuWriteFails(i) PROVE TypeOK'
    BY <1>6 DEF TypeOK, IcuWriteFails, receiverVars
  <1>7. ASSUME NEW i \in ICU, IcuClosed(i) PROVE TypeOK'
    BY <1>7 DEF TypeOK, IcuClosed, receiverVars
  <1>8. CASE UNCHANGED vars
    BY <1>8 DEF TypeOK, vars, receiverVars, serverVars
  <1> QED
    BY <1>1, <1>2, <1>3, <1>4, <1>5, <1>6, <1>7, <1>8 DEF Next

\* Every state the bridge can reach is well typed: the buffer never holds more than
\* MaxFrameLen bytes, whatever the controllers send.
THEOREM TypeCorrect == Spec => []TypeOK
  BY InitType, NextType, PTL DEF Spec, Safety
-----------------------------------------------------------------------------
(* Reassembly.  What is in a buffer is the latest piece of the message in  *)
(* progress, without a gap; it lacks the head of the message, or all of    *)
(* it, only if more bytes have arrived than the buffer holds.              *)

BufferInv ==
  \A c \in Conn :
    /\ c \notin open => buf[c] = <<>> /\ wire[c] = NoMessage
    /\ len[c] = Bytes(buf[c])
    /\ Contiguous(buf[c])
    /\ buf[c] # <<>> => /\ wire[c] # NoMessage
                        /\ buf[c][Len(buf[c])].msg = wire[c].msg
                        /\ buf[c][Len(buf[c])].no = wire[c].count
                        /\ ~buf[c][Len(buf[c])].final
                        /\ End(buf[c]) = wire[c].bytes
    /\ wire[c] # NoMessage /\ (buf[c] = <<>> \/ buf[c][1].at # 0)
         => wire[c].bytes > MaxFrameLen

FrameInv == FrameIsMessageTail /\ OnlyOversizeIsCut

\* Appending to a piece of a message the fragment that follows it gives a longer piece.
LEMMA AppendFragment ==
  ASSUME NEW f \in Seq(Fragment), NEW e \in Fragment, Contiguous(f),
         f # <<>> => /\ f[Len(f)].msg = e.msg
                     /\ f[Len(f)].no + 1 = e.no
                     /\ ~f[Len(f)].final
                     /\ End(f) = e.at
  PROVE  LET g == Append(f, e)
         IN /\ g # <<>>
            /\ g[Len(g)] = e
            /\ g[1] = IF f = <<>> THEN e ELSE f[1]
            /\ Contiguous(g)
            /\ End(g) = e.at + e.size
            /\ Bytes(g) = Bytes(f) + e.size
  <1> DEFINE g == Append(f, e)
  <1>1. /\ Len(f) \in Nat
        /\ Len(g) = Len(f) + 1
        /\ g # <<>>
        /\ \A k \in 1..Len(f) : g[k] = f[k]
        /\ g[Len(g)] = e
    BY AppendProperties
  <1>2. g[1] = IF f = <<>> THEN e ELSE f[1]
    BY <1>1
  <1>3. Contiguous(g)
    <2> SUFFICES ASSUME NEW k \in 1..Len(g) - 1
                 PROVE  /\ g[k + 1].msg = g[k].msg
                        /\ g[k + 1].no = g[k].no + 1
                        /\ g[k + 1].at = g[k].at + g[k].size
                        /\ ~g[k].final
      BY DEF Contiguous
    <2>1. CASE k = Len(f)
      BY <1>1, <2>1 DEF End
    <2>2. CASE k # Len(f)
      <3>1. k \in 1..Len(f) - 1 /\ k + 1 \in 1..Len(f)
        BY <1>1, <2>2
      <3> QED
        BY <1>1, <3>1 DEF Contiguous
    <2> QED
      BY <2>1, <2>2
  <1>4. End(g) = e.at + e.size
    BY <1>1 DEF End
  <1>5. Bytes(g) = Bytes(f) + e.size
    <2>1. e.at \in Nat /\ e.size \in Nat
      BY BoundsAssumption DEF Fragment
    <2>2. CASE f = <<>>
      BY <1>1, <1>2, <1>4, <2>1, <2>2 DEF Bytes
    <2>3. CASE f # <<>>
      <3>1. f[1] \in Fragment
        BY <2>3
      <3>2. f[1].at \in Nat
        BY <3>1 DEF Fragment
      <3> QED
        BY <1>1, <1>2, <1>4, <2>1, <2>3, <3>2 DEF Bytes
    <2> QED
      BY <2>2, <2>3
  <1> QED
    BY <1>1, <1>2, <1>3, <1>4, <1>5

\* A fragment that arrives extends what its buffer holds, or starts it afresh.
LEMMA FillBuffer ==
  ASSUME TypeOK, BufferInv, NEW c \in Conn, NEW n \in FragmentLen, NEW final \in BOOLEAN,
         ControllerReceive(c, n, final)
  PROVE  LET g == Filled(c, n, final)
         IN /\ g # <<>>
            /\ g[Len(g)] = Arrived(c, n, final)
            /\ Contiguous(g)
            /\ End(g) = wire[c].bytes + n
            /\ Bytes(g) = Total(c, n)
            /\ Total(c, n) <= wire[c].bytes + n
            /\ g[1].at = 0 \/ wire[c].bytes > MaxFrameLen
  <1> DEFINE e == Arrived(c, n, final)
             f == Held(c)
  <1>1. /\ n \in Nat
        /\ wire[c].bytes \in Nat
        /\ e \in Fragment
        /\ f \in Seq(Fragment)
        /\ e.msg = Msg(c) /\ e.no = wire[c].count + 1
        /\ e.at = wire[c].bytes /\ e.size = n
    BY FragmentArrives DEF Arrived
  <1>2. First(c) => wire[c].bytes = 0
    BY DEF First, NoMessage
  <1>3. Contiguous(f)
    <2>1. CASE First(c)
      BY <2>1 DEF Held, Contiguous
    <2>2. CASE ~First(c)
      BY <2>2 DEF Held, BufferInv
    <2> QED
      BY <2>1, <2>2
  <1>4. f # <<>> => /\ ~First(c)
                    /\ f = buf[c]
                    /\ f[Len(f)].msg = e.msg
                    /\ f[Len(f)].no + 1 = e.no
                    /\ ~f[Len(f)].final
                    /\ End(f) = e.at
    BY <1>1 DEF Held, BufferInv, First, Msg
  <1>5. LET g == Append(f, e)
        IN /\ g # <<>>
           /\ g[Len(g)] = e
           /\ g[1] = IF f = <<>> THEN e ELSE f[1]
           /\ Contiguous(g)
           /\ End(g) = e.at + e.size
           /\ Bytes(g) = Bytes(f) + e.size
    BY <1>1, <1>3, <1>4, AppendFragment
  <1>6. Total(c, n) = Bytes(f) + n /\ Bytes(f) \in Nat
    <2>1. CASE First(c)
      BY <1>1, <2>1 DEF Total, Held, Bytes
    <2>2. CASE ~First(c)
      BY <2>2, BoundsAssumption DEF Total, Held, BufferInv, TypeOK
    <2> QED
      BY <2>1, <2>2
  <1>7. Bytes(f) <= wire[c].bytes
    <2>1. CASE f = <<>>
      BY <1>1, <2>1 DEF Bytes
    <2>2. CASE f # <<>>
      <3>1. f[1] \in Fragment
        BY <1>1, <2>2
      <3>2. f[1].at \in Nat
        BY <3>1 DEF Fragment
      <3> QED
        BY <1>1, <1>4, <2>2, <3>2 DEF Bytes
    <2> QED
      BY <2>1, <2>2
  <1>8. Append(f, e)[1].at = 0 \/ wire[c].bytes > MaxFrameLen
    <2>1. CASE First(c)
      BY <1>1, <1>2, <1>5, <2>1 DEF Held
    <2>2. CASE ~First(c)
      <3>1. f = buf[c]
        BY <2>2 DEF Held
      <3> QED
        BY <1>1, <1>5, <2>2, <3>1 DEF BufferInv, First
    <2> QED
      BY <2>1, <2>2
  <1> QED
    BY <1>1, <1>5, <1>6, <1>7, <1>8 DEF Filled

\* The three ways a fragment is dealt with, seen from the buffers.
LEMMA ReceiveBuffer ==
  ASSUME TypeOK, BufferInv, NEW c \in Conn, NEW n \in FragmentLen, NEW final \in BOOLEAN,
         ControllerReceive(c, n, final)
  PROVE  BufferInv'
  <1> DEFINE g == Filled(c, n, final)
             W(d) == wire'[d]
  <1>1. /\ c \in open
        /\ open' = open
    BY ReceiveCases
  <1>2. wire' = [wire EXCEPT ![c] =
                    IF final THEN NoMessage
                    ELSE [msg |-> Msg(c), count |-> wire[c].count + 1,
                          bytes |-> wire[c].bytes + n]]
    BY ReceiveCases
  <1>3. \/ Discard(c) /\ (final \/ Overflows(Total(c, n)))
        \/ ~final /\ Hold(c, g, Total(c, n))
    BY ReceiveCases
  <1>4. /\ n \in Nat
        /\ wire[c].bytes \in Nat
        /\ Total(c, n) \in Nat
        /\ Msg(c) \in 1..MaxMessages
    BY FragmentArrives
  <1>5. /\ g # <<>>
        /\ g[Len(g)] = Arrived(c, n, final)
        /\ Contiguous(g)
        /\ End(g) = wire[c].bytes + n
        /\ Bytes(g) = Total(c, n)
        /\ Total(c, n) <= wire[c].bytes + n
        /\ g[1].at = 0 \/ wire[c].bytes > MaxFrameLen
    BY FillBuffer
  <1>6. /\ wire'[c] = IF final THEN NoMessage
                      ELSE [msg |-> Msg(c), count |-> wire[c].count + 1,
                            bytes |-> wire[c].bytes + n]
        /\ \A d \in Conn \ {c} : wire'[d] = wire[d]
    BY <1>2 DEF TypeOK
  <1>7. \A d \in Conn \ {c} : buf'[d] = buf[d] /\ len'[d] = len[d]
    BY <1>3 DEF Discard, Hold, TypeOK
  <1> SUFFICES ASSUME NEW d \in Conn
               PROVE (/\ d \notin open => buf[d] = <<>> /\ wire[d] = NoMessage
                      /\ len[d] = Bytes(buf[d])
                      /\ Contiguous(buf[d])
                      /\ buf[d] # <<>> => /\ wire[d] # NoMessage
                                          /\ buf[d][Len(buf[d])].msg = wire[d].msg
                                          /\ buf[d][Len(buf[d])].no = wire[d].count
                                          /\ ~buf[d][Len(buf[d])].final
                                          /\ End(buf[d]) = wire[d].bytes
                      /\ wire[d] # NoMessage /\ (buf[d] = <<>> \/ buf[d][1].at # 0)
                           => wire[d].bytes > MaxFrameLen)'
    BY DEF BufferInv
  <1>8. CASE d # c
    BY <1>1, <1>6, <1>7, <1>8 DEF BufferInv, Bytes, End, Contiguous
  <1>9. CASE d = c /\ Discard(c) /\ (final \/ Overflows(Total(c, n)))
    <2>1. buf'[c] = <<>> /\ len'[c] = 0
      BY <1>9 DEF Discard, Hold, TypeOK
    <2>2. wire'[c] # NoMessage => wire'[c].bytes > MaxFrameLen
      BY <1>4, <1>5, <1>6, <1>9, BoundsAssumption DEF Overflows
    <2>3. Contiguous(<<>>) /\ Bytes(<<>>) = 0
      BY DEF Contiguous, Bytes
    <2> QED
      BY <1>1, <1>9, <2>1, <2>2, <2>3 DEF Bytes, Contiguous
  <1>10. CASE d = c /\ ~final /\ Hold(c, g, Total(c, n))
    <2>1. buf'[c] = g /\ len'[c] = Total(c, n)
      BY <1>10 DEF Hold, TypeOK
    <2>2. /\ wire'[c].msg = Msg(c)
          /\ wire'[c].count = wire[c].count + 1
          /\ wire'[c].bytes = wire[c].bytes + n
          /\ wire'[c] # NoMessage
      BY <1>4, <1>6, <1>10 DEF NoMessage
    <2>3. /\ g[Len(g)].msg = Msg(c)
          /\ g[Len(g)].no = wire[c].count + 1
          /\ ~g[Len(g)].final
      BY <1>5, <1>10 DEF Arrived
    <2>4. g[1].at # 0 => wire'[c].bytes > MaxFrameLen
      BY <1>4, <1>5, <2>2, BoundsAssumption
    <2> QED
      BY <1>1, <1>5, <1>10, <2>1, <2>2, <2>3, <2>4 DEF Bytes, End, Contiguous
  <1> QED
    BY <1>3, <1>8, <1>9, <1>10

LEMMA ReceiveFrame ==
  ASSUME TypeOK, BufferInv, FrameInv,
         NEW c \in Conn, NEW n \in FragmentLen, NEW final \in BOOLEAN,
         ControllerReceive(c, n, final)
  PROVE  FrameInv'
  <1> DEFINE g == Filled(c, n, final)
  <1>1. CASE UNCHANGED payload
    BY <1>1 DEF FrameInv, FrameIsMessageTail, OnlyOversizeIsCut, Contiguous, End
  <1>2. CASE final /\ payload' = [no |-> payload.no + 1, frame |-> g]
    <2>1. payload'.frame = g
      BY <1>2
    <2>2. /\ n \in Nat
          /\ wire[c].bytes \in Nat
      BY FragmentArrives
    <2>3. /\ g # <<>>
          /\ g[Len(g)] = Arrived(c, n, final)
          /\ Contiguous(g)
          /\ End(g) = wire[c].bytes + n
          /\ g[1].at = 0 \/ wire[c].bytes > MaxFrameLen
      BY FillBuffer
    <2>4. g[Len(g)].final
      <3>1. Arrived(c, n, final).final = final
        BY DEF Arrived
      <3> QED
        BY <1>2, <2>3, <3>1, Zenon
    <2>5. g[1].at = 0 \/ End(g) > MaxFrameLen
      BY <2>2, <2>3, BoundsAssumption
    <2>6. FrameIsMessageTail'
      BY <2>1, <2>3, <2>4 DEF FrameIsMessageTail, Contiguous
    <2>7. OnlyOversizeIsCut'
      BY <2>1, <2>5 DEF OnlyOversizeIsCut, End
    <2> QED
      BY <2>6, <2>7 DEF FrameInv
  <1>3. \/ UNCHANGED payload
        \/ final /\ Forward(Msg(c), g, Total(c, n))
    BY ReceiveCases
  <1> QED
    BY <1>1, <1>2, <1>3 DEF Forward

\* Reassembly as a whole: what every step of the bridge preserves.
ReassemblyInv == TypeOK /\ BufferInv /\ FrameInv

LEMMA InitReassembly == Init => ReassemblyInv
  <1> SUFFICES ASSUME Init PROVE ReassemblyInv
    OBVIOUS
  <1>1. Contiguous(<<>>) /\ Bytes(<<>>) = 0
    BY DEF Contiguous, Bytes
  <1>2. BufferInv
    BY <1>1 DEF Init, BufferInv
  <1>3. FrameInv
    BY DEF Init, FrameInv, FrameIsMessageTail, OnlyOversizeIsCut
  <1> QED
    BY <1>2, <1>3, InitType DEF ReassemblyInv

LEMMA NextReassembly == ReassemblyInv /\ [Next]_vars => ReassemblyInv'
  <1> SUFFICES ASSUME ReassemblyInv, [Next]_vars PROVE ReassemblyInv'
    OBVIOUS
  <1> USE DEF ReassemblyInv
  <1>1. TypeOK'
    BY NextType
  <1>2. UNCHANGED payload => FrameInv'
    BY DEF FrameInv, FrameIsMessageTail, OnlyOversizeIsCut, Contiguous, End
  <1>3. UNCHANGED <<open, wire, buf, len>> => BufferInv'
    BY DEF BufferInv, Bytes, End, Contiguous
  <1>4. ASSUME NEW c \in Conn,
               buf' = [buf EXCEPT ![c] = <<>>], len' = [len EXCEPT ![c] = 0],
               wire' = [wire EXCEPT ![c] = NoMessage],
               \A d \in Conn \ {c} : d \in open <=> d \in open'
        PROVE BufferInv'
    <2>1. Contiguous(<<>>) /\ Bytes(<<>>) = 0
      BY DEF Contiguous, Bytes
    <2>2. buf'[c] = <<>> /\ len'[c] = 0 /\ wire'[c] = NoMessage
      BY <1>4 DEF TypeOK
    <2>3. \A d \in Conn \ {c} : buf'[d] = buf[d] /\ len'[d] = len[d] /\ wire'[d] = wire[d]
      BY <1>4 DEF TypeOK
    <2> QED
      BY <1>4, <2>1, <2>2, <2>3 DEF BufferInv, Bytes, End, Contiguous
  <1>5. ASSUME NEW c \in Conn, ControllerEstablished(c) PROVE BufferInv' /\ FrameInv'
    BY <1>2, <1>4, <1>5 DEF ControllerEstablished, serverVars
  <1>6. ASSUME NEW c \in Conn, ControllerClosed(c) PROVE BufferInv' /\ FrameInv'
    BY <1>2, <1>4, <1>6 DEF ControllerClosed, serverVars
  <1>7. ASSUME NEW c \in Conn, NEW n \in FragmentLen, NEW final \in BOOLEAN,
               ControllerReceive(c, n, final)
        PROVE BufferInv' /\ FrameInv'
    BY <1>7, ReceiveBuffer, ReceiveFrame
  <1>8. ASSUME NEW i \in ICU,
               IcuEstablished(i) \/ IcuWriteable(i) \/ IcuWriteFails(i) \/ IcuClosed(i)
        PROVE BufferInv' /\ FrameInv'
    BY <1>2, <1>3, <1>8
       DEF IcuEstablished, IcuWriteable, IcuWriteFails, IcuClosed, receiverVars
  <1>9. CASE UNCHANGED vars
    <2>1. UNCHANGED payload /\ UNCHANGED <<open, wire, buf, len>>
      BY <1>9 DEF vars, receiverVars, serverVars
    <2>2. BufferInv' /\ FrameInv'
      BY <1>2, <1>3, <2>1
    <2> QED
      BY <1>1, <2>2
  <1> QED
    BY <1>1, <1>5, <1>6, <1>7, <1>8, <1>9 DEF Next

LEMMA ReassemblyHolds == Spec => []ReassemblyInv
  BY InitReassembly, NextReassembly, PTL DEF Spec, Safety

\* What is published is the end of one message in one piece, however fragments of any
\* number of connections interleave.
THEOREM FramesAreMessageTails == Spec => []FrameIsMessageTail
  <1>1. ReassemblyInv => FrameIsMessageTail
    BY DEF ReassemblyInv, FrameInv
  <1> QED
    BY <1>1, ReassemblyHolds, PTL

\* A published frame lacks its head only if the message is longer than the buffer.
THEOREM NothingThatFitsIsCut == Spec => []OnlyOversizeIsCut
  <1>1. ReassemblyInv => OnlyOversizeIsCut
    BY DEF ReassemblyInv, FrameInv
  <1> QED
    BY <1>1, ReassemblyHolds, PTL

\* session->len is the number of bytes in session->buf, and never more than fit there.
THEOREM LengthCountsBuffer == Spec => []LenCountsBuffer
  <1>1. ReassemblyInv => LenCountsBuffer
    <2> SUFFICES ASSUME ReassemblyInv, NEW c \in open
                 PROVE  len[c] = Bytes(buf[c]) /\ len[c] <= MaxFrameLen
      BY DEF LenCountsBuffer
    <2>1. c \in Conn
      BY DEF ReassemblyInv, TypeOK
    <2>2. len[c] = Bytes(buf[c])
      BY <2>1 DEF ReassemblyInv, BufferInv
    <2>3. len[c] \in 0..MaxFrameLen
      BY <2>1 DEF ReassemblyInv, TypeOK
    <2> QED
      BY <2>2, <2>3, BoundsAssumption
  <1> QED
    BY <1>1, ReassemblyHolds, PTL

-----------------------------------------------------------------------------
(* Sessions.  A message in progress was begun within the session it        *)
(* arrives on, so what the estimators are fed while no two sessions        *)
(* overlap is younger than the one session that is open.                   *)

OwnMessages ==
  \A c \in Conn : /\ since[c] <= sent
                  /\ wire[c] # NoMessage => /\ since[c] < wire[c].msg
                                            /\ wire[c].msg <= sent

OneSession == alone => \A c, d \in open : c = d

SessionInv == OwnMessages /\ OneSession /\ SessionIsolation

LEMMA EstablishedSession ==
  ASSUME TypeOK, SessionInv, NEW c \in Conn, ControllerEstablished(c)
  PROVE  SessionInv'
  <1>1. /\ open' = open \cup {c}
        /\ wire' = [wire EXCEPT ![c] = NoMessage]
        /\ since' = [since EXCEPT ![c] = sent]
        /\ alone' = (open = {})
        /\ motorFed' = {} /\ clockFed' = {}
        /\ sent' = sent
    BY DEF ControllerEstablished, ResetEstimators
  <1>2. /\ since'[c] = sent /\ wire'[c] = NoMessage
        /\ \A d \in Conn \ {c} : since'[d] = since[d] /\ wire'[d] = wire[d]
    BY <1>1 DEF TypeOK
  <1>3. OwnMessages'
    BY <1>1, <1>2, BoundsAssumption DEF SessionInv, OwnMessages, TypeOK
  <1>4. OneSession'
    BY <1>1 DEF OneSession
  <1>5. SessionIsolation'
    BY <1>1 DEF SessionIsolation
  <1> QED
    BY <1>3, <1>4, <1>5 DEF SessionInv

LEMMA ClosedSession ==
  ASSUME TypeOK, SessionInv, NEW c \in Conn, ControllerClosed(c)
  PROVE  SessionInv'
  <1>1. /\ open' = open \ {c}
        /\ wire' = [wire EXCEPT ![c] = NoMessage]
        /\ since' = [since EXCEPT ![c] = 0]
        /\ UNCHANGED <<sent, alone, motorFed, clockFed>>
    BY DEF ControllerClosed
  <1>2. /\ since'[c] = 0 /\ wire'[c] = NoMessage
        /\ \A d \in Conn \ {c} : since'[d] = since[d] /\ wire'[d] = wire[d]
    BY <1>1 DEF TypeOK
  <1>3. OwnMessages'
    BY <1>1, <1>2, BoundsAssumption DEF SessionInv, OwnMessages, TypeOK
  <1>4. OneSession'
    BY <1>1 DEF SessionInv, OneSession
  <1>5. SessionIsolation'
    BY <1>1, <1>2 DEF SessionInv, SessionIsolation, TypeOK
  <1> QED
    BY <1>3, <1>4, <1>5 DEF SessionInv

LEMMA ReceiveSession ==
  ASSUME TypeOK, SessionInv, NEW c \in Conn, NEW n \in FragmentLen, NEW final \in BOOLEAN,
         ControllerReceive(c, n, final)
  PROVE  SessionInv'
  <1>1. /\ c \in open
        /\ UNCHANGED <<open, since, alone>>
    BY ReceiveCases
  <1>2. sent' = IF First(c) THEN Msg(c) ELSE sent
    BY ReceiveCases
  <1>3. /\ wire'[c] = IF final THEN NoMessage
                      ELSE [msg |-> Msg(c), count |-> wire[c].count + 1,
                            bytes |-> wire[c].bytes + n]
        /\ \A d \in Conn \ {c} : wire'[d] = wire[d]
    <2>1. wire' = [wire EXCEPT ![c] =
                      IF final THEN NoMessage
                      ELSE [msg |-> Msg(c), count |-> wire[c].count + 1,
                            bytes |-> wire[c].bytes + n]]
      BY ReceiveCases
    <2> QED
      BY <2>1 DEF TypeOK
  <1>4. /\ sent \in Nat /\ sent' \in Nat /\ Msg(c) \in Nat
        /\ sent <= sent'
        /\ since[c] < Msg(c)
        /\ Msg(c) <= sent'
    <2>1. sent \in Nat /\ since[c] \in Nat
      BY BoundsAssumption DEF TypeOK
    <2>0. Msg(c) \in Nat
      BY FragmentArrives, BoundsAssumption
    <2>2. CASE First(c)
      BY <1>2, <2>1, <2>0, <2>2 DEF SessionInv, OwnMessages, Msg
    <2>3. CASE ~First(c)
      BY <1>2, <2>1, <2>0, <2>3 DEF SessionInv, OwnMessages, Msg, First
    <2> QED
      BY <2>1, <2>0, <2>2, <2>3
  <1>5. OwnMessages'
    <2> SUFFICES ASSUME NEW d \in Conn
                 PROVE  /\ since[d] <= sent'
                        /\ wire'[d] # NoMessage => /\ since[d] < wire'[d].msg
                                                   /\ wire'[d].msg <= sent'
      BY <1>1 DEF OwnMessages
    <2>1. since[d] \in Nat /\ since[d] <= sent
      BY BoundsAssumption DEF SessionInv, OwnMessages, TypeOK
    <2>2. CASE d = c
      <3>1. wire'[c] # NoMessage => wire'[c].msg = Msg(c)
        BY <1>3
      <3> QED
        BY <1>4, <2>1, <2>2, <3>1
    <2>3. CASE d # c
      <3>1. wire[d] # NoMessage => wire[d].msg \in Nat
        BY DEF TypeOK
      <3> QED
        BY <1>3, <1>4, <2>1, <2>3, <3>1 DEF SessionInv, OwnMessages
    <2> QED
      BY <2>2, <2>3
  <1>6. /\ motorFed' \subseteq motorFed \cup {Msg(c)}
        /\ clockFed' \subseteq clockFed \cup {Msg(c)}
    <2>1. CASE Forward(Msg(c), Filled(c, n, final), Total(c, n))
      BY <2>1 DEF Forward
    <2>2. CASE UNCHANGED <<motorFed, clockFed, payload, payloadLen, icu>>
      BY <2>2
    <2> QED
      BY <2>1, <2>2, ReceiveCases
  <1>7. SessionIsolation'
    <2> SUFFICES ASSUME alone, NEW d \in open, NEW m \in motorFed' \cup clockFed'
                 PROVE  m > since[d]
      BY <1>1 DEF SessionIsolation
    <2>1. d = c
      BY <1>1 DEF SessionInv, OneSession
    <2>2. m = Msg(c) \/ m \in motorFed \cup clockFed
      BY <1>6
    <2>3. Msg(c) > since[c]
      BY <1>4
    <2> QED
      BY <2>1, <2>2, <2>3 DEF SessionInv, SessionIsolation
  <1>8. OneSession'
    BY <1>1 DEF SessionInv, OneSession
  <1> QED
    BY <1>5, <1>7, <1>8 DEF SessionInv

LEMMA NextSession == TypeOK /\ SessionInv /\ [Next]_vars => SessionInv'
  <1> SUFFICES ASSUME TypeOK, SessionInv, [Next]_vars PROVE SessionInv'
    OBVIOUS
  <1>1. ASSUME UNCHANGED <<sent, wire, open, since, alone, motorFed, clockFed>>
        PROVE SessionInv'
    BY <1>1 DEF SessionInv, OwnMessages, OneSession, SessionIsolation
  <1>2. ASSUME NEW c \in Conn, ControllerEstablished(c) PROVE SessionInv'
    BY <1>2, EstablishedSession
  <1>3. ASSUME NEW c \in Conn, ControllerClosed(c) PROVE SessionInv'
    BY <1>3, ClosedSession
  <1>4. ASSUME NEW c \in Conn, NEW n \in FragmentLen, NEW final \in BOOLEAN,
               ControllerReceive(c, n, final)
        PROVE SessionInv'
    BY <1>4, ReceiveSession
  <1>5. ASSUME NEW i \in ICU,
               IcuEstablished(i) \/ IcuWriteable(i) \/ IcuWriteFails(i) \/ IcuClosed(i)
        PROVE SessionInv'
    BY <1>1, <1>5 DEF IcuEstablished, IcuWriteable, IcuWriteFails, IcuClosed, receiverVars
  <1>6. CASE UNCHANGED vars
    BY <1>1, <1>6 DEF vars, receiverVars
  <1> QED
    BY <1>2, <1>3, <1>4, <1>5, <1>6 DEF Next

\* As long as controllers connect one at a time, no frame of a session is computed from
\* anything an earlier session, or the warm-up inference, left behind.
THEOREM SessionsAreIsolated == Spec => []SessionIsolation
  <1>1. Init => SessionInv
    BY BoundsAssumption DEF Init, SessionInv, OwnMessages, OneSession, SessionIsolation
  <1>2. SessionInv => SessionIsolation
    BY DEF SessionInv
  <1> QED
    BY <1>1, <1>2, InitType, NextType, NextSession, PTL DEF Spec, Safety

-----------------------------------------------------------------------------
(* What a client has seen decides its state: nothing newer than the        *)
(* payload, everything when its connection is idle, and something older    *)
(* when a writable callback is due while there is a payload to write.      *)

\* A connected client means that s_protocol is set.
ProtocolKnown == \A i \in ICU : icu[i] # "down" => protocol

\* What the writes to one client are.
Fresh(i) ==
  /\ joined[i] <= payload.no
  /\ \A k \in 1..Len(inbox[i]) : joined[i] < inbox[i][k] /\ inbox[i][k] <= payload.no
  /\ \A j, k \in 1..Len(inbox[i]) : j < k => inbox[i][j] < inbox[i][k]

\* A writable callback that is due has something new to write.
Owed(i) == icu[i] = "pending" /\ payloadLen > 0 => Seen(i) < payload.no

CaughtUp(i) == icu[i] = "idle" /\ payloadLen > 0 => Seen(i) = payload.no

ServerInv == ProtocolKnown /\ \A i \in ICU : Fresh(i) /\ Owed(i) /\ CaughtUp(i)

\* What a client has seen is a frame number no newer than the payload, and no older
\* than anything written to it.
LEMMA SeenIsLatest ==
  ASSUME TypeOK, NEW i \in ICU, Fresh(i)
  PROVE  /\ Seen(i) \in Nat
         /\ Seen(i) <= payload.no
         /\ joined[i] <= Seen(i)
         /\ \A k \in 1..Len(inbox[i]) : inbox[i][k] <= Seen(i)
  <1>1. inbox[i] \in Seq(Nat) /\ joined[i] \in Nat /\ payload.no \in Nat
    BY DEF TypeOK
  <1>2. CASE inbox[i] = <<>>
    BY <1>1, <1>2 DEF Seen, Fresh
  <1>3. CASE inbox[i] # <<>>
    <2>1. Len(inbox[i]) \in 1..Len(inbox[i])
      BY <1>1, <1>3
    <2>2. Seen(i) = inbox[i][Len(inbox[i])]
      BY <1>3 DEF Seen
    <2>3. \A k \in 1..Len(inbox[i]) : inbox[i][k] \in Nat
      BY <1>1
    <2>4. \A k \in 1..Len(inbox[i]) : inbox[i][k] <= Seen(i)
      BY <2>1, <2>2, <2>3 DEF Fresh
    <2> QED
      BY <1>1, <2>1, <2>2, <2>3, <2>4 DEF Fresh
  <1> QED
    BY <1>2, <1>3

LEMMA PublishServer ==
  ASSUME TypeOK, ServerInv, NEW i \in ICU,
         payload'.no = payload.no + 1, CallbackOnWritable,
         UNCHANGED <<protocol, joined, inbox>>
  PROVE  (Fresh(i) /\ Owed(i) /\ CaughtUp(i))'
  <1>1. /\ Fresh(i)
        /\ payload.no \in Nat /\ joined[i] \in Nat /\ inbox[i] \in Seq(Nat)
    BY DEF TypeOK, ServerInv
  <1>2. Fresh(i)'
    <2>1. \A k \in 1..Len(inbox[i]) : inbox[i][k] \in Nat
      BY <1>1
    <2> QED
      BY <1>1, <2>1 DEF Fresh
  <1>3. Seen(i) \in Nat /\ Seen(i) < payload.no + 1 /\ Seen(i)' = Seen(i)
    BY <1>1, SeenIsLatest DEF Seen
  <1>4. icu'[i] # "idle"
    BY DEF ServerInv, ProtocolKnown, CallbackOnWritable, TypeOK
  <1> QED
    BY <1>2, <1>3, <1>4 DEF Owed, CaughtUp

\* A connection that nothing but a change of its own state happens to stays fresh.
LEMMA FreshUnchanged ==
  ASSUME NEW i \in ICU, payload'.no = payload.no,
         joined'[i] = joined[i], inbox'[i] = inbox[i]
  PROVE  Fresh(i)' = Fresh(i) /\ Seen(i)' = Seen(i)
  BY DEF Fresh, Seen

LEMMA WriteServer ==
  ASSUME TypeOK, ServerInv, NEW i \in ICU, IcuWriteable(i)
  PROVE  (Fresh(i) /\ Owed(i) /\ CaughtUp(i))'
  <1>1. /\ icu[i] = "pending"
        /\ icu'[i] = "idle"
        /\ UNCHANGED <<payload, payloadLen, joined>>
    BY DEF IcuWriteable, TypeOK
  <1>2. /\ Fresh(i) /\ Owed(i)
        /\ payload.no \in Nat /\ joined[i] \in Nat /\ inbox[i] \in Seq(Nat)
    BY DEF TypeOK, ServerInv
  <1>3. CASE payloadLen > 0
    <2> DEFINE new == Append(inbox[i], payload.no)
    <2>1. inbox'[i] = new
      BY <1>3 DEF IcuWriteable, TypeOK
    <2>2. /\ Len(inbox[i]) \in Nat
          /\ Len(new) = Len(inbox[i]) + 1
          /\ new # <<>>
          /\ \A k \in 1..Len(inbox[i]) : new[k] = inbox[i][k]
          /\ new[Len(new)] = payload.no
      BY <1>2, AppendProperties
    <2>3. /\ Seen(i) \in Nat /\ Seen(i) < payload.no /\ joined[i] <= Seen(i)
          /\ \A k \in 1..Len(inbox[i]) : inbox[i][k] \in Nat /\ inbox[i][k] <= Seen(i)
      BY <1>1, <1>2, <1>3, SeenIsLatest DEF Owed
    <2>4. \A k \in 1..Len(new) : joined[i] < new[k] /\ new[k] <= payload.no
      <3> SUFFICES ASSUME NEW k \in 1..Len(new)
                   PROVE  joined[i] < new[k] /\ new[k] <= payload.no
        OBVIOUS
      <3>1. CASE k = Len(new)
        BY <1>2, <2>2, <2>3, <3>1
      <3>2. CASE k \in 1..Len(inbox[i])
        BY <1>2, <2>2, <3>2 DEF Fresh
      <3> QED
        BY <2>2, <3>1, <3>2
    <2>5. \A j, k \in 1..Len(new) : j < k => new[j] < new[k]
      <3> SUFFICES ASSUME NEW j \in 1..Len(new), NEW k \in 1..Len(new), j < k
                   PROVE  new[j] < new[k]
        OBVIOUS
      <3>1. j \in 1..Len(inbox[i])
        BY <2>2
      <3>2. CASE k = Len(new)
        BY <1>2, <2>2, <2>3, <3>1, <3>2
      <3>3. CASE k \in 1..Len(inbox[i])
        BY <1>2, <2>2, <3>1, <3>3 DEF Fresh
      <3> QED
        BY <2>2, <3>2, <3>3
    <2>6. Fresh(i)'
      BY <1>1, <1>2, <2>1, <2>4, <2>5 DEF Fresh
    <2>7. Seen(i)' = payload.no
      BY <2>1, <2>2 DEF Seen
    <2> QED
      BY <1>1, <2>6, <2>7 DEF Owed, CaughtUp
  <1>4. CASE ~(payloadLen > 0)
    <2>1. inbox' = inbox
      BY <1>4 DEF IcuWriteable
    <2>2. Fresh(i)'
      BY <1>1, <1>2, <2>1, FreshUnchanged
    <2> QED
      BY <1>1, <1>4, <2>2 DEF Owed, CaughtUp
  <1> QED
    BY <1>3, <1>4

\* A fragment publishes a frame, takes the payload away, or leaves the server alone.
LEMMA ReceiveServes ==
  ASSUME TypeOK, NEW c \in Conn, NEW n \in FragmentLen, NEW final \in BOOLEAN,
         ControllerReceive(c, n, final)
  PROVE  /\ UNCHANGED <<protocol, joined, inbox>>
         /\ \/ UNCHANGED <<payload, payloadLen, icu>>
            \/ /\ payloadLen' = 0
               /\ CallbackOnWritable
               /\ UNCHANGED payload
            \/ /\ payload'.no = payload.no + 1
               /\ payloadLen' = 1
               /\ CallbackOnWritable
  <1>1. UNCHANGED <<protocol, joined, inbox>>
    BY ReceiveCases
  <1>2. CASE UNCHANGED <<motorFed, clockFed, payload, payloadLen, icu>>
    BY <1>1, <1>2
  <1>3. CASE Forward(Msg(c), Filled(c, n, final), Total(c, n))
    BY <1>1, <1>3 DEF Forward
  <1> QED
    BY <1>2, <1>3, ReceiveCases

LEMMA ReceiveServer ==
  ASSUME TypeOK, ServerInv, NEW c \in Conn, NEW n \in FragmentLen, NEW final \in BOOLEAN,
         ControllerReceive(c, n, final)
  PROVE  ServerInv'
  <1>1. UNCHANGED <<protocol, joined, inbox>>
    BY ReceiveServes
  <1>2. CASE UNCHANGED <<payload, payloadLen, icu>>
    BY <1>1, <1>2 DEF ServerInv, ProtocolKnown, Fresh, Owed, CaughtUp, Seen
  <1>3. CASE /\ CallbackOnWritable
            /\ \/ payloadLen' = 0 /\ UNCHANGED payload
               \/ payload'.no = payload.no + 1
    <2>1. ProtocolKnown'
      BY <1>1, <1>3 DEF ServerInv, ProtocolKnown, CallbackOnWritable, TypeOK
    <2>2. ASSUME NEW i \in ICU PROVE (Fresh(i) /\ Owed(i) /\ CaughtUp(i))'
      <3>1. CASE payloadLen' = 0 /\ UNCHANGED payload
        <4>1. Fresh(i)'
          BY <1>1, <3>1, FreshUnchanged DEF ServerInv
        <4> QED
          BY <3>1, <4>1 DEF Owed, CaughtUp
      <3>2. CASE payload'.no = payload.no + 1
        BY <1>1, <1>3, <3>2, PublishServer
      <3> QED
        BY <1>3, <3>1, <3>2
    <2> QED
      BY <2>1, <2>2 DEF ServerInv
  <1> QED
    BY <1>2, <1>3, ReceiveServes

LEMMA NextServer == TypeOK /\ ServerInv /\ [Next]_vars => ServerInv'
  <1> SUFFICES ASSUME TypeOK, ServerInv, [Next]_vars PROVE ServerInv'
    OBVIOUS
  <1>1. ASSUME UNCHANGED serverVars PROVE ServerInv'
    BY <1>1 DEF serverVars, ServerInv, ProtocolKnown, Fresh, Owed, CaughtUp, Seen
  <1>2. ASSUME NEW c \in Conn, ControllerEstablished(c) \/ ControllerClosed(c)
        PROVE ServerInv'
    BY <1>1, <1>2 DEF ControllerEstablished, ControllerClosed
  <1>3. ASSUME NEW c \in Conn, NEW n \in FragmentLen, NEW final \in BOOLEAN,
               ControllerReceive(c, n, final)
        PROVE ServerInv'
    BY <1>3, ReceiveServer
  <1>4. ASSUME NEW i \in ICU, NEW j \in ICU, j # i,
               payload'.no = payload.no, payloadLen' = payloadLen,
               icu'[j] = icu[j], joined'[j] = joined[j], inbox'[j] = inbox[j]
        PROVE (Fresh(j) /\ Owed(j) /\ CaughtUp(j))'
    BY <1>4, FreshUnchanged DEF ServerInv, Owed, CaughtUp
  <1>5. ASSUME NEW i \in ICU, IcuEstablished(i) PROVE ServerInv'
    <2>1. /\ protocol' = TRUE
          /\ UNCHANGED <<payload, payloadLen>>
          /\ icu'[i] = "idle" /\ joined'[i] = payload.no /\ inbox'[i] = <<>>
          /\ \A j \in ICU \ {i} : icu'[j] = icu[j] /\ joined'[j] = joined[j] /\ inbox'[j] = inbox[j]
      BY <1>5 DEF IcuEstablished, OnConnect, TypeOK
    <2>2. (Fresh(i) /\ Owed(i) /\ CaughtUp(i))'
      BY <2>1 DEF Fresh, Owed, CaughtUp, Seen, TypeOK
    <2>3. \A j \in ICU : (Fresh(j) /\ Owed(j) /\ CaughtUp(j))'
      BY <1>4, <2>1, <2>2
    <2>4. ProtocolKnown'
      BY <2>1 DEF ProtocolKnown
    <2> QED
      BY <2>3, <2>4 DEF ServerInv
  <1>6. ASSUME NEW i \in ICU, IcuWriteable(i) PROVE ServerInv'
    <2>1. /\ UNCHANGED <<payload, payloadLen, protocol>>
          /\ \A j \in ICU \ {i} : icu'[j] = icu[j] /\ joined'[j] = joined[j] /\ inbox'[j] = inbox[j]
          /\ icu[i] # "down"
      BY <1>6 DEF IcuWriteable, TypeOK
    <2>2. (Fresh(i) /\ Owed(i) /\ CaughtUp(i))'
      BY <1>6, WriteServer
    <2>3. \A j \in ICU : (Fresh(j) /\ Owed(j) /\ CaughtUp(j))'
      BY <1>4, <2>1, <2>2
    <2>4. ProtocolKnown'
      BY <2>1 DEF ServerInv, ProtocolKnown
    <2> QED
      BY <2>3, <2>4 DEF ServerInv
  <1>7. ASSUME NEW i \in ICU, IcuWriteFails(i) \/ IcuClosed(i) PROVE ServerInv'
    <2>1. /\ UNCHANGED <<payload, payloadLen, protocol, joined, inbox>>
          /\ icu'[i] = "down" /\ icu[i] # "down"
          /\ \A j \in ICU \ {i} : icu'[j] = icu[j]
      BY <1>7 DEF IcuWriteFails, IcuClosed, TypeOK
    <2>2. (Fresh(i) /\ Owed(i) /\ CaughtUp(i))'
      BY <2>1, FreshUnchanged DEF ServerInv, Owed, CaughtUp
    <2>3. \A j \in ICU : (Fresh(j) /\ Owed(j) /\ CaughtUp(j))'
      BY <1>4, <2>1, <2>2
    <2>4. ProtocolKnown'
      BY <2>1 DEF ServerInv, ProtocolKnown
    <2> QED
      BY <2>3, <2>4 DEF ServerInv
  <1>8. CASE UNCHANGED vars
    BY <1>1, <1>8 DEF vars
  <1> QED
    BY <1>2, <1>3, <1>5, <1>6, <1>7, <1>8 DEF Next

LEMMA InitServer == Init => ServerInv
  BY DEF Init, ServerInv, ProtocolKnown, Fresh, Owed, CaughtUp, Seen

LEMMA ServerHolds == Spec => [](TypeOK /\ ServerInv)
  BY InitType, NextType, InitServer, NextServer, PTL DEF Spec, Safety

\* Every write to a client is a frame published after it connected, and newer than the
\* one before.
THEOREM ClientsGetOnlyNews == Spec => []OnlyNews
  <1>1. TypeOK /\ ServerInv => OnlyNews
    BY DEF ServerInv, Fresh, OnlyNews
  <1> QED
    BY <1>1, ServerHolds, PTL

\* A client with no writable callback due has seen the newest frame: no wake-up is lost.
THEOREM ClientsAreNeverForgotten == Spec => []NeverForgotten
  <1>1. TypeOK /\ ServerInv => NeverForgotten
    BY DEF ServerInv, CaughtUp, NeverForgotten
  <1> QED
    BY <1>1, ServerHolds, PTL

-----------------------------------------------------------------------------
(* The refinement: every step of the bridge is a step of the relay, or     *)
(* none at all.                                                            *)

LEMMA RelayInit == Init => Relay!Init
  BY DEF Init, Relay!Init

LEMMA RelayStep ==
  TypeOK /\ ServerInv /\ [Next]_vars => [Relay!Next]_(Relay!vars)
  <1> SUFFICES ASSUME TypeOK, ServerInv, [Next]_vars
               PROVE  Relay!Next \/ UNCHANGED Relay!vars
    OBVIOUS
  <1>1. ASSUME UNCHANGED serverVars PROVE UNCHANGED Relay!vars
    BY <1>1 DEF serverVars, Relay!vars
  <1>2. ASSUME CallbackOnWritable
        PROVE  {i \in ICU : icu'[i] # "down"} = {i \in ICU : icu[i] # "down"}
    BY <1>2 DEF CallbackOnWritable, TypeOK
  <1>3. ASSUME NEW c \in Conn, NEW n \in FragmentLen, NEW final \in BOOLEAN,
               ControllerReceive(c, n, final)
        PROVE  Relay!Next \/ UNCHANGED Relay!vars
    <2>1. UNCHANGED <<protocol, joined, inbox>>
      BY <1>3, ReceiveServes
    <2>2. CASE UNCHANGED <<payload, payloadLen, icu>>
      BY <2>1, <2>2 DEF Relay!vars
    <2>3. CASE payloadLen' = 0 /\ CallbackOnWritable /\ UNCHANGED payload
      BY <1>2, <2>1, <2>3 DEF Relay!Next, Relay!Clear
    <2>4. CASE payload'.no = payload.no + 1 /\ payloadLen' = 1 /\ CallbackOnWritable
      BY <1>2, <2>1, <2>4 DEF Relay!Next, Relay!Publish
    <2> QED
      BY <1>3, <2>2, <2>3, <2>4, ReceiveServes
  <1>4. ASSUME NEW c \in Conn, ControllerEstablished(c) \/ ControllerClosed(c)
        PROVE  UNCHANGED Relay!vars
    BY <1>1, <1>4 DEF ControllerEstablished, ControllerClosed
  <1>5. ASSUME NEW i \in ICU, IcuEstablished(i) PROVE Relay!Next
    <2>1. /\ icu[i] = "down"
          /\ icu' = [icu EXCEPT ![i] = "idle"]
          /\ joined' = [joined EXCEPT ![i] = payload.no]
          /\ inbox' = [inbox EXCEPT ![i] = <<>>]
          /\ UNCHANGED <<payload, payloadLen>>
      BY <1>5 DEF IcuEstablished, OnConnect
    <2>2. {j \in ICU : icu'[j] # "down"} = {j \in ICU : icu[j] # "down"} \cup {i}
      BY <2>1 DEF TypeOK
    <2>3. Relay!Join(i)
      BY <2>1, <2>2 DEF Relay!Join
    <2> QED
      BY <2>3 DEF Relay!Next
  <1>6. ASSUME NEW i \in ICU, IcuWriteable(i) PROVE Relay!Next \/ UNCHANGED Relay!vars
    <2>1. {j \in ICU : icu'[j] # "down"} = {j \in ICU : icu[j] # "down"}
      BY <1>6 DEF IcuWriteable, TypeOK
    <2>2. CASE payloadLen > 0
      <3>1. Seen(i) < payload.no
        BY <1>6, <2>2 DEF ServerInv, Owed, IcuWriteable
      <3> QED
        BY <1>6, <2>1, <2>2, <3>1
           DEF IcuWriteable, Seen, Relay!Next, Relay!Deliver, Relay!Behind, Relay!Seen
    <2>3. CASE ~(payloadLen > 0)
      BY <1>6, <2>1, <2>3 DEF IcuWriteable, Relay!vars
    <2> QED
      BY <2>2, <2>3
  <1>7. ASSUME NEW i \in ICU, IcuWriteFails(i) \/ IcuClosed(i) PROVE Relay!Next
    <2>1. /\ UNCHANGED <<payload, payloadLen, joined, inbox>>
          /\ icu[i] # "down"
          /\ icu' = [icu EXCEPT ![i] = "down"]
      BY <1>7 DEF IcuWriteFails, IcuClosed
    <2>2. {j \in ICU : icu'[j] # "down"} = {j \in ICU : icu[j] # "down"} \ {i}
      BY <2>1 DEF TypeOK
    <2> QED
      BY <2>1, <2>2 DEF Relay!Next, Relay!Leave
  <1>8. CASE UNCHANGED vars
    BY <1>1, <1>8 DEF vars
  <1> QED
    BY <1>3, <1>4, <1>5, <1>6, <1>7, <1>8 DEF Next

\* The safety half of RefinesRelay: with the payload, its length and the connections of
\* the server as its state, the bridge is a relay of the latest frame.
THEOREM BridgeIsRelay == Spec => Relay!Safety
  BY RelayInit, RelayStep, ServerHolds, PTL DEF Spec, Safety, Relay!Safety

\* What the relay's fairness comes from: one of its clients is behind exactly while the
\* server owes it a writable callback and has a payload to write.
BehindMeansOwed == \A i \in ICU : Relay!Behind(i) <=> icu[i] = "pending" /\ payloadLen > 0

LEMMA OwedIsBehind == TypeOK /\ ServerInv => BehindMeansOwed
<1> SUFFICES ASSUME TypeOK, ServerInv, NEW i \in ICU
             PROVE  Relay!Behind(i) <=> icu[i] = "pending" /\ payloadLen > 0
  BY DEF BehindMeansOwed
<1>1. Relay!Behind(i) <=> icu[i] # "down" /\ payloadLen > 0 /\ Seen(i) < payload.no
  BY DEF Relay!Behind, Relay!Seen, Seen
<1>2. icu[i] \in {"down", "idle", "pending"} /\ payload.no \in Nat
  BY DEF TypeOK
<1>3. CASE icu[i] = "idle"
  <2>1. payloadLen > 0 => Seen(i) = payload.no
    BY <1>3 DEF ServerInv, CaughtUp
  <2>2. QED BY <1>1, <1>2, <1>3, <2>1
<1>4. CASE icu[i] = "pending"
  <2>1. payloadLen > 0 => Seen(i) < payload.no
    BY <1>4 DEF ServerInv, Owed
  <2>2. QED BY <1>1, <1>4, <2>1
<1>5. CASE icu[i] = "down"
  BY <1>1, <1>5
<1>6. QED BY <1>2, <1>3, <1>4, <1>5

\* A client of the relay is behind exactly while the server owes it a writable callback and
\* has a payload to write: the state in which both specifications ask for something to happen.
THEOREM BehindIsOwed == Spec => []BehindMeansOwed
  BY OwedIsBehind, ServerHolds, PTL

\* Serving a client that is behind is one of the two steps the relay's fairness asks for: it
\* gets the newest frame, or it is gone.
ServesBehind ==
  \A i \in ICU : Relay!Behind(i) /\ IcuServed(i) => Relay!Deliver(i) \/ Relay!Leave(i)

THEOREM ServingIsRelaying == Spec => [][ServesBehind]_vars
<1>1. ASSUME TypeOK, ServerInv, NEW i \in ICU, Relay!Behind(i), IcuServed(i)
      PROVE  Relay!Deliver(i) \/ Relay!Leave(i)
  <2>1. CASE IcuWriteable(i)
    <3>1. payloadLen > 0
      BY <1>1 DEF Relay!Behind
    <3>2. {j \in ICU : icu'[j] # "down"} = {j \in ICU : icu[j] # "down"}
      BY <1>1, <2>1 DEF IcuWriteable, TypeOK
    <3>3. QED BY <1>1, <2>1, <3>1, <3>2 DEF IcuWriteable, Relay!Deliver
  <2>2. CASE IcuWriteFails(i) \/ IcuClosed(i)
    <3>1. /\ UNCHANGED <<payload, payloadLen, joined, inbox>>
          /\ icu[i] # "down"
          /\ icu' = [icu EXCEPT ![i] = "down"]
      BY <2>2 DEF IcuWriteFails, IcuClosed
    <3>2. {j \in ICU : icu'[j] # "down"} = {j \in ICU : icu[j] # "down"} \ {i}
      BY <1>1, <3>1 DEF TypeOK
    <3>3. QED BY <3>1, <3>2 DEF Relay!Leave
  <2>3. QED BY <1>1, <2>1, <2>2 DEF IcuServed
<1>2. TypeOK /\ ServerInv /\ [Next]_vars => [ServesBehind]_vars
  BY <1>1 DEF ServesBehind
<1>3. QED BY <1>2, ServerHolds, PTL DEF Spec, Safety

=============================================================================
