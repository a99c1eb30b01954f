--------------------------- MODULE ControllerBridge ---------------------------
(***************************************************************************)
(* The bridge process between its two listeners: controller_receiver.cpp   *)
(* reassembles WebSocket messages from the controller, bridge_server.cpp   *)
(* publishes each in the one payload buffer of the process and asks        *)
(* libwebsockets for a writable callback on every ICU connection.  The     *)
(* callbacks run one at a time on one thread (lws_service), so a callback  *)
(* is one atomic action; what interleaves is their order.                  *)
(*                                                                         *)
(* A frame is the sequence of fragments it was assembled from.  Its text   *)
(* is the business of FrameBridge; here forwarding it ends in one of the   *)
(* outcomes FrameBridge allows, chosen freely.                             *)
(***************************************************************************)
EXTENDS Naturals, Sequences

CONSTANTS Conn,           \* connections of the controller-facing listener
          ICU,            \* connections of the ICU-facing listener
          MaxFrameLen,    \* MAX_CONTROLLER_FRAME_LEN, in units of a fragment's length
          FragmentLen,    \* the lengths of fragment libwebsockets hands over
          MaxMessages,    \* bound: messages the controllers begin to send
          MaxFragments    \* bound: fragments of one message

ASSUME BoundsAssumption ==
  /\ MaxFrameLen \in Nat
  /\ FragmentLen \subseteq Nat
  /\ MaxMessages \in Nat
  /\ MaxFragments \in Nat \ {0}

VARIABLES
  \* What arrives on the controller connections (ghost: the sender's side).
  sent,        \* messages begun so far; a message is known by its number
  wire,        \* wire[c]: the message c is in the middle of, its fragments and bytes so far
  \* controller_session_t, one per connection.
  open,        \* the controller connections that are established
  buf,         \* buf[c]: session->buf, as the fragments its first len[c] bytes came in
  len,         \* len[c]: session->len
  since,       \* since[c]: messages begun before c was established (ghost)
  alone,       \* no two sessions have been open at once since the last time none
               \* was, as controller_receiver.cpp:40 assumes (ghost)
  \* State behind motor_inference and clock_offset: which messages it was computed from.
  motorFed, clockFed,
  \* bridge_server.cpp.
  payload,     \* s_payload: the frame it holds, numbered in order of publication
  payloadLen,  \* s_payload_len: 0, or 1 for the length of the frame's text
  protocol,    \* s_protocol # NULL
  icu,         \* icu[i]: "down", "idle", or "pending" when a writable callback is due
  \* What the ICU clients saw (ghost).
  joined, inbox

receiverVars == <<sent, wire, open, buf, len, since, alone>>
serverVars   == <<payload, payloadLen, protocol, icu, joined, inbox>>
vars == <<receiverVars, motorFed, clockFed, serverVars>>

-----------------------------------------------------------------------------
NoMessage == [msg |-> 0, count |-> 0, bytes |-> 0]
WarmUp == 0    \* the Invoke() of motor_inference_init, before any message

Init ==
  /\ sent = 0
  /\ wire = [c \in Conn |-> NoMessage]
  /\ open = {}
  /\ buf = [c \in Conn |-> <<>>]
  /\ len = [c \in Conn |-> 0]
  /\ since = [c \in Conn |-> 0]
  /\ alone = TRUE
  /\ motorFed = {WarmUp}
  /\ clockFed = {}
  /\ payload = [no |-> 0, frame |-> <<>>]
  /\ payloadLen = 0
  /\ protocol = FALSE
  /\ icu = [i \in ICU |-> "down"]
  /\ joined = [i \in ICU |-> 0]
  /\ inbox = [i \in ICU |-> <<>>]

-----------------------------------------------------------------------------
(* The controller-facing listener.  A definition whose name begins with Broken is not *)
(* part of the model: it is the one after it with a mistake in it that a change to the *)
(* code could make, kept to show that the properties below would notice.              *)

\* motor_inference_reset() and clock_offset_reset()
BrokenResetEstimators == motorFed' = {} /\ UNCHANGED clockFed
ResetEstimators == motorFed' = {} /\ clockFed' = {}

ControllerEstablished(c) ==
  /\ c \notin open
  /\ open' = open \cup {c}
  /\ len' = [len EXCEPT ![c] = 0]
  /\ buf' = [buf EXCEPT ![c] = <<>>]
  /\ wire' = [wire EXCEPT ![c] = NoMessage]
  /\ since' = [since EXCEPT ![c] = sent]
  /\ alone' = (open = {})
  /\ ResetEstimators
  /\ UNCHANGED <<sent, serverVars>>

\* The handler only logs; libwebsockets frees the session, and what it held of a
\* message in progress with it.
ControllerClosed(c) ==
  /\ c \in open
  /\ open' = open \ {c}
  /\ wire' = [wire EXCEPT ![c] = NoMessage]
  /\ buf' = [buf EXCEPT ![c] = <<>>]
  /\ len' = [len EXCEPT ![c] = 0]
  /\ since' = [since EXCEPT ![c] = 0]
  /\ UNCHANGED <<sent, alone, motorFed, clockFed, serverVars>>

\* Every connected ICU gets a writable callback, once the protocol is known.
CallbackOnWritable ==
  icu' = [i \in ICU |-> IF icu[i] # "down" /\ protocol THEN "pending" ELSE icu[i]]

\* bridge_server_forward.  Inference comes first and leaves its mark in the
\* motor state even when the frame is dropped afterwards; a frame without
\* joystick fields does not reach it.  An empty frame has no field at all: it
\* is copied as it is, nothing can be appended, and its length 0 is published.
Forward(m, frame, bytes) ==
  \/ /\ bytes = 0
     /\ payloadLen' = 0
     /\ clockFed' = clockFed \cup {m}
     /\ CallbackOnWritable
     /\ UNCHANGED <<motorFed, payload>>
  \/ /\ bytes > 0
     /\ motorFed' \in {motorFed, motorFed \cup {m}}
     /\ \/ /\ payload' = [no |-> payload.no + 1, frame |-> frame]
           /\ payloadLen' = 1
           /\ clockFed' = clockFed \cup {m}
           /\ CallbackOnWritable
        \/ UNCHANGED <<payload, payloadLen, clockFed, icu>>   \* did not fit: dropped

\* What session->buf and session->len hold after the handler.
BrokenHold(c, fragments, bytes) ==      \* copied to buf, not to buf + len
  /\ len' = [len EXCEPT ![c] = bytes]
  /\ buf' = [buf EXCEPT ![c] = IF fragments = <<>> THEN <<>>
                                                   ELSE <<fragments[Len(fragments)]>>]
Hold(c, fragments, bytes) ==
  /\ len' = [len EXCEPT ![c] = bytes]
  /\ buf' = [buf EXCEPT ![c] = fragments]

BrokenDiscard(c) == UNCHANGED <<len, buf>>
Discard(c) == Hold(c, <<>>, 0)

BrokenOverflows(bytes) == bytes > MaxFrameLen + 1
Overflows(bytes) == bytes > MaxFrameLen

\* One LWS_CALLBACK_RECEIVE.  The sender decides the fragment's length and
\* whether it is the last of its message.
ControllerReceive(c, n, final) ==
  LET first  == wire[c] = NoMessage                 \* lws_is_first_fragment
      m      == IF first THEN sent + 1 ELSE wire[c].msg
      k      == wire[c].count + 1
      held   == IF first THEN <<>> ELSE buf[c]
      bytes  == IF first THEN n ELSE len[c] + n
      filled == Append(held, [msg |-> m, no |-> k, at |-> wire[c].bytes,
                              size |-> n, final |-> final])
  IN /\ c \in open
     /\ first => sent < MaxMessages
     /\ k = MaxFragments => final
     /\ sent' = IF first THEN m ELSE sent
     /\ wire' = [wire EXCEPT ![c] = IF final THEN NoMessage
                                   ELSE [msg |-> m, count |-> k, bytes |-> wire[c].bytes + n]]
     /\ \/ /\ Overflows(bytes)                               \* "dropping"
           /\ Discard(c)
           /\ UNCHANGED <<motorFed, clockFed, payload, payloadLen, icu>>
        \/ /\ ~Overflows(bytes)
           /\ ~final
           /\ Hold(c, filled, bytes)
           /\ UNCHANGED <<motorFed, clockFed, payload, payloadLen, icu>>
        \/ /\ ~Overflows(bytes)
           /\ final
           /\ Forward(m, filled, bytes)
           /\ Discard(c)
     /\ UNCHANGED <<open, since, alone, protocol, joined, inbox>>

-----------------------------------------------------------------------------
(* The ICU-facing listener: callback_icu. *)

\* A new connection is owed nothing until the next frame.
BrokenOnConnect == "pending"
OnConnect == "idle"

IcuEstablished(i) ==
  /\ icu[i] = "down"
  /\ icu' = [icu EXCEPT ![i] = OnConnect]
  /\ protocol' = TRUE
  /\ joined' = [joined EXCEPT ![i] = payload.no]
  /\ inbox' = [inbox EXCEPT ![i] = <<>>]
  /\ UNCHANGED <<receiverVars, motorFed, clockFed, payload, payloadLen>>

\* The whole payload is written; or there is none, and nothing is.
IcuWriteable(i) ==
  /\ icu[i] = "pending"
  /\ icu' = [icu EXCEPT ![i] = "idle"]
  /\ inbox' = IF payloadLen > 0 THEN [inbox EXCEPT ![i] = Append(@, payload.no)]
                                ELSE inbox
  /\ UNCHANGED <<receiverVars, motorFed, clockFed, payload, payloadLen, protocol, joined>>

\* lws_write fails or is short: the callback returns -1, libwebsockets closes.
IcuWriteFails(i) ==
  /\ icu[i] = "pending"
  /\ payloadLen > 0
  /\ icu' = [icu EXCEPT ![i] = "down"]
  /\ UNCHANGED <<receiverVars, motorFed, clockFed, payload, payloadLen, protocol, joined, inbox>>

BrokenIcuClosed(i) ==
  /\ icu[i] # "down"
  /\ icu' = [icu EXCEPT ![i] = "down"]
  /\ protocol' = FALSE
  /\ UNCHANGED <<receiverVars, motorFed, clockFed, payload, payloadLen, joined, inbox>>

IcuClosed(i) ==
  /\ icu[i] # "down"
  /\ icu' = [icu EXCEPT ![i] = "down"]
  /\ UNCHANGED <<receiverVars, motorFed, clockFed, payload, payloadLen, protocol, joined, inbox>>

-----------------------------------------------------------------------------
Next ==
  \/ \E c \in Conn : \/ ControllerEstablished(c)
                     \/ ControllerClosed(c)
                     \/ \E n \in FragmentLen, final \in BOOLEAN : ControllerReceive(c, n, final)
  \/ \E i \in ICU : \/ IcuEstablished(i)
                    \/ IcuWriteable(i)
                    \/ IcuWriteFails(i)
                    \/ IcuClosed(i)

Safety == Init /\ [][Next]_vars

\* lws_service dispatches a writable callback it owes as soon as the socket takes
\* data; a socket that never does is closed by TCP.  Nothing obliges a controller
\* to send, an ICU to connect, or a connection that is owed nothing to close.
IcuServed(i) ==
  \/ IcuWriteable(i)
  \/ IcuWriteFails(i)
  \/ icu[i] = "pending" /\ IcuClosed(i)

Fairness == \A i \in ICU : WF_vars(IcuServed(i))

Spec == Safety /\ Fairness

-----------------------------------------------------------------------------
(* What must hold. *)

Fragment == [msg : 1..MaxMessages, no : 1..MaxFragments, at : Nat,
             size : FragmentLen, final : BOOLEAN]

\* The type invariant.
TypeOK ==
  /\ sent \in 0..MaxMessages
  /\ wire \in [Conn -> {NoMessage} \cup
                      [msg : 1..MaxMessages, count : 1..MaxFragments - 1, bytes : Nat]]
  /\ open \subseteq Conn
  /\ buf \in [Conn -> Seq(Fragment)]
  /\ len \in [Conn -> 0..MaxFrameLen]
  /\ since \in [Conn -> 0..MaxMessages]
  /\ alone \in BOOLEAN
  /\ motorFed \subseteq 0..MaxMessages
  /\ clockFed \subseteq 0..MaxMessages
  /\ payload \in [no : Nat, frame : Seq(Fragment)]
  /\ payloadLen \in {0, 1}
  /\ protocol \in BOOLEAN
  /\ icu \in [ICU -> {"down", "idle", "pending"}]
  /\ joined \in [ICU -> Nat]
  /\ inbox \in [ICU -> Seq(Nat)]

\* A run of fragments that follow each other in one message.
Contiguous(f) ==
  \A k \in 1..Len(f) - 1 :
    /\ f[k + 1].msg = f[k].msg
    /\ f[k + 1].no = f[k].no + 1
    /\ f[k + 1].at = f[k].at + f[k].size
    /\ ~f[k].final

End(f) == f[Len(f)].at + f[Len(f)].size
Bytes(f) == IF f = <<>> THEN 0 ELSE End(f) - f[1].at

\* However fragments of several connections interleave, and wherever a session
\* ends or a frame is dropped, what is published is the end of one message in one
\* piece: never fragments of two messages, never a message without its end.
FrameIsMessageTail ==
  payload.no > 0 =>
    /\ payload.frame # <<>>
    /\ Contiguous(payload.frame)
    /\ payload.frame[Len(payload.frame)].final

\* A published frame lacks the head of its message only if the message is longer
\* than the receive buffer: a message that fits is never cut.
OnlyOversizeIsCut ==
  payload.no > 0 =>
    \/ payload.frame[1].at = 0
    \/ End(payload.frame) > MaxFrameLen

\* session->len counts exactly the bytes of the message in progress that session->buf
\* holds, and they fit: memcpy never runs past MAX_CONTROLLER_FRAME_LEN.
LenCountsBuffer ==
  \A c \in open : /\ len[c] = Bytes(buf[c])
                  /\ len[c] <= MaxFrameLen

\* The newest frame an ICU has received, or that was there before it connected.
Seen(i) == IF inbox[i] = <<>> THEN joined[i] ELSE inbox[i][Len(inbox[i])]

\* No wake-up is lost: an ICU that has not seen the newest frame has a writable
\* callback coming, whenever it connected and whatever was dropped in between.
NeverForgotten ==
  \A i \in ICU : icu[i] = "idle" /\ payloadLen > 0 => Seen(i) = payload.no

\* Nothing stale and nothing twice: what an ICU receives was published after it
\* connected, and every write is newer than the one before.
OnlyNews ==
  \A i \in ICU :
    /\ \A k \in 1..Len(inbox[i]) : joined[i] < inbox[i][k]
    /\ \A j, k \in 1..Len(inbox[i]) : j < k => inbox[i][j] < inbox[i][k]

\* With one controller at a time, as the code assumes, the motion history, the
\* filter and the clock-offset window that a session's frames meet hold nothing of
\* an earlier session, nor of the warm-up inference.
SessionIsolation ==
  alone => \A c \in open, m \in motorFed \cup clockFed : m > since[c]

\* An ICU that stays connected catches up with every frame published, unless an empty
\* frame takes the payload away first.
CatchesUp ==
  \A i \in ICU, n \in 1..MaxMessages :
    (icu[i] # "down" /\ payload.no = n) ~> (icu[i] = "down" \/ Seen(i) >= n \/ payloadLen = 0)

\* The ICU side is a relay of the latest frame.
Relay == INSTANCE LatestFrameRelay
           WITH Client <- ICU,
                latest <- payload.no, live <- payloadLen > 0,
                up <- {i \in ICU : icu[i] # "down"}
RefinesRelay == Relay!Spec

-----------------------------------------------------------------------------
(* What the documentation says, and the code does not do. *)

\* controller_receiver.cpp:56 and bridge_server.h:26: a frame that exceeds the buffer
\* is dropped, and only a real controller frame is ever sent.
WholeFramesOnly == payload.no > 0 => payload.frame[1].no = 1

\* bridge_server.h:20: a frame is forwarded immediately to every connected ICU client.
EveryFrameDelivered ==
  [][\A i \in ICU : inbox'[i] # inbox[i] /\ inbox'[i] # <<>> => Seen(i)' = Seen(i) + 1]_vars
=============================================================================
