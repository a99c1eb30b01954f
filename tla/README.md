# ControllerBridge: TLA+ models, model checking and proofs

ControllerBridge runs on an i.MX8MP board. A controller sends joystick frames to it over
WebSocket; it stamps each with timing fields, runs an LSTM on the NPU to turn the joystick's
motion into four motor positions, adds these, and hands the frame to every ICU client that is
connected. Everything happens in one process on one thread: `lws_service` calls the handlers
of two listeners one at a time. There are no threads, so no data races. What is hard is the
**order** in which callbacks come, and the **state** they leave in a dozen globals and
buffers for each other: fragments of several messages interleave; a session ends in the middle of a
message; a frame is published while a callback for the one before it is still due; each of five
operations on the text of a frame may fail on its own; estimators survive the session that fed
them; the clock may be set back. And the process dies and is started again, at any step, over a log
file and a pin that outlive it.

This directory models that. TLC checks the models on small instances, and TLAPS proves
every safety property that the runs find to hold, for all values of the constants.

## The system

| part | source (`src/src/`) | state | operations | hard behaviour |
|---|---|---|---|---|
| controller receiver | `controller_receiver.cpp` | `controller_session_t` (`buf`, `len`) per connection | established, receive (a fragment), closed | overflow in mid-message; fragments of several connections interleave; a session ends in mid-message; what the reset on connect must clear |
| bridge server | `bridge_server.cpp` | `s_payload`, `s_payload_len`, `s_protocol`, and libwebsockets' list of callbacks due | `callback_icu` (established, writeable, closed), `bridge_server_forward` | one buffer shared by all ICUs and overwritten while callbacks are due; connects and disconnects in between; partial failure of `forward` |
| frame bridge | `frame_bridge.cpp` | none: functions over a text buffer | extract, stamp, append, reformat | capacity; number buffers; keys without numbers; the caller's length against the real one |
| clock offset | `clock_offset.cpp` | `g_samples`, a deque | correct, reset | samples that expire exactly at the window; a clock set back |
| motor inference | `motor_inference.cpp` | interpreter and its variable tensors, filter, `g_lpf_initialized` | init, reset, compute | `Invoke` fails half-way through the pipeline; what a reset must clear |
| controller pipeline | `controller_pipeline.hpp` | `HistoryWindowBuilder`, `CascadedEMA` | Build, Reset, Step; rounding, quantization, angles | off-by-one of a sliding history; padding |
| frame statistics | `frame_stats.cpp` | window of 100 frames | record | the turn of a window |
| timing log | `timing_log.cpp` | a CSV file | init, record, close | header exactly once over restarts and crashes |
| GPIO marker | `gpio_toggle.cpp` | a pin | init, set | left high by a crash |
| process life cycle | `main.cpp`, `systemd/controller-bridge.service` | `s_running` | start-up, signals, service loop, shutdown, restart | order of initialisation; kill or stop at any point; what may fail without taking the bridge down |

How they interact. `callback_controller` collects the fragments of a message in the session's
buffer, and with the last of them calls `bridge_server_forward`. That calls
`bridge_extract_joystick` and `motor_inference_compute` first, then `bridge_stamp_frame` (the
only failure that drops the frame), `frame_stats_record`, `clock_offset_correct`,
`timing_log_record`, `bridge_append_field`, `bridge_reformat_joystick` and
`bridge_append_motor_fields`, writes `s_payload_len` and asks for a writable callback on all
connections of the ICU protocol. A new controller connection calls `motor_inference_reset` and
`clock_offset_reset`. The WRITEABLE callback of an ICU, whenever it comes, writes what is in
`s_payload` **then**.

What makes them correct:

* receiver: what is forwarded is one message in one piece, whole if it fits; the length is
  that of what the buffer holds; a session's frames meet no state of an earlier session;
* server: an ICU receives each frame at most once and in order, nothing published before it
  connected, and is never left idle without the newest frame;
* frame bridge: the length published is the length of the text and within the buffer; nothing
  is left out for want of space; the fields of one frame agree with each other; a dropped
  frame does no harm to the one before;
* clock offset: never negative; the deque is the rolling window;
* motor inference: history, window, filter and model state are functions of the present
  session alone, whichever inferences fail;
* numbers: rounding is to the nearest and ties to the even, quantization saturates, the bend
  asked of the robot is never beyond its limit;
* statistics: a report is about exactly one window's frames, and windows neither overlap nor leave gaps;
* log: the header is there once and first, and no row that was recorded is lost by any kill;
* marker: high exactly while a frame is in the works, and not left high for ever by a kill;
* life cycle: nothing is served before what it needs is set up; a stop is honoured and anything
  else recovered from; what is only for diagnosis never takes the bridge down.

## The modules

| module | models | is |
|---|---|---|
| `LatestFrameRelay` | what the ICU side promises | abstract specification |
| `ControllerBridge` | `controller_receiver.cpp`, `bridge_server.cpp` as state machines | the core |
| `ControllerBridgeProofs` | | proofs: types, reassembly, sessions, the ICU side and the refinement |
| `FrameBridge` | the functions of `frame_bridge.cpp` | operators |
| `ForwardFrame` | `bridge_server_forward` as a chain of those | state machine |
| `ForwardFrameProofs` | | proofs: the capacity of the payload buffer, the length published, the fields, drops, empty frames |
| `RollingMinimum` | what `clock_offset.h` promises | abstract specification |
| `ClockOffset` | `clock_offset.cpp` | state machine |
| `ClockOffsetProofs` | | proofs: the window, its minimum, and the refinement |
| `MotorInference` | `motor_inference.cpp` with history and filter of `controller_pipeline.hpp` | state machine |
| `MotorInferenceProofs` | | proofs: types, window, output and model state of one session, the history as the last anchors of the whole motion |
| `PipelineMath` | the functions of `controller_pipeline.hpp` that keep no state | operators |
| `PipelineMathProofs` | | proofs: rounding, quantization and bend, for every number |
| `FrameStats` | `frame_stats.cpp` | state machine |
| `FrameStatsProofs` | | proofs: types, least, greatest and sums of a report, sequence of the windows |
| `RunningSum` | the sum of consecutive values, which averages and distances along a path are defined by | operator |
| `RunningSumProofs` | | proofs: what the sum depends on; induction |
| `TimingLog` | `timing_log.cpp`: file, stream and buffer | actions |
| `GpioMarker` | `gpio_toggle.cpp`: pin, export and `g_ready` | actions |
| `CaptureLog` | what `timing_log.h` promises of the file over all runs | abstract specification |
| `BridgeProcess` | `main.cpp` under systemd, with log and marker | state machine composed of the two |
| `BridgeProcessProofs` | | proofs: safety of the life cycle, and that the file is a `CaptureLog` |
| `MC...` | instances of each for TLC | |

A definition whose name begins with `Broken` is never used by a model. It is the definition
after it with a mistake in it that a change to the code might make (a dropped reset, an
off-by-one, a length kept that has changed); put in place of the right one, it makes TLC find
a property violated. So every property is known to say something about the code.

### ControllerBridge

A callback is an action, since callbacks do not interrupt each other. The state is that of the C code,
plus ghost variables for what happens outside of it:

| model | code |
|---|---|
| `open`, `buf`, `len` | connections, `session->buf`, `session->len`; `buf` is the sequence of fragments whose bytes it holds |
| `wire`, `sent` | the sender's side: the message a connection is in the middle of (`lws_is_first_fragment`, `lws_is_final_fragment`), messages begun |
| `motorFed`, `clockFed` | which messages the state behind `motor_inference` and `clock_offset` was computed from; 0 is the warm-up `Invoke` |
| `payload`, `payloadLen`, `protocol` | `s_payload`, `s_payload_len` (zero or not), `s_protocol` |
| `icu[i]` | `"pending"` while libwebsockets owes ICU `i` a writable callback |
| `joined`, `inbox` | ghost: the newest frame when `i` connected, what `i` has received since |
| `since`, `alone` | ghost: messages begun before the session was, whether sessions have not overlapped |

`ControllerReceive` is the whole RECEIVE case: choice of the buffer's length by the first fragment,
the overflow check, the copy, on the last fragment `Forward` and the reset of the length.
`Forward` is `bridge_server_forward` up to the text of the frame: it chooses freely among the
outcomes `ForwardFrame` allows (published, dropped by the stamp, inference done or not), so
what holds here holds for every text. That nothing else can come out is `OnlyEmptyClears` and `DropLeavesPayload` of
`ForwardFrame`: a frame is dropped and leaves the payload as it was, or its length is 0 if it was empty and above 0 if it was not. An empty message takes a branch of its own, because the code publishes length 0
for it, and a WRITEABLE callback with length 0 writes nothing.

`LatestFrameRelay` says what an ICU may rely on, in five actions and without a word about
callbacks: frames are numbered; a client that joins gets only frames from then on, each at
most once and in order; it may miss frames that were superseded; while it stays it catches
up. `RefinesRelay` maps `latest` to the number of the frame in `s_payload`, `live` to
`s_payload_len > 0` and `up` to the connections. Publishing a frame is `Publish`, an empty message is `Clear`, a
write is `Deliver`, and everything the receiver does before its last fragment is a stutter.

### FrameBridge and ForwardFrame

The text of a frame is abstracted to what the functions decide on: its length, which keys are
in it, for each the blanks before and the width of its value and where the digits come from,
and whether there is a `}`. Every `snprintf` into a small buffer is a comparison of a width with
the buffer; every splice is arithmetic on lengths, with the lengths of the literals in the code.
`Done(n, buf)` and `Failed(buf)` are the two ways a C function returns; **both** carry the
buffer, because a failing function may have written to it. `Forward` is the chain in
`bridge_server_forward`, with `LenAfter` for "keep the old length if it failed". If the
caller's length is not that of the text, whether there is a `}` among the first `n` bytes depends on bytes that are not
modelled; an input decides.

### ClockOffset

Time is an integer, transfer times are a small set of integers (the code uses doubles; only their order and
differences matter to the properties, and rounding of a difference `t - min` with `min <= t`
does not make it negative). The clock is `CLOCK_REALTIME`, so `SetBack` is an action: the
deque is then not sorted, and samples may outlive the window. `RollingMinimum` is the promise
of the header: as long as the clock has not been set back since the last reset, the answer is
`t` minus the least of **all** samples of the window; after a set-back, only that it is not
negative. `ClockOffset` implements it.

### MotorInference

A sample has a position on a line; the plane and the trigonometry of the code enter the
history only by the distance between two samples. The network is any function: a prediction is
chosen freely, and `Invoke` may fail, with or without having touched the variable tensors.
`lstm` is the set of sessions that have reached them. A stage of the filter moves to anywhere between
its value and its input, as `y + alpha * (s - y)` does for every `alpha` between 0 and 1.
`Initialize` is `motor_inference_init`, with and without the NPU, whose warm-up inference goes through the
model as session 0, and which may fail on either side of it; then the process gives up (`status`). The
ghosts `path` and `predicted` hold the session's whole motion and predictions, and the properties compare
the state kept step by step with what these define.

`motor_inference_reset` relies on `ResetVariableTensors`; whether the NPU delegate keeps a
copy of the LSTM state of its own is outside of this code, and the model takes the call at its word.

### PipelineMath

The pure functions between the stick and the network, in exact integers: a real number is an integer in
units its caller chooses, and a quotient is compared, not computed. The code's floats are off from that
in their last places. `Rem2` is the remainder of C, negative for negative numbers, on which
`RoundHalfToEven` decides its ties; `Int8` wraps around as the cast does, so that a `Clamp` forgotten
shows. With the scale and zero point of the code's model, int8 reaches from about -53.3 to 59.0 degrees:
a stick deflected further, up to 90 degrees, saturates. An angle is
the direction of a point, so `BendWithinLimit` needs no trigonometry: the run takes positions whose radius is whole.

### FrameStats

`frame_stats_record` as one action. The window is not a sliding one: 100 frames are collected, printed
and forgotten. Nothing else resets it, in particular no session does, so one report may be about
two controllers. Times may be negative, which is why a maximum that started at 0 would be wrong. The ghost
`history` has every frame, and the properties compute each report from it.

### BridgeProcess

`pc` is where `main()` stands, each place one call that may fail or be cut short: arguments, model, log,
pin, signal handlers, context, the two listeners, `bridge_server_start`, then the loop, which is either
about to look at `s_running` (`"loop"`) or in `lws_service` (`"service"`). A frame's handler is three places
(`"forward"`, `"flush"`, `"lower"`), because a kill between them is what matters to log and pin.

| model | code |
|---|---|
| `args` | `argv`: how many there are decides about TLS and the log, since they are positional |
| `unit`, `stopping`, `Start`, `End` | `Restart=on-failure`: started again unless it returned 0, died of SIGTERM or was being stopped |
| `running`, `handlers` | `s_running`; whether `handle_signal` is installed. Before, SIGTERM kills |
| `log`, `stream`, `buffered` | the file at the log's path, `s_file`, and what stdio holds for it |
| `pin`, `exported`, `ready` | the kernel's, which survive the process, and `g_ready`, which does not. Writing `out` to `direction` drives the pin low |
| `recorded`, `intact`, `asked`, `markerErr` | ghost: frames whose `timing_log_record` has returned; nothing was taken from the disk; somebody asked for a stop; a write to the pin has failed |

`Main` is what the process does by itself, `Environment` what happens to it. Faults are bounded together by
`MaxFaults`: a call of start-up that fails, a write to the pin that fails, `Killed` (SIGKILL, a crash),
`PowerCut` (the file keeps a prefix of itself, its last piece perhaps torn, and the board boots into the
service) and `Wipe`, which is what the deployment's clean-up does to a running bridge: the directory
goes, the open stream goes on writing to a file without a name (`"detached"`), and nothing starts until `Redeploy`.
A stop, an interrupt and a start are no faults, and not bounded.

`CaptureLog` has three actions: a header is written to an empty file, a row with a number greater than
all before it is appended, or the storage loses an end. `KeepsCapture` says that every process of
every run together do only that. Since storage may lose an end at any time, it is `RowsSurvive` that finds a lost row;
and where a torn end is followed by a new row, neither says what becomes of the line they share.

## The runs

| run | question | instance |
|---|---|---|
| `receiver` | reassembly and isolation of sessions: `FrameIsMessageTail`, `OnlyOversizeIsCut`, `LenCountsBuffer`, `SessionIsolation` | 2 connections, 2 messages of up to 3 fragments of 0 to 2 units, a buffer of 2 units |
| `relay` | the ICU side: `OnlyNews`, `NeverForgotten`, `CatchesUp`, `RefinesRelay` | 2 ICUs, 1 connection, 3 messages of one fragment, empty ones among them |
| `frame_text` | the text: `LengthIsText`, `NothingLeftOutForSpace`, `FieldsAgree`, `DropLeavesPayload`, `OnlyEmptyClears` | the code's own lengths 512 and 1024; frames of every shape, short and of the greatest length; numbers of usual width, of the widest that fits and one wider; two frames in a row |
| `clock_window` | the deque: `NeverNegative`, `WindowComplete`, `ImplementsRollingMinimum` | window 2, clock to 4, transfer times -1..1, at most 3 samples in the deque |
| `motor_sessions` | sessions: `HistoryIsLastAnchors`, `WindowOfSession`, `OutputWithinSession`, `ModelOfOneSession` | window of 3, anchors 2 apart, 3 positions, 3 predictions, 2 sessions of up to 5 samples |
| `process_life` | the life cycle: `RowsSurvive`, `MarkerMeansFrame`, `ServedWhenReady`, `KeepsCapture`, `DiagnosticsNeverFatal`, and for liveness `StopIsHonoured`, `ServesAgain`, `MarkerGoesLow` | 5 lists of arguments, 3 frames, 3 faults; 110 816 states |
| `stats_window` | reports: `ReportExtremes`, `ReportSums`, `WindowsTile` | windows of 3, 7 frames, transfer times of either sign; 335 923 states |
| `pipeline_numbers` | `RoundsHalfToEven`, `QuantizesToNearest`, `BendWithinLimit` | each half step from -204 to 204 steps and its neighbours, at the code's scale; sticks to 4/3 of full deflection |
| `oversize_tail`, `conflation`, `half_reformatted`, `untimed_recorded` | what the documentation says and the code does not do (below) | the least instance that shows it |

Why the bounds are enough. A buffer of 2 with fragments of 0 to 2 and up to 3 fragments has
messages that fit, fit exactly, overflow with a fragment to come after the overflow and with two, and a message
that overflows in its last fragment; two connections are enough to interleave, and two messages for one to
follow the other on either connection, with a close and a reconnect between. Three frames let an ICU
miss one, get one and be owed one; two ICUs are enough for one to capture `s_protocol` and
leave before the other comes. In `frame_text` the first frame is one of a few, the second is
anything: the state between frames is only the payload. A clock to 4 with a window of 2 has samples younger
than, exactly at, and past the window, and set-backs in each place. A history of 2 anchors
overflows with the third, at the 4th sample at the earliest (the first is never an anchor), and the 5th shows the window built from it.
Three faults and three frames leave a pin high by a kill and have the next process fail to start or the power
go, with a frame in the works each time; the five lists of arguments are the unit file's, one without a log,
none at all, and two that are refused. Seven frames are two windows of three and the beginning of a third. Half steps to 408 go beyond both
ends of int8 (-121 and 134 steps) and of the stick (90 degrees are about 102 steps).
The bounds `MaxMessages`,
`MaxFragments`, `MaxFrames`, `MaxFaults`, `MaxTime`, `MaxSamples`, `MaxSessions` exist only to make the
instances finite; deadlock is checked in all runs, and `Quiet`, where a module has it, is the state where a bound is used up
or the process has given up.

Symmetry is used in the runs with invariants only, since connections and ICU clients have no
identity in the code; `relay` checks liveness and uses none.

Fairness. `CatchesUp` and `RefinesRelay` assume, for each ICU that is owed a writable
callback, weak fairness of "the callback comes, or the connection goes" (`IcuServed`): `lws_service` polls for a callback it owes for as
long as the socket is open, and a socket that takes no data for ever is closed by TCP. Nothing
is assumed about controllers: they need not send, ICUs need not connect, and a connection that is owed nothing may stay for ever.
`BridgeProcess` assumes that `main()` runs on whenever it can (`WF(Main)`: it waits for nothing but
`lws_service`), that systemd restarts a unit that is due (`WF(Start("restarting"))`), and that `lws_service` returns even if frames come without
end (`SF(ServiceReturns)`): one call serves what one poll found, or waits for at most a second, and
the handlers it calls in between are steps of `Main`. Strong fairness is
what this needs, since in the model a call that goes on serving frames is not at `"service"` all the time. Nothing is
assumed of `Start("inactive")`, of stops, or of `Redeploy`. All other runs are about safety and assume no fairness.

## What the code does not do as documented

* **`oversize_tail`** `controller_receiver.cpp:55-60` logs "controller frame exceeds
  %d-byte buffer, dropping" and sets `session->len = 0`, but nothing marks the message as
  dropped. Fragments after the overflow start to fill the buffer again, and the tail of the
  message is forwarded as a frame. What does hold is proved: it is a tail in one piece, and only a
  message that is too long can be cut so.
* **`half_reformatted`** `frame_bridge.h:97-98` says of `bridge_reformat_joystick` that "buf is
  left unmodified" when it fails. It replaces x, then y in the same buffer, and fails between
  the two when y is as wide as 32 bytes with `%.8f`; `bridge_server_forward` goes on with the
  length it had before x was replaced. Joystick values in [-1, 1] never do that, and run `frame_text` assumes them for `LengthIsText`.
* **`untimed_recorded`** `frame_bridge.h:39-42` asks the caller to treat a frame without a send
  time as one without timing data. `bridge_server_forward` gives the default 0.0 to the
  statistics, the offset window and the log. (In the offset window, 0 may become the minimum.)
* **`conflation`** `bridge_server.h:21-22` says that a frame is immediately forwarded to every
  connected ICU. There is one payload buffer; a frame that comes before an ICU's socket was
  served replaces the one before it, and that one is never sent.
* Without runs of their own, but stated in properties that hold:
  * `controller_pipeline.hpp:82-83` says that an anchor is stored "only once the accumulated (u, v)-space arc
    length since the last stored anchor exceeds anchor_distance"; line 124 compares with `>=` and stores one at exactly the
    distance, too. `AnchorsOf`, and so `HistoryIsLastAnchors` and its theorem, follow the code. Run `motor_sessions` reaches
    the case (positions are whole, the distance is 2), and passes because the property is stated so, not
    because code and comment agree.
  * `frame_bridge.h:24-25` says that the `frame_transfer_time` added is T1 - T0. Behind a send-time key without a
    number (`null`, a string), 0.0 is read for T0, and text, statistics, offset window and log are given T1 itself, about 1.7e9; so
    even if the frame has a readable `timestamp` beside an unreadable `ntp_time`. What stood behind the key ends up
    behind the receive time as text (`StampedValues`). `FieldsAgree` names this case, and says of it only that all
    four are given the same.

Observations that no run claims as a violation:

* `clock_offset.h:31-34` allows for a
  negative result when the offset has decreased, and `NeverNegative` shows that there is none,
  because the sample itself is in the window.
* A `kill` of the process before `handle_signal` is installed ends it as systemd expects; one that is
  handled, when a listener then cannot be created, ends in a restart that knows nothing of it
  (`ServesAgain` and `MarkerGoesLow` speak of `asked` for that reason, and `StopIsHonoured` of `systemctl stop`).
* Arguments are positional: a model path, `"cpu"` or a log path can only be given together with
  certificate and key (`Tls`, `Logging`).
* A header torn by a loss of power is never written again, since the file is no longer empty (`NeedsHeader`);
  `CaptureLog` allows it as the end of a file that lost something.
* Two controller sessions that overlap feed each other's estimators. What `SessionIsolation` says is that
  isolation is regained by the next session that begins with no other open.

## What is proved

Of the core, for any sets of connections and ICUs (finite or not), any buffer size, any set of fragment lengths and any bounds, from
`BoundsAssumption` (the numeric constants are naturals) alone:

| theorem | says |
|---|---|
| `TypeCorrect` | `TypeOK`; in particular `session->len` never exceeds `MAX_CONTROLLER_FRAME_LEN` |
| `FramesAreMessageTails` | `FrameIsMessageTail`: a published frame is a run of fragments of one message without a gap, up to the message's end |
| `NothingThatFitsIsCut` | `OnlyOversizeIsCut` |
| `LengthCountsBuffer` | `LenCountsBuffer` |
| `SessionsAreIsolated` | `SessionIsolation` |
| `ClientsGetOnlyNews` | `OnlyNews` |
| `ClientsAreNeverForgotten` | `NeverForgotten` |
| `BridgeIsRelay` | `Spec => Relay!Safety`, the safety half of `RefinesRelay` |
| `BehindIsOwed`, `ServingIsRelaying` | what the liveness half rests on: a client of the relay is behind exactly while the server owes it a callback and has something to write, and serving it then is `Deliver` or `Leave` |

Of `ForwardFrame`, for every set of raw frames and of widths that `InputAssumption` describes:

| theorem | says |
|---|---|
| `TypeCorrect` | `TypeOK` |
| `PublishedLengthIsText` | `LengthIsText` |
| `BufferIsLargeEnough` | `NothingLeftOutForSpace` |
| `PublishedFieldsAgree` | `FieldsAgree` |
| `DropsLeavePayload` | `DropLeavesPayload` |
| `OnlyEmptyFramesClear` | `OnlyEmptyClears` |

all but the last two under two hypotheses stated in `ForwardFrameProofs`: `RoomForAll`, that the payload buffer
is larger than the receive buffer by the 255 + 65 + 60 + 106 = 486 bytes that the bridge adds at most (in the code it
is larger by 512), and `JoystickFits`, that `%.8f` of a joystick value fits 32 bytes. Without the second
`LengthIsText` is false, as run `half_reformatted` shows.

Of the components around it:

| module | theorem | says | for every |
|---|---|---|---|
| `ClockOffset` | `TypeCorrect`, `CorrectedNeverNegative`, `DequeIsWindow` | `TypeOK`, `NeverNegative`, `WindowComplete` | window, transfer times, length of the deque |
| `ClockOffset` | `Implements` | `ImplementsRollingMinimum`, in full | the same |
| `MotorInference` | `TypeCorrect`, `WindowsAreOfSession`, `OutputsAreWithinSession`, `ModelIsOfOneSession`, `HistoryIsOfAnchors` | `TypeOK`, `WindowOfSession`, `OutputWithinSession`, `ModelOfOneSession`, `HistoryIsLastAnchors` | window length, anchor distance, positions, predictions, sessions |
| `PipelineMath` | `RoundsToNearest`, `QuantizesNearest`, `BendOfStick` | what the run checks | number, scale, zero point; position, scale, limit |
| `PipelineMath` | `RunRounds`, `RunQuantizes`, `RunBends` | `RoundsHalfToEven`, `QuantizesToNearest`, `BendWithinLimit` | number and position of the specification, at the code's scale and limit |
| `FrameStats` | `TypeCorrect`, `ReportsAreExtremes`, `ReportsAreSums`, `WindowsFollow` | `TypeOK`, `ReportExtremes`, `ReportSums`, `WindowsTile` | window length, times less than `DBL_MAX` |
| `BridgeProcess` | `TypeCorrect`, `RecordedRowsSurvive`, `MarkerTells`, `ReadyBeforeServing`, `NeverFatal` | `TypeOK`, `RowsSurvive`, `MarkerMeansFrame`, `ServedWhenReady`, `DiagnosticsNeverFatal` | argument lists, frames, faults |
| `BridgeProcess` | `CaptureKept` | `KeepsCapture`: the file is a `CaptureLog` | the same |

Each from the named assumption of its module alone.

The argument for **reassembly** (`ReassemblyInv`): none of the properties is inductive, since
each speaks of the published frame or of a length, and says nothing of the buffer it came from. `BufferInv`
adds what the buffer holds between two fragments: a gapless piece of the message in progress that ends exactly
where the message stands (`End(buf) = wire.bytes`), and if its head, or all of it, is missing, more bytes have arrived than
the buffer can hold. Appending the next fragment extends such a piece
(`AppendFragment`, `FillBuffer`); an overflow empties it at a point where more than
`MaxFrameLen` bytes have come, which is why only long messages are cut.

For **sessions** (`SessionInv`): a message in progress was begun within the session it arrives
on (`OwnMessages`), and while no two sessions have overlapped at most one is open
(`OneSession`), so what the estimators are fed belongs to that one. The second part is needed
because the resets are global: with two sessions open, a frame of one feeds the state of the other, and isolation fails.

For the **ICU side** (`ServerInv`): an ICU whose callback is due has seen something older than
the payload (`Owed`), one that is idle has seen the payload (`CaughtUp`), both only while there is a
payload, and nothing seen is newer than it (`Fresh`). `ProtocolKnown`, that `s_protocol` is set
once any ICU is connected, is what makes the wake-up reach all of them. `Owed` is what makes
every write a `Deliver` of the relay, which is allowed only news.

For the **text**, each operation is shown to return the length of the text it leaves, and to
add no more than its share of the room (`Stamped`, `Corrected`, `Reformatted`,
`MotorAppended`); `PublishedText` puts the chain together. The share of the joystick depends on its numbers
being at least one byte wide, and both fitting the frame beside the send time, which is
why `IsRawFrame` says that the parts of a frame do not overlap.

That its **fields** agree (each timing field there or not with the send-time key, and the transfer time in the text the one
recorded: T1 - T0, T1 where no T0 could be read, 0.0 without a key) follows the same chain: only the stamp writes the timing keys and `ntp_time`
(`StampKeys`), so what holds of them when it returns (`StampTimes`) holds of what is published.

For an **empty frame** the two hypotheses are not needed, and the length is followed even where it is not that of the text:
the keys of a frame and their colons leave more room than its joystick values take (`JoystickTakesLess`), so a length that is
above 0 behind the stamp stays so whichever values are replaced and whichever are not (`ReformattedLength`).
A frame of length 0 has neither key nor `}`, and nothing can be added to it.

For the **clock offset** the invariant (`Windowed`) is that the deque is in the order of time, holds
every recent observation and, of all observations, just those within the window of the latest one (`InWindow`); it holds as
long as the clock has only gone forward. Then the first
sample that has not expired has none that has behind it, so expiring from the front leaves just the window
(`CorrectWindow`). `WindowComplete` speaks of the latest observation and not of the present, because nothing expires in
between. That a minimum exists is not for free: `LeastValue` finds it as the value with
the fewest below it, by the well-foundedness of the naturals.

For **inference** the window and the output are properties of what they are made of, so the induction is
about the history (`HistoryInv`: anchors of this session, none the first sample, in order) and the two
stages of the filter (`FilterInv`: among this session's predictions once seeded). `StartInv` ties `has_first_` to
the samples seen; that the first sample is never an anchor rests on it, as the distance kept is 0 until then.

That the **history** is the last anchors of the whole motion (`AnchorInv`) needs more: `HistoryIsLastAnchors` defines the anchors
by recursion over the motion, by the way covered since the last one, whereas the code has only the distance it keeps. `AccumInv`
says that the distance kept is that way, from where the next anchor's way begins to the last sample. One sample then adds one
step to both (`ComputeAnchors`): it is an anchor in the code exactly if it is one by definition, the history moves up by one
(`LastAnchorsMove`) or stays (`LastAnchorsStay`), and the anchors of the samples before are what they were
(a longer motion has the same steps).

For the **statistics**, a report is right because the running values are right before it: `PendingExtremes` says
of every state between two reports that they are the extremes of the frames since, and `AddExtremes`
that `stat_add` keeps that, from the values `stat_reset` leaves, too. `PendingSums` says the same of the sums. Windows follow each other because the
count of a window is the remainder of the number of frames (`NextRemainder`).

Two definitions are **recursive functions**: the sum and the anchors. TLA+ defines such a function by a choice, so one first shows that
there is a function as described, and then that any two agree: for the sum, `RunningExists` and `RunningAgree`. Both are inductions over the natural numbers, stated
about a set instead of a predicate (`AllNaturals`, from the well-foundedness of the naturals). From there on the proofs only need that the
sum of nothing is 0 and that one more value adds itself (`SumOfNone`, `SumOfMore`), and the like for the anchors.

For the **bend**, the numbers are polynomials of degree four, which the provers do not handle unaided: products are
regrouped first (`SquareOfProduct`), and the distance from the centre enters only by its square (`IsRadius`).

For the **life cycle** the invariant is a table by `pc`: what start-up has done (`Order`), where the pin is
(`Marked`), what the stream's buffer holds (`Streams`: the frame's row at `"flush"`, nothing anywhere else, which
is why neither a kill nor the flush of `exit` writes half a row or one twice). The file itself is
treated in two steps: each of the twenty-odd actions changes it in one of four ways (`LogChange`), and each of those
keeps order and rows (`LogOrdered`, `RowsKept`).

Only model-checked: liveness (`CatchesUp` and the liveness half of `RefinesRelay`, `StopIsHonoured`, `ServesAgain`,
`MarkerGoesLow`), which needs fairness and `ENABLED`, both out of reach of the proof system. For `RefinesRelay` the part without fairness is proved (`BehindIsOwed`, `ServingIsRelaying`).

## Not modelled

Of `motor_inference_init` the single checks (loading the model, choosing a delegate, checking
tensor shapes) are reduced to whether it fails before or at the warm-up; the network, TensorFlow Lite, the NPU
delegate, libwebsockets and TLS are external, and modelled only by how the code uses them. The
formatting of numbers enters by its width, and floating point not at all: times and angles are integers.

Of the process: rows that a full disk cuts while the process lives on; a second instance run by hand beside the
service, which would append to the same file; failures that come back at every start (faults are bounded, and
systemd's limit on restarts with them). Build files, deployment and CI scripts have no behaviour to model
beyond the clean-up of the directory, which is `Wipe`.

## Plan

In the order of what matters most to the bridge; all of it is done.

1. `ControllerBridge` and `LatestFrameRelay`: reassembly, sessions, ICU side, their proofs.
2. `FrameBridge` and `ForwardFrame`: the text, its length and capacity, its fields.
3. `ClockOffset` and `RollingMinimum`, with the refinement proved.
4. `MotorInference`, with start-up.
5. `BridgeProcess` with `TimingLog`, `GpioMarker` and `CaptureLog`: start-up order, signals, the kill at any
   point and the restart, in one run with crashes.
6. `PipelineMath`: rounding, quantization, the transformation of the stick.
7. `FrameStats`: the window of 100 as a machine.
8. Proofs of all of these.
9. Proofs of `HistoryIsLastAnchors` and `ReportSums`, by induction over the recursive functions that define them, of
   `WindowsTile` and of `BendWithinLimit`.
10. That the free choice of `ControllerBridge` covers every outcome of `ForwardFrame`.
