---------------------------- MODULE BridgeProcess ----------------------------
(***************************************************************************)
(* main.cpp under systemd: start-up, service loop and shutdown of the      *)
(* bridge, one process after another, with what outlives a process: the    *)
(* timing log and the marker pin.                                          *)
(*                                                                         *)
(* A process may be killed between any two steps, told to stop at any      *)
(* time, and fail wherever main() checks for it; the log may be deleted    *)
(* with its directory, and the power may go.  Of a frame only its number   *)
(* and the steps of its handler that touch log and pin are kept.           *)
(*                                                                         *)
(* Definitions whose names begin with Broken are mistakes the properties   *)
(* would notice; the model does not use them.                              *)
(***************************************************************************)
EXTENDS TimingLog, GpioMarker

CONSTANTS Args,       \* the argument lists the unit may be installed with
          MaxFrames,  \* bound: frames that arrive
          MaxFaults   \* bound: failures, kills and losses of power

ASSUME FaultsAssumption == MaxFrames \in Nat /\ MaxFaults \in Nat

VARIABLES
  args,       \* argv[1], argv[2], ...
  unit,       \* systemd's view of the service: running, restarting or inactive
  stopping,   \* systemctl stop has been called on the running service
  deployed,   \* binary, model and certificates are in place
  pc,         \* where main() stands; "down" if there is no process
  running,    \* s_running
  handlers,   \* SIGINT and SIGTERM are handled
  model,      \* motor_inference_init has succeeded
  vhosts,     \* the listeners created
  started,    \* bridge_server_start has been called
  exit,       \* how the last process ended, "none" while there is one (ghost)
  markerErr,  \* a write to the pin has failed in this or the last process (ghost)
  asked,      \* a stop has been asked for since the unit was started (ghost)
  frames,     \* frames received so far (ghost)
  recorded,   \* frames whose timing_log_record has returned with a file open (ghost)
  intact,     \* the storage has lost nothing (ghost)
  faults      \* faults so far

mainVars == <<running, handlers, model, vhosts, started>>
ghosts == <<frames, recorded, intact>>
systemVars == <<args, unit, stopping, deployed>>
vars == <<logVars, gpioVars, systemVars, pc, mainVars, exit, asked, markerErr, ghosts, faults>>

Handling == {"forward", "flush", "lower"}
Serving == Handling \cup {"service"}

\* Both ports, if given, are in range, and certificate and key are given together.
ValidArgs ==
  /\ \A i \in 1..2 : Len(args) >= i => args[i] \in 1..65535
  /\ Len(args) # 3

\* Both listeners need certificate and key, if those are given.
Tls == Len(args) >= 4
Certified == deployed \/ ~Tls

\* The seventh argument, if given, is not empty.
Logging == Len(args) >= 7 /\ args[7] # ""

FreshProcess ==
  /\ running' = TRUE
  /\ handlers' = FALSE
  /\ model' = FALSE
  /\ vhosts' = {}
  /\ started' = FALSE

Init ==
  /\ log = <<>> /\ stream = "closed" /\ buffered = <<>>
  /\ pin = 0 /\ exported = FALSE /\ ready = FALSE
  /\ args \in Args
  /\ unit = "inactive" /\ stopping = FALSE /\ deployed = TRUE
  /\ pc = "down"
  /\ running = TRUE /\ handlers = FALSE /\ model = FALSE /\ vhosts = {} /\ started = FALSE
  /\ exit = "none" /\ asked = FALSE /\ markerErr = FALSE
  /\ frames = 0 /\ recorded = {} /\ intact = TRUE
  /\ faults = 0

Fault == faults < MaxFaults /\ faults' = faults + 1

\* Nothing happens to what the process has, nor to what outlives it.
Undisturbed == UNCHANGED <<logVars, gpioVars, mainVars, markerErr, ghosts>>

-----------------------------------------------------------------------------
(* The end of a process.  Restart=on-failure: systemd starts it again unless it     *)
(* returned 0, died of SIGTERM, or was being stopped.                               *)

End(how) ==
  /\ pc' = "down"
  /\ exit' = how
  /\ unit' = IF stopping \/ how \in {"returned 0", "SIGTERM"} THEN "inactive" ELSE "restarting"
  /\ stopping' = FALSE
  /\ ready' = FALSE
  /\ FreshProcess
  /\ UNCHANGED <<args, deployed, pin, exported, markerErr, ghosts>>

Return(status) == CloseLog /\ UNCHANGED asked /\ End(IF status = 0 THEN "returned 0" ELSE "returned 1")

-----------------------------------------------------------------------------
(* main(), up to the loop *)

At(here) == pc = here /\ UNCHANGED <<systemVars, exit, asked, ghosts>>
Goto(there) == pc' = there

CheckArgs ==
  /\ pc = "args"
  /\ IF ValidArgs
     THEN Goto("motor") /\ Undisturbed /\ UNCHANGED <<systemVars, exit, asked>>
     ELSE Return(1)
  /\ UNCHANGED faults

\* motor_inference_init loads the model file and, on the NPU, the delegate.
BrokenLoadModel ==
  /\ At("motor") /\ Goto("log")
  /\ \/ model' = TRUE /\ UNCHANGED faults
     \/ UNCHANGED model /\ Fault
  /\ UNCHANGED <<logVars, gpioVars, running, handlers, vhosts, started, markerErr>>

LoadModel ==
  /\ At("motor") /\ deployed /\ Goto("log")
  /\ model' = TRUE
  /\ UNCHANGED <<logVars, gpioVars, running, handlers, vhosts, started, markerErr, faults>>

LoadModelFails ==
  /\ pc = "motor"
  /\ Return(1)
  /\ IF deployed THEN Fault ELSE UNCHANGED faults

\* The result of timing_log_init is not looked at.
BrokenInitLog ==
  \/ /\ At("log") /\ Goto("gpio")
     /\ IF Logging /\ deployed THEN OpenLog ELSE UNCHANGED logVars
     /\ UNCHANGED <<gpioVars, mainVars, markerErr, faults>>
  \/ pc = "log" /\ Logging /\ Fault /\ Return(1)

InitLog ==
  /\ At("log") /\ Goto("gpio")
  /\ \/ Logging /\ deployed /\ OpenLog /\ UNCHANGED faults
     \/ Logging /\ deployed /\ Fault /\ UNCHANGED logVars
     \/ ~(Logging /\ deployed) /\ UNCHANGED <<logVars, faults>>
  /\ UNCHANGED <<gpioVars, mainVars, markerErr>>

\* Neither is that of gpio_toggle_init.
InitMarker ==
  /\ At("gpio") /\ Goto("signals")
  /\ \/ GpioInit /\ markerErr' = FALSE /\ UNCHANGED faults
     \/ GpioInitFails /\ markerErr' = TRUE /\ Fault
  /\ UNCHANGED <<logVars, mainVars>>

InstallHandlers ==
  /\ At("signals") /\ Goto("context")
  /\ handlers' = TRUE
  /\ UNCHANGED <<logVars, gpioVars, running, model, vhosts, started, markerErr, faults>>

CreateContext ==
  /\ At("context") /\ Goto("controller vhost")
  /\ UNCHANGED <<logVars, gpioVars, mainVars, markerErr, faults>>

CreateVhost(here, vhost, there) ==
  /\ At(here) /\ Certified /\ Goto(there)
  /\ vhosts' = vhosts \cup {vhost}
  /\ UNCHANGED <<logVars, gpioVars, running, handlers, model, started, markerErr, faults>>

\* No context, or no vhost, which needs its port, and certificate and key.
BrokenStartupFails ==
  /\ pc \in {"context", "controller vhost", "icu vhost"}
  /\ Return(0)
  /\ IF pc = "context" \/ Certified THEN Fault ELSE UNCHANGED faults

StartupFails ==
  /\ pc \in {"context", "controller vhost", "icu vhost"}
  /\ Return(1)
  /\ IF pc = "context" \/ Certified THEN Fault ELSE UNCHANGED faults

StartServer ==
  /\ At("start") /\ Goto("loop")
  /\ started' = TRUE
  /\ UNCHANGED <<logVars, gpioVars, running, handlers, model, vhosts, markerErr, faults>>

-----------------------------------------------------------------------------
(* The loop, and the handler of a frame *)

Loop ==
  /\ At("loop")
  /\ Goto(IF running THEN "service" ELSE "close")
  /\ UNCHANGED <<logVars, gpioVars, mainVars, markerErr, faults>>

\* lws_service has served what it found, or found nothing for a second.
ServiceReturns ==
  /\ At("service") /\ Goto("loop")
  /\ UNCHANGED <<logVars, gpioVars, mainVars, markerErr, faults>>

SetMarker(level) ==
  \/ GpioSet(level) /\ UNCHANGED <<markerErr, faults>>
  \/ GpioSetFails /\ markerErr' = TRUE /\ Fault

\* callback_controller has the last fragment of a frame.
FrameComplete ==
  /\ pc = "service" /\ frames < MaxFrames
  /\ frames' = frames + 1
  /\ SetMarker(1)
  /\ Goto("forward")
  /\ UNCHANGED <<logVars, systemVars, mainVars, exit, asked, recorded, intact>>

\* bridge_server_forward as far as it goes: it drops the frame, or prints its row.
BrokenForward ==
  /\ At("forward")
  /\ \/ Goto("service") /\ UNCHANGED logVars
     \/ Goto("flush") /\ PrintRow(frames)
  /\ UNCHANGED <<gpioVars, mainVars, markerErr, faults>>

Forward ==
  /\ At("forward")
  /\ \/ Goto("lower") /\ UNCHANGED logVars
     \/ Goto("flush") /\ PrintRow(frames)
  /\ UNCHANGED <<gpioVars, mainVars, markerErr, faults>>

FinishRow ==
  /\ pc = "flush"
  /\ FlushRow
  /\ recorded' = IF stream = "closed" THEN recorded ELSE recorded \cup {frames}
  /\ Goto("lower")
  /\ UNCHANGED <<gpioVars, systemVars, mainVars, exit, asked, markerErr, frames, intact, faults>>

FrameDone ==
  /\ At("lower") /\ Goto("service")
  /\ SetMarker(0)
  /\ UNCHANGED <<logVars, mainVars>>

\* timing_log_close
ShutDown ==
  /\ At("close") /\ Goto("destroy")
  /\ CloseLog
  /\ UNCHANGED <<gpioVars, mainVars, markerErr, faults>>

\* lws_context_destroy
Destroy == pc = "destroy" /\ Return(0) /\ UNCHANGED faults

Main ==
  \/ CheckArgs \/ LoadModel \/ LoadModelFails \/ InitLog \/ InitMarker
  \/ InstallHandlers \/ CreateContext \/ StartupFails
  \/ CreateVhost("controller vhost", "controller", "icu vhost")
  \/ CreateVhost("icu vhost", "icu", "start")
  \/ StartServer \/ Loop \/ Forward \/ FinishRow \/ FrameDone \/ ShutDown \/ Destroy

-----------------------------------------------------------------------------
(* systemd, the operator, and what may happen to the board *)

Start(from) ==
  /\ unit = from
  /\ deployed
  /\ unit' = "running"
  /\ pc' = "args"
  /\ exit' = "none"
  /\ asked' = (asked /\ from = "restarting")
  /\ Undisturbed
  /\ UNCHANGED <<args, stopping, deployed, faults>>

\* handle_signal, or what the kernel does as long as that is not installed
BrokenSignalled ==
  /\ pc # "down"
  /\ IF handlers
     THEN Undisturbed /\ UNCHANGED <<args, unit, deployed, pc, exit, faults>>
     ELSE DropStream /\ End("SIGTERM") /\ UNCHANGED faults
  /\ asked' = TRUE

Signalled ==
  /\ pc # "down"
  /\ IF handlers
     THEN /\ running' = FALSE /\ UNCHANGED <<handlers, model, vhosts, started>>
          /\ UNCHANGED <<logVars, gpioVars, args, unit, deployed, pc, exit, markerErr, ghosts, faults>>
     ELSE DropStream /\ End("SIGTERM") /\ UNCHANGED faults
  /\ asked' = TRUE

\* kill, or Ctrl+C
Interrupt == Signalled /\ (handlers => UNCHANGED stopping)

\* systemctl stop
Stop ==
  \/ /\ unit = "running" /\ ~stopping
     /\ Signalled
     /\ handlers => stopping' = TRUE
  \/ /\ unit = "restarting"
     /\ unit' = "inactive"
     /\ asked' = TRUE
     /\ Undisturbed
     /\ UNCHANGED <<args, stopping, deployed, pc, exit, faults>>

\* SIGKILL, a crash, or systemd at the end of its patience
Killed == pc # "down" /\ Fault /\ DropStream /\ End("killed") /\ UNCHANGED asked

\* The log's directory is deleted under the process; what it has open stays open.
Wipe ==
  /\ deployed /\ Fault
  /\ deployed' = FALSE
  /\ log' = <<>>
  /\ stream' = IF stream = "open" THEN "detached" ELSE stream
  /\ intact' = FALSE
  /\ UNCHANGED <<buffered, gpioVars, args, unit, stopping, pc, mainVars, exit, asked, markerErr, frames, recorded>>

Redeploy ==
  /\ ~deployed
  /\ deployed' = TRUE
  /\ Undisturbed
  /\ UNCHANGED <<args, unit, stopping, pc, exit, asked, faults>>

\* The board resets, keeps what it keeps of the file, and boots into the service.
Kept == INSTANCE CaptureLog WITH Frame <- 1..MaxFrames
PowerCut ==
  /\ Fault
  /\ log' \in Kept!Remains(log) /\ stream' = "closed" /\ buffered' = <<>>
  /\ pin' = 0 /\ exported' = FALSE /\ ready' = FALSE
  /\ unit' = "restarting" /\ stopping' = FALSE
  /\ pc' = "down" /\ exit' = "reset" /\ asked' = FALSE
  /\ FreshProcess
  /\ intact' = FALSE
  /\ UNCHANGED <<args, deployed, markerErr, frames, recorded>>

Environment ==
  \/ Start("inactive") \/ Start("restarting") \/ FrameComplete
  \/ Interrupt \/ Stop \/ Killed \/ Wipe \/ Redeploy \/ PowerCut

Next == Main \/ ServiceReturns \/ Environment

\* Main() runs on, lws_service comes back, whatever arrives, and systemd restarts the unit.
Fairness == WF_vars(Main) /\ SF_vars(ServiceReturns) /\ WF_vars(Start("restarting"))

Spec == Init /\ [][Next]_vars /\ Fairness

-----------------------------------------------------------------------------
(* What must hold. *)

Places == {"down", "args", "motor", "log", "gpio", "signals", "context", "controller vhost",
           "icu vhost", "start", "loop", "close", "destroy"} \cup Serving

\* The type invariant.
TypeOK ==
  /\ log \in Seq(-1..MaxFrames) /\ buffered \in Seq(1..MaxFrames)
  /\ stream \in {"closed", "open", "detached"}
  /\ stream = "closed" => buffered = <<>>
  /\ pin \in {0, 1} /\ exported \in BOOLEAN /\ ready \in BOOLEAN
  /\ args \in Args
  /\ unit \in {"running", "restarting", "inactive"} /\ stopping \in BOOLEAN
  /\ deployed \in BOOLEAN
  /\ pc \in Places /\ (pc = "down" <=> unit # "running")
  /\ running \in BOOLEAN /\ handlers \in BOOLEAN /\ model \in BOOLEAN /\ started \in BOOLEAN
  /\ vhosts \subseteq {"controller", "icu"}
  /\ exit \in {"none", "returned 0", "returned 1", "SIGTERM", "killed", "reset"}
  /\ markerErr \in BOOLEAN /\ asked \in BOOLEAN /\ intact \in BOOLEAN
  /\ frames \in 0..MaxFrames /\ recorded \subseteq 1..frames
  /\ faults \in 0..MaxFaults

\* timing_log.h: a row is flushed, so that a kill loses none.  Every frame recorded by any
\* process so far has its row in the file, however often the bridge was killed, stopped
\* and started again, as long as nobody deletes the file and the power stays on.
RowsSurvive == intact => \A n \in recorded : \E i \in 1..Len(log) : log[i] = n

\* And the file is what timing_log.h promises over all runs: a header first and once, rows
\* in order and once, nothing written over.
KeepsCapture == Kept!Spec

\* The pin marks the handler of a frame: where it has been written without an error it is
\* high from the last fragment to the end of the handler, dropped frames included, and low
\* all the rest of the time: in the loop, and after every process that returned 0, even one
\* that was told to stop in the middle of a frame or started with the pin left high.
MarkerMeansFrame ==
  ~markerErr =>
    /\ pc \in Handling => pin = 1
    /\ pc \in {"loop", "service", "close", "destroy"} => pin = 0
    /\ pc = "down" /\ exit = "returned 0" => pin = 0

\* Handlers run only in a process whose model is loaded, which listens to both sides, whose
\* server is set up, and which can be told to stop without breaking off.
ServedWhenReady ==
  pc \in Serving => model /\ started /\ handlers /\ vhosts = {"controller", "icu"}

\* What is only for diagnosis never takes the bridge down: a process that gives up does so
\* for its arguments, model, context or listeners, whatever became of log and pin.
DiagnosticsNeverFatal ==
  [][(pc' = "down" /\ exit' = "returned 1") =>
       pc \in {"down", "args", "motor", "context", "controller vhost", "icu vhost"}]_vars

\* systemctl stop ends in a process that is gone and not started again, also when it comes
\* during start-up or in the middle of a frame, unless the board is reset in between.
StopIsHonoured == stopping ~> (unit = "inactive" \/ exit = "reset")

\* A bridge that is started, and killed, or loses power, or fails to start, comes to serve
\* all the same, unless somebody asks it to stop, its files are gone, or it was installed with
\* arguments it does not accept.
ServesAgain ==
  unit # "inactive" /\ ~asked ~> (pc = "service" \/ asked \/ ~deployed \/ ~ValidArgs)

\* A pin that a killed process left high goes low with the next one, unless it was
\* asked to stop or cannot write to the pin.
MarkerGoesLow ==
  pin = 1 ~> (pin = 0 \/ asked \/ ~deployed \/ ~ValidArgs \/ markerErr)
=============================================================================
