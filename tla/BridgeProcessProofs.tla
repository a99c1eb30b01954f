------------------------- MODULE BridgeProcessProofs -------------------------
(***************************************************************************)
(* Proofs about BridgeProcess, for all argument lists and any number of    *)
(* frames and faults: its safety properties, and that the file it leaves   *)
(* is the capture CaptureLog describes.                                    *)
(*                                                                         *)
(* The inductive invariant says, for each place main() can stand at, what  *)
(* has been set up, where the pin is and what is in the stream's buffer.   *)
(* What happens to the file is proved in two steps: every action changes   *)
(* it in one of four ways, and each of these keeps rows and order.         *)
(***************************************************************************)
EXTENDS BridgeProcess, SequenceTheorems, TLAPS

\* Where main() stands with both listeners created.
Listening == {"loop", "close", "destroy"} \cup Serving
\* Where it stands between the set-up of the pin and the loop.
Starting == {"signals", "context", "controller vhost", "icu vhost", "start"}

\* Parts of the type invariant.
SystemTyped ==
  /\ args \in Args
  /\ unit \in {"running", "restarting", "inactive"} /\ stopping \in BOOLEAN
  /\ deployed \in BOOLEAN
  /\ pc \in Places /\ (pc = "down" <=> unit # "running")
  /\ exit \in {"none", "returned 0", "returned 1", "SIGTERM", "killed", "reset"}
  /\ asked \in BOOLEAN

ProcessTyped ==
  /\ running \in BOOLEAN /\ handlers \in BOOLEAN /\ model \in BOOLEAN /\ started \in BOOLEAN
  /\ vhosts \subseteq {"controller", "icu"}
  /\ pin \in {0, 1} /\ exported \in BOOLEAN /\ ready \in BOOLEAN
  /\ markerErr \in BOOLEAN

Counted ==
  /\ intact \in BOOLEAN
  /\ frames \in 0..MaxFrames
  /\ pc \in Handling => frames > 0
  /\ recorded \subseteq 1..frames

\* What the stream holds at each place of main().
Streams ==
  /\ stream \in {"closed", "open", "detached"}
  /\ stream # "closed" => pc \notin {"down", "args", "motor", "log", "destroy"}
  /\ buffered = IF pc = "flush" /\ stream # "closed" THEN <<frames>> ELSE <<>>

\* What start-up has done by each place of main().
Order ==
  /\ pc \notin {"down", "args", "motor"} => model
  /\ pc \in {"context", "controller vhost", "icu vhost", "start"} \cup Listening => handlers
  /\ pc \in {"icu vhost", "start"} \cup Listening => "controller" \in vhosts
  /\ pc \in {"start"} \cup Listening => "icu" \in vhosts
  /\ pc \in Listening => started

\* The pin at each place of main(), and that it can be written at all.
Marked ==
  ~markerErr =>
    /\ pc \in Starting \cup Listening => ready
    /\ pc \in Handling => pin = 1
    /\ pc \in Starting \cup (Listening \ Handling) => pin = 0
    /\ pc = "down" /\ exit = "returned 0" => pin = 0

\* A frame's number stays within its bound.
LEMMA Counting ==
  ASSUME NEW n \in 0..MaxFrames
  PROVE  /\ n > 0 => n \in 1..n
         /\ n < MaxFrames => n + 1 \in 0..MaxFrames /\ n + 1 > 0
         /\ 1..n \subseteq 1..(n + 1)
BY FaultsAssumption DEF FaultsAssumption

\* A row printed to an empty buffer is alone in it.
LEMMA RowAlone == \A n : Append(<<>>, n) = <<n>>
OBVIOUS

\* main() that returns 1 is a process that has returned 1.
LEMMA Returned == Return(1) => pc' = "down" /\ exit' = "returned 1"
<1>1. End("returned 1") => pc' = "down" /\ exit' = "returned 1"
  BY DEF End
<1>2. (IF 1 = 0 THEN "returned 0" ELSE "returned 1") = "returned 1"
  OBVIOUS
<1>3. QED BY <1>1, <1>2 DEF Return

\* No step of main(), and nothing from outside, skips a part of start-up.
LEMMA OrderStep == SystemTyped /\ Order /\ [Next]_vars => Order'
<1> SUFFICES ASSUME SystemTyped, Order, [Next]_vars PROVE Order'
  OBVIOUS
<1> USE DEF vars, logVars, gpioVars, mainVars, systemVars, ghosts, SystemTyped, Order,
     Listening, Serving, Handling, Places
<1>1. CASE CheckArgs
  BY <1>1 DEF CheckArgs, Return, End, CloseLog, Written, FreshProcess, Goto, Undisturbed
<1>2. CASE LoadModel
  BY <1>2 DEF LoadModel, At, Goto
<1>3. CASE LoadModelFails
  BY <1>3 DEF LoadModelFails, Return, End, CloseLog, Written, FreshProcess, Fault
<1>4. CASE InitLog
  BY <1>4 DEF InitLog, At, Goto, OpenLog, Header, Fault
<1>5. CASE InitMarker
  BY <1>5 DEF InitMarker, At, Goto, GpioInit, GpioInitFails, Fault
<1>6. CASE InstallHandlers
  BY <1>6 DEF InstallHandlers, At, Goto
<1>7. CASE CreateContext
  BY <1>7 DEF CreateContext, At, Goto
<1>8. CASE StartupFails
  BY <1>8 DEF StartupFails, Return, End, CloseLog, Written, FreshProcess, Fault
<1>9. CASE CreateVhost("controller vhost", "controller", "icu vhost")
  BY <1>9 DEF CreateVhost, At, Goto
<1>10. CASE CreateVhost("icu vhost", "icu", "start")
  BY <1>10 DEF CreateVhost, At, Goto
<1>11. CASE StartServer
  BY <1>11 DEF StartServer, At, Goto
<1>12. CASE Loop
  BY <1>12 DEF Loop, At, Goto
<1>13. CASE Forward
  BY <1>13 DEF Forward, At, Goto, PrintRow
<1>14. CASE FinishRow
  BY <1>14 DEF FinishRow, FlushRow, Written, Goto
<1>15. CASE FrameDone
  BY <1>15 DEF FrameDone, At, Goto, SetMarker, GpioSet, GpioSetFails, Fault
<1>16. CASE ShutDown
  BY <1>16 DEF ShutDown, At, Goto, CloseLog, Written
<1>17. CASE Destroy
  BY <1>17 DEF Destroy, Return, End, CloseLog, Written, FreshProcess
<1>18. CASE ServiceReturns
  BY <1>18 DEF ServiceReturns, At, Goto
<1>19. CASE Start("inactive") \/ Start("restarting")
  BY <1>19 DEF Start, Undisturbed
<1>20. CASE FrameComplete
  BY <1>20 DEF FrameComplete, Goto, SetMarker, GpioSet, GpioSetFails, Fault
<1>21. CASE Interrupt \/ Stop
  BY <1>21 DEF Interrupt, Stop, Signalled, DropStream, End, FreshProcess, Undisturbed
<1>22. CASE Killed
  BY <1>22 DEF Killed, Fault, DropStream, End, FreshProcess
<1>23. CASE Wipe
  BY <1>23 DEF Wipe, Fault
<1>24. CASE Redeploy
  BY <1>24 DEF Redeploy, Undisturbed
<1>25. CASE PowerCut
  BY <1>25 DEF PowerCut, Fault, FreshProcess
<1>26. CASE UNCHANGED vars
  BY <1>26
<1>27. QED BY <1>1, <1>2, <1>3, <1>4, <1>5, <1>6, <1>7, <1>8, <1>9, <1>10, <1>11, <1>12, <1>13,
     <1>14, <1>15, <1>16, <1>17, <1>18, <1>19, <1>20, <1>21, <1>22, <1>23, <1>24, <1>25, <1>26
     DEF Next, Main, Environment

\* The types of systemd's state and of main()'s place, each step.
LEMMA SystemStep == SystemTyped /\ [Next]_vars => SystemTyped'
<1> SUFFICES ASSUME SystemTyped, [Next]_vars PROVE SystemTyped'
  OBVIOUS
<1> USE DEF vars, logVars, gpioVars, mainVars, systemVars, ghosts, SystemTyped, Places, Serving,
     Handling
<1>1. CASE CheckArgs
  BY <1>1 DEF CheckArgs, Return, End, CloseLog, Written, FreshProcess, Goto, Undisturbed
<1>2. CASE LoadModel
  BY <1>2 DEF LoadModel, At, Goto
<1>3. CASE LoadModelFails
  BY <1>3 DEF LoadModelFails, Return, End, CloseLog, Written, FreshProcess, Fault
<1>4. CASE InitLog
  BY <1>4 DEF InitLog, At, Goto, OpenLog, Header, Fault
<1>5. CASE InitMarker
  BY <1>5 DEF InitMarker, At, Goto, GpioInit, GpioInitFails, Fault
<1>6. CASE InstallHandlers
  BY <1>6 DEF InstallHandlers, At, Goto
<1>7. CASE CreateContext
  BY <1>7 DEF CreateContext, At, Goto
<1>8. CASE StartupFails
  BY <1>8 DEF StartupFails, Return, End, CloseLog, Written, FreshProcess, Fault
<1>9. CASE CreateVhost("controller vhost", "controller", "icu vhost")
  BY <1>9 DEF CreateVhost, At, Goto
<1>10. CASE CreateVhost("icu vhost", "icu", "start")
  BY <1>10 DEF CreateVhost, At, Goto
<1>11. CASE StartServer
  BY <1>11 DEF StartServer, At, Goto
<1>12. CASE Loop
  BY <1>12 DEF Loop, At, Goto
<1>13. CASE Forward
  BY <1>13 DEF Forward, At, Goto, PrintRow
<1>14. CASE FinishRow
  BY <1>14 DEF FinishRow, FlushRow, Written, Goto
<1>15. CASE FrameDone
  BY <1>15 DEF FrameDone, At, Goto, SetMarker, GpioSet, GpioSetFails, Fault
<1>16. CASE ShutDown
  BY <1>16 DEF ShutDown, At, Goto, CloseLog, Written
<1>17. CASE Destroy
  BY <1>17 DEF Destroy, Return, End, CloseLog, Written, FreshProcess
<1>18. CASE ServiceReturns
  BY <1>18 DEF ServiceReturns, At, Goto
<1>19. CASE Start("inactive") \/ Start("restarting")
  BY <1>19 DEF Start, Undisturbed
<1>20. CASE FrameComplete
  BY <1>20 DEF FrameComplete, Goto, SetMarker, GpioSet, GpioSetFails, Fault
<1>21. CASE Interrupt \/ Stop
  BY <1>21 DEF Interrupt, Stop, Signalled, DropStream, End, FreshProcess, Undisturbed
<1>22. CASE Killed
  BY <1>22 DEF Killed, Fault, DropStream, End, FreshProcess
<1>23. CASE Wipe
  BY <1>23 DEF Wipe, Fault
<1>24. CASE Redeploy
  BY <1>24 DEF Redeploy, Undisturbed
<1>25. CASE PowerCut
  BY <1>25 DEF PowerCut, Fault, FreshProcess
<1>26. CASE UNCHANGED vars
  BY <1>26
<1>27. QED BY <1>1, <1>2, <1>3, <1>4, <1>5, <1>6, <1>7, <1>8, <1>9, <1>10, <1>11, <1>12, <1>13,
     <1>14, <1>15, <1>16, <1>17, <1>18, <1>19, <1>20, <1>21, <1>22, <1>23, <1>24, <1>25, <1>26
     DEF Next, Main, Environment

\* Only Fault counts, and never beyond its bound.
LEMMA FaultsStep == faults \in 0..MaxFaults /\ [Next]_vars => (faults \in 0..MaxFaults)'
<1> SUFFICES ASSUME faults \in 0..MaxFaults, [Next]_vars PROVE faults' \in 0..MaxFaults
  OBVIOUS
<1> USE DEF vars, logVars, gpioVars, mainVars, systemVars, ghosts
<1>a. Fault => faults' \in 0..MaxFaults
  BY FaultsAssumption DEF Fault, FaultsAssumption
<1>b. SUFFICES Fault \/ faults' = faults
  BY <1>a
<1>1. CASE CheckArgs
  BY <1>1 DEF CheckArgs, Return, End, CloseLog, Written, FreshProcess, Goto, Undisturbed
<1>2. CASE LoadModel
  BY <1>2 DEF LoadModel, At, Goto
<1>3. CASE LoadModelFails
  BY <1>3 DEF LoadModelFails, Return, End, CloseLog, Written, FreshProcess
<1>4. CASE InitLog
  BY <1>4 DEF InitLog, At, Goto, OpenLog, Header
<1>5. CASE InitMarker
  BY <1>5 DEF InitMarker, At, Goto, GpioInit, GpioInitFails
<1>6. CASE InstallHandlers
  BY <1>6 DEF InstallHandlers, At, Goto
<1>7. CASE CreateContext
  BY <1>7 DEF CreateContext, At, Goto
<1>8. CASE StartupFails
  BY <1>8 DEF StartupFails, Return, End, CloseLog, Written, FreshProcess
<1>9. CASE CreateVhost("controller vhost", "controller", "icu vhost")
  BY <1>9 DEF CreateVhost, At, Goto
<1>10. CASE CreateVhost("icu vhost", "icu", "start")
  BY <1>10 DEF CreateVhost, At, Goto
<1>11. CASE StartServer
  BY <1>11 DEF StartServer, At, Goto
<1>12. CASE Loop
  BY <1>12 DEF Loop, At, Goto
<1>13. CASE Forward
  BY <1>13 DEF Forward, At, Goto, PrintRow
<1>14. CASE FinishRow
  BY <1>14 DEF FinishRow, FlushRow, Written, Goto
<1>15. CASE FrameDone
  BY <1>15 DEF FrameDone, At, Goto, SetMarker, GpioSet, GpioSetFails
<1>16. CASE ShutDown
  BY <1>16 DEF ShutDown, At, Goto, CloseLog, Written
<1>17. CASE Destroy
  BY <1>17 DEF Destroy, Return, End, CloseLog, Written, FreshProcess
<1>18. CASE ServiceReturns
  BY <1>18 DEF ServiceReturns, At, Goto
<1>19. CASE Start("inactive") \/ Start("restarting")
  BY <1>19 DEF Start, Undisturbed
<1>20. CASE FrameComplete
  BY <1>20 DEF FrameComplete, Goto, SetMarker, GpioSet, GpioSetFails
<1>21. CASE Interrupt \/ Stop
  BY <1>21 DEF Interrupt, Stop, Signalled, DropStream, End, FreshProcess, Undisturbed
<1>22. CASE Killed
  BY <1>22 DEF Killed, DropStream, End, FreshProcess
<1>23. CASE Wipe
  BY <1>23 DEF Wipe
<1>24. CASE Redeploy
  BY <1>24 DEF Redeploy, Undisturbed
<1>25. CASE PowerCut
  BY <1>25 DEF PowerCut, FreshProcess
<1>26. CASE UNCHANGED vars
  BY <1>26
<1>27. QED BY <1>1, <1>2, <1>3, <1>4, <1>5, <1>6, <1>7, <1>8, <1>9, <1>10, <1>11, <1>12, <1>13,
     <1>14, <1>15, <1>16, <1>17, <1>18, <1>19, <1>20, <1>21, <1>22, <1>23, <1>24, <1>25, <1>26
     DEF Next, Main, Environment

\* The pin follows the handlers; a process that is told to stop leaves the loop only after the
\* handler has lowered it.
LEMMA MarkedStep == SystemTyped /\ ProcessTyped /\ Marked /\ [Next]_vars => Marked'
<1> SUFFICES ASSUME SystemTyped, ProcessTyped, Marked, [Next]_vars PROVE Marked'
  OBVIOUS
<1> USE DEF vars, logVars, gpioVars, mainVars, systemVars, ghosts, SystemTyped, ProcessTyped,
     Marked, Places, Serving, Handling, Starting, Listening
<1>1. CASE CheckArgs
  <2>1. CASE ValidArgs
    BY <1>1, <2>1 DEF CheckArgs, Goto, Undisturbed, gpioVars
  <2>2. CASE ~ValidArgs
    <3>1. pc' = "down" /\ exit' = "returned 1"
      BY <1>1, <2>2, Returned DEF CheckArgs
    <3>2. QED BY <3>1
  <2>3. QED BY <2>1, <2>2
<1>2. CASE LoadModel
  BY <1>2 DEF LoadModel, At, Goto
<1>3. CASE LoadModelFails
  BY <1>3 DEF LoadModelFails, Return, End, CloseLog, Written, FreshProcess, Fault
<1>4. CASE InitLog
  BY <1>4 DEF InitLog, At, Goto, OpenLog, Header, Fault
<1>5. CASE InitMarker
  BY <1>5 DEF InitMarker, At, Goto, GpioInit, GpioInitFails, Fault
<1>6. CASE InstallHandlers
  BY <1>6 DEF InstallHandlers, At, Goto
<1>7. CASE CreateContext
  BY <1>7 DEF CreateContext, At, Goto
<1>8. CASE StartupFails
  BY <1>8 DEF StartupFails, Return, End, CloseLog, Written, FreshProcess, Fault
<1>9. CASE CreateVhost("controller vhost", "controller", "icu vhost")
  BY <1>9 DEF CreateVhost, At, Goto
<1>10. CASE CreateVhost("icu vhost", "icu", "start")
  BY <1>10 DEF CreateVhost, At, Goto
<1>11. CASE StartServer
  BY <1>11 DEF StartServer, At, Goto
<1>12. CASE Loop
  BY <1>12 DEF Loop, At, Goto
<1>13. CASE Forward
  BY <1>13 DEF Forward, At, Goto, PrintRow
<1>14. CASE FinishRow
  BY <1>14 DEF FinishRow, FlushRow, Written, Goto
<1>15. CASE FrameDone
  BY <1>15 DEF FrameDone, At, Goto, SetMarker, GpioSet, GpioSetFails, Fault
<1>16. CASE ShutDown
  BY <1>16 DEF ShutDown, At, Goto, CloseLog, Written
<1>17. CASE Destroy
  BY <1>17 DEF Destroy, Return, End, CloseLog, Written, FreshProcess
<1>18. CASE ServiceReturns
  BY <1>18 DEF ServiceReturns, At, Goto
<1>19. CASE Start("inactive") \/ Start("restarting")
  BY <1>19 DEF Start, Undisturbed
<1>20. CASE FrameComplete
  <2>1. pc = "service" /\ pc' = "forward" /\ SetMarker(1)
    BY <1>20 DEF FrameComplete, Goto
  <2>2. CASE GpioSetFails /\ markerErr' = TRUE
    BY <2>2
  <2>3. CASE GpioSet(1) /\ markerErr' = markerErr
    BY <2>1, <2>3 DEF GpioSet
  <2>4. QED BY <2>1, <2>2, <2>3 DEF SetMarker
<1>21. CASE Interrupt \/ Stop
  BY <1>21 DEF Interrupt, Stop, Signalled, DropStream, End, FreshProcess, Undisturbed
<1>22. CASE Killed
  BY <1>22 DEF Killed, Fault, DropStream, End, FreshProcess
<1>23. CASE Wipe
  BY <1>23 DEF Wipe, Fault
<1>24. CASE Redeploy
  BY <1>24 DEF Redeploy, Undisturbed
<1>25. CASE PowerCut
  BY <1>25 DEF PowerCut, Fault, FreshProcess
<1>26. CASE UNCHANGED vars
  BY <1>26
<1>27. QED BY <1>1, <1>2, <1>3, <1>4, <1>5, <1>6, <1>7, <1>8, <1>9, <1>10, <1>11, <1>12, <1>13,
     <1>14, <1>15, <1>16, <1>17, <1>18, <1>19, <1>20, <1>21, <1>22, <1>23, <1>24, <1>25, <1>26
     DEF Next, Main, Environment

\* The types of the process's and the pin's state, each step.
LEMMA ProcessStep == SystemTyped /\ ProcessTyped /\ [Next]_vars => ProcessTyped'
<1> SUFFICES ASSUME SystemTyped, ProcessTyped, [Next]_vars PROVE ProcessTyped'
  OBVIOUS
<1> USE DEF vars, logVars, gpioVars, mainVars, systemVars, ghosts, SystemTyped, ProcessTyped,
     Places, Serving, Handling
<1>1. CASE CheckArgs
  BY <1>1 DEF CheckArgs, Return, End, CloseLog, Written, FreshProcess, Goto, Undisturbed
<1>2. CASE LoadModel
  BY <1>2 DEF LoadModel, At, Goto
<1>3. CASE LoadModelFails
  BY <1>3 DEF LoadModelFails, Return, End, CloseLog, Written, FreshProcess, Fault
<1>4. CASE InitLog
  BY <1>4 DEF InitLog, At, Goto, OpenLog, Header, Fault
<1>5. CASE InitMarker
  BY <1>5 DEF InitMarker, At, Goto, GpioInit, GpioInitFails, Fault
<1>6. CASE InstallHandlers
  BY <1>6 DEF InstallHandlers, At, Goto
<1>7. CASE CreateContext
  BY <1>7 DEF CreateContext, At, Goto
<1>8. CASE StartupFails
  BY <1>8 DEF StartupFails, Return, End, CloseLog, Written, FreshProcess, Fault
<1>9. CASE CreateVhost("controller vhost", "controller", "icu vhost")
  BY <1>9 DEF CreateVhost, At, Goto
<1>10. CASE CreateVhost("icu vhost", "icu", "start")
  BY <1>10 DEF CreateVhost, At, Goto
<1>11. CASE StartServer
  BY <1>11 DEF StartServer, At, Goto
<1>12. CASE Loop
  BY <1>12 DEF Loop, At, Goto
<1>13. CASE Forward
  BY <1>13 DEF Forward, At, Goto, PrintRow
<1>14. CASE FinishRow
  BY <1>14 DEF FinishRow, FlushRow, Written, Goto
<1>15. CASE FrameDone
  BY <1>15 DEF FrameDone, At, Goto, SetMarker, GpioSet, GpioSetFails, Fault
<1>16. CASE ShutDown
  BY <1>16 DEF ShutDown, At, Goto, CloseLog, Written
<1>17. CASE Destroy
  BY <1>17 DEF Destroy, Return, End, CloseLog, Written, FreshProcess
<1>18. CASE ServiceReturns
  BY <1>18 DEF ServiceReturns, At, Goto
<1>19. CASE Start("inactive") \/ Start("restarting")
  BY <1>19 DEF Start, Undisturbed
<1>20. CASE FrameComplete
  BY <1>20 DEF FrameComplete, Goto, SetMarker, GpioSet, GpioSetFails, Fault
<1>21. CASE Interrupt \/ Stop
  BY <1>21 DEF Interrupt, Stop, Signalled, DropStream, End, FreshProcess, Undisturbed
<1>22. CASE Killed
  BY <1>22 DEF Killed, Fault, DropStream, End, FreshProcess
<1>23. CASE Wipe
  BY <1>23 DEF Wipe, Fault
<1>24. CASE Redeploy
  BY <1>24 DEF Redeploy, Undisturbed
<1>25. CASE PowerCut
  BY <1>25 DEF PowerCut, Fault, FreshProcess
<1>26. CASE UNCHANGED vars
  BY <1>26
<1>27. QED BY <1>1, <1>2, <1>3, <1>4, <1>5, <1>6, <1>7, <1>8, <1>9, <1>10, <1>11, <1>12, <1>13,
     <1>14, <1>15, <1>16, <1>17, <1>18, <1>19, <1>20, <1>21, <1>22, <1>23, <1>24, <1>25, <1>26
     DEF Next, Main, Environment

\* The types of the counts, each step.
LEMMA CountedStep == SystemTyped /\ Counted /\ [Next]_vars => Counted'
<1> SUFFICES ASSUME SystemTyped, Counted, [Next]_vars PROVE Counted'
  OBVIOUS
<1> USE FaultsAssumption DEF vars, logVars, gpioVars, mainVars, systemVars, ghosts,
     FaultsAssumption, SystemTyped, Counted, Places, Serving, Handling
<1>1. CASE CheckArgs
  BY <1>1 DEF CheckArgs, Return, End, CloseLog, Written, FreshProcess, Goto, Undisturbed
<1>2. CASE LoadModel
  BY <1>2 DEF LoadModel, At, Goto
<1>3. CASE LoadModelFails
  BY <1>3 DEF LoadModelFails, Return, End, CloseLog, Written, FreshProcess, Fault
<1>4. CASE InitLog
  BY <1>4 DEF InitLog, At, Goto, OpenLog, Header, Fault
<1>5. CASE InitMarker
  BY <1>5 DEF InitMarker, At, Goto, GpioInit, GpioInitFails, Fault
<1>6. CASE InstallHandlers
  BY <1>6 DEF InstallHandlers, At, Goto
<1>7. CASE CreateContext
  BY <1>7 DEF CreateContext, At, Goto
<1>8. CASE StartupFails
  BY <1>8 DEF StartupFails, Return, End, CloseLog, Written, FreshProcess, Fault
<1>9. CASE CreateVhost("controller vhost", "controller", "icu vhost")
  BY <1>9 DEF CreateVhost, At, Goto
<1>10. CASE CreateVhost("icu vhost", "icu", "start")
  BY <1>10 DEF CreateVhost, At, Goto
<1>11. CASE StartServer
  BY <1>11 DEF StartServer, At, Goto
<1>12. CASE Loop
  BY <1>12 DEF Loop, At, Goto
<1>13. CASE Forward
  BY <1>13 DEF Forward, At, Goto, PrintRow
<1>14. CASE FinishRow
  <2>1. pc' = "lower" /\ intact' = intact /\ frames' = frames /\ frames > 0
    BY <1>14 DEF FinishRow, Goto
  <2>2. recorded' \subseteq recorded \cup {frames}
    BY <1>14 DEF FinishRow
  <2>3. frames \in 1..frames
    BY <2>1, Counting DEF Counted
  <2>4. recorded' \subseteq 1..frames'
    BY <2>1, <2>2, <2>3
  <2>5. QED BY <2>1, <2>4
<1>15. CASE FrameDone
  BY <1>15 DEF FrameDone, At, Goto, SetMarker, GpioSet, GpioSetFails, Fault
<1>16. CASE ShutDown
  BY <1>16 DEF ShutDown, At, Goto, CloseLog, Written
<1>17. CASE Destroy
  BY <1>17 DEF Destroy, Return, End, CloseLog, Written, FreshProcess
<1>18. CASE ServiceReturns
  BY <1>18 DEF ServiceReturns, At, Goto
<1>19. CASE Start("inactive") \/ Start("restarting")
  BY <1>19 DEF Start, Undisturbed
<1>20. CASE FrameComplete
  <2>1. intact' = intact /\ frames' = frames + 1 /\ frames < MaxFrames /\ recorded' = recorded
    BY <1>20 DEF FrameComplete
  <2>2. frames' \in 0..MaxFrames /\ frames' > 0 /\ 1..frames \subseteq 1..frames'
    BY <2>1, Counting DEF Counted
  <2>3. QED BY <2>1, <2>2
<1>21. CASE Interrupt \/ Stop
  BY <1>21 DEF Interrupt, Stop, Signalled, DropStream, End, FreshProcess, Undisturbed
<1>22. CASE Killed
  BY <1>22 DEF Killed, Fault, DropStream, End, FreshProcess
<1>23. CASE Wipe
  BY <1>23 DEF Wipe, Fault
<1>24. CASE Redeploy
  BY <1>24 DEF Redeploy, Undisturbed
<1>25. CASE PowerCut
  BY <1>25 DEF PowerCut, Fault, FreshProcess
<1>26. CASE UNCHANGED vars
  BY <1>26
<1>27. QED BY <1>1, <1>2, <1>3, <1>4, <1>5, <1>6, <1>7, <1>8, <1>9, <1>10, <1>11, <1>12, <1>13,
     <1>14, <1>15, <1>16, <1>17, <1>18, <1>19, <1>20, <1>21, <1>22, <1>23, <1>24, <1>25, <1>26
     DEF Next, Main, Environment

\* At most the row of the frame in the works is in the buffer, and only between its fprintf and
\* its fflush.
LEMMA StreamsStep == SystemTyped /\ Counted /\ Streams /\ [Next]_vars => Streams'
<1> SUFFICES ASSUME SystemTyped, Counted, Streams, [Next]_vars PROVE Streams'
  OBVIOUS
<1> USE FaultsAssumption DEF vars, logVars, gpioVars, mainVars, systemVars, ghosts,
     FaultsAssumption, SystemTyped, Counted, Streams, Places, Serving, Handling
<1>1. CASE CheckArgs
  BY <1>1 DEF CheckArgs, Return, End, CloseLog, Written, FreshProcess, Goto, Undisturbed
<1>2. CASE LoadModel
  BY <1>2 DEF LoadModel, At, Goto
<1>3. CASE LoadModelFails
  BY <1>3 DEF LoadModelFails, Return, End, CloseLog, Written, FreshProcess, Fault
<1>4. CASE InitLog
  BY <1>4 DEF InitLog, At, Goto, OpenLog, Header, Fault
<1>5. CASE InitMarker
  BY <1>5 DEF InitMarker, At, Goto, GpioInit, GpioInitFails, Fault
<1>6. CASE InstallHandlers
  BY <1>6 DEF InstallHandlers, At, Goto
<1>7. CASE CreateContext
  BY <1>7 DEF CreateContext, At, Goto
<1>8. CASE StartupFails
  BY <1>8 DEF StartupFails, Return, End, CloseLog, Written, FreshProcess, Fault
<1>9. CASE CreateVhost("controller vhost", "controller", "icu vhost")
  BY <1>9 DEF CreateVhost, At, Goto
<1>10. CASE CreateVhost("icu vhost", "icu", "start")
  BY <1>10 DEF CreateVhost, At, Goto
<1>11. CASE StartServer
  BY <1>11 DEF StartServer, At, Goto
<1>12. CASE Loop
  BY <1>12 DEF Loop, At, Goto
<1>13. CASE Forward
  <2>1. CASE Goto("lower") /\ UNCHANGED logVars
    BY <1>13, <2>1 DEF Forward, At, Goto, logVars
  <2>2. CASE Goto("flush") /\ PrintRow(frames)
    <3>1. buffered = <<>> /\ Append(<<>>, frames) = <<frames>>
      BY <1>13, RowAlone DEF Forward, At
    <3>2. buffered' = IF stream = "closed" THEN <<>> ELSE <<frames>>
      BY <2>2, <3>1 DEF PrintRow
    <3>3. pc' = "flush" /\ stream' = stream /\ frames' = frames
      BY <1>13, <2>2 DEF Forward, At, Goto, PrintRow, ghosts
    <3>4. QED BY <3>2, <3>3, <1>13 DEF Forward, At
  <2>3. QED BY <1>13, <2>1, <2>2 DEF Forward
<1>14. CASE FinishRow
  BY <1>14 DEF FinishRow, FlushRow, Written, Goto
<1>15. CASE FrameDone
  BY <1>15 DEF FrameDone, At, Goto, SetMarker, GpioSet, GpioSetFails, Fault
<1>16. CASE ShutDown
  BY <1>16 DEF ShutDown, At, Goto, CloseLog, Written
<1>17. CASE Destroy
  BY <1>17 DEF Destroy, Return, End, CloseLog, Written, FreshProcess
<1>18. CASE ServiceReturns
  BY <1>18 DEF ServiceReturns, At, Goto
<1>19. CASE Start("inactive") \/ Start("restarting")
  BY <1>19 DEF Start, Undisturbed
<1>20. CASE FrameComplete
  BY <1>20 DEF FrameComplete, Goto, SetMarker, GpioSet, GpioSetFails, Fault
<1>21. CASE Interrupt \/ Stop
  BY <1>21 DEF Interrupt, Stop, Signalled, DropStream, End, FreshProcess, Undisturbed
<1>22. CASE Killed
  BY <1>22 DEF Killed, Fault, DropStream, End, FreshProcess
<1>23. CASE Wipe
  BY <1>23 DEF Wipe, Fault
<1>24. CASE Redeploy
  BY <1>24 DEF Redeploy, Undisturbed
<1>25. CASE PowerCut
  BY <1>25 DEF PowerCut, Fault, FreshProcess
<1>26. CASE UNCHANGED vars
  BY <1>26
<1>27. QED BY <1>1, <1>2, <1>3, <1>4, <1>5, <1>6, <1>7, <1>8, <1>9, <1>10, <1>11, <1>12, <1>13,
     <1>14, <1>15, <1>16, <1>17, <1>18, <1>19, <1>20, <1>21, <1>22, <1>23, <1>24, <1>25, <1>26
     DEF Next, Main, Environment

\* Every piece of q is less than n.
Below(q, n) == \A i \in 1..Len(q) : q[i] < n

\* The file never is ahead of the frames, and has a header once it is open.
LogOrdered ==
  /\ log \in Seq(-1..MaxFrames)
  /\ Below(log, frames + 1)
  /\ pc \in {"forward", "flush"} => Below(log, frames)
  /\ stream = "open" => log # <<>>

\* A step leaves the file alone, begins it, adds the row of the frame in the works, or is a
\* loss.
LogChange ==
  \/ log' = log /\ (stream' = "open" => log # <<>>)
  \/ log = <<>> /\ log' = <<Header>> /\ pc' = "gpio" /\ intact' = intact
  \/ /\ pc = "flush" /\ pc' = "lower" /\ stream = "open"
     /\ log' = Append(log, frames)
  \/ log' \in Kept!Remains(log) /\ stream' # "open" /\ intact' = FALSE

\* Closing the log outside of a handler writes nothing.
LEMMA NothingBuffered == Streams /\ log \in Seq(-1..MaxFrames) /\ pc # "flush" => Written = log
<1> SUFFICES ASSUME buffered = <<>>, log \in Seq(-1..MaxFrames) PROVE log \o buffered = log
  BY DEF Streams, Written
<1> QED BY ConcatEmptySeq

\* fflush writes the row of the frame in the works, if the file is still there.
LEMMA RowBuffered ==
  Streams /\ log \in Seq(-1..MaxFrames) /\ frames \in 1..MaxFrames /\ pc = "flush" =>
    Written = IF stream = "open" THEN Append(log, frames) ELSE log
<1> SUFFICES ASSUME stream = "open", buffered = <<frames>>, log \in Seq(-1..MaxFrames),
                    frames \in 1..MaxFrames
             PROVE  log \o buffered = Append(log, frames)
  BY DEF Streams, Written
<1>1. frames \in -1..MaxFrames
  OBVIOUS
<1> QED BY <1>1, AppendIsConcat

\* Every step changes the file in one of the four ways of LogChange, or not at all.
LEMMA LogChanges ==
  SystemTyped /\ Counted /\ Streams /\ LogOrdered /\ [Next]_vars => LogChange
<1> SUFFICES ASSUME SystemTyped, Counted, Streams, LogOrdered, [Next]_vars PROVE LogChange
  OBVIOUS
<1>a. log \in Seq(-1..MaxFrames) /\ (stream = "open" => log # <<>>)
  BY DEF LogOrdered
<1>b. pc # "flush" => Written = log
  BY <1>a, NothingBuffered
<1>c. log' = log /\ (stream' = "open" => stream = "open") => LogChange
  BY <1>a DEF LogChange
<1>d. log' = Written /\ pc # "flush" /\ (stream' = "open" => stream = "open") => LogChange
  BY <1>b, <1>c
<1>1. CASE CheckArgs
  BY <1>1, <1>c, <1>d DEF CheckArgs, Return, End, CloseLog, FreshProcess, Goto, Undisturbed,
       logVars, ghosts, vars
<1>2. CASE LoadModel
  BY <1>2, <1>c DEF LoadModel, At, Goto, logVars, ghosts, vars
<1>3. CASE LoadModelFails
  BY <1>3, <1>d DEF LoadModelFails, Return, End, CloseLog, FreshProcess, Fault, logVars,
       ghosts, vars
<1>4. CASE InitLog
  <2>1. CASE OpenLog /\ log = <<>>
    <3>1. log' = <<Header>>
      BY <2>1 DEF OpenLog, NeedsHeader
    <3>2. pc' = "gpio" /\ intact' = intact
      BY <1>4 DEF InitLog, At, Goto, ghosts
    <3>3. QED BY <2>1, <3>1, <3>2 DEF LogChange
  <2>2. CASE OpenLog /\ log # <<>>
    BY <2>2 DEF OpenLog, NeedsHeader, LogChange
  <2>3. CASE UNCHANGED logVars
    BY <2>3, <1>c DEF logVars
  <2>4. QED BY <1>4, <2>1, <2>2, <2>3 DEF InitLog
<1>5. CASE InitMarker
  BY <1>5, <1>c DEF InitMarker, At, Goto, GpioInit, GpioInitFails, Fault, logVars, ghosts, vars
<1>6. CASE InstallHandlers
  BY <1>6, <1>c DEF InstallHandlers, At, Goto, logVars, ghosts, vars
<1>7. CASE CreateContext
  BY <1>7, <1>c DEF CreateContext, At, Goto, logVars, ghosts, vars
<1>8. CASE StartupFails
  BY <1>8, <1>d DEF StartupFails, Return, End, CloseLog, FreshProcess, Fault, logVars, ghosts,
       vars
<1>9. CASE CreateVhost("controller vhost", "controller", "icu vhost")
  BY <1>9, <1>c DEF CreateVhost, At, Goto, logVars, ghosts, vars
<1>10. CASE CreateVhost("icu vhost", "icu", "start")
  BY <1>10, <1>c DEF CreateVhost, At, Goto, logVars, ghosts, vars
<1>11. CASE StartServer
  BY <1>11, <1>c DEF StartServer, At, Goto, logVars, ghosts, vars
<1>12. CASE Loop
  BY <1>12, <1>c DEF Loop, At, Goto, logVars, ghosts, vars
<1>13. CASE Forward
  BY <1>13, <1>c DEF Forward, At, Goto, PrintRow, logVars, ghosts, vars
<1>14. CASE FinishRow
  <2>1. frames \in 1..MaxFrames /\ pc = "flush" /\ pc' = "lower" /\ stream' = stream /\ log' =
       Written
    BY <1>14 DEF FinishRow, FlushRow, Goto, Counted, Handling
  <2>2. Written = IF stream = "open" THEN Append(log, frames) ELSE log
    BY <1>a, <2>1, RowBuffered
  <2>3. QED BY <2>1, <2>2, <1>c DEF LogChange
<1>15. CASE FrameDone
  BY <1>15, <1>c DEF FrameDone, At, Goto, SetMarker, GpioSet, GpioSetFails, Fault, logVars,
       ghosts, vars
<1>16. CASE ShutDown
  BY <1>16, <1>d DEF ShutDown, At, Goto, CloseLog, logVars, ghosts, vars
<1>17. CASE Destroy
  BY <1>17, <1>d DEF Destroy, Return, End, CloseLog, FreshProcess, logVars, ghosts, vars
<1>18. CASE ServiceReturns
  BY <1>18, <1>c DEF ServiceReturns, At, Goto, logVars, ghosts, vars
<1>19. CASE Start("inactive") \/ Start("restarting")
  BY <1>19, <1>c DEF Start, Undisturbed, logVars, ghosts, vars
<1>20. CASE FrameComplete
  BY <1>20, <1>c DEF FrameComplete, Goto, SetMarker, GpioSet, GpioSetFails, Fault, logVars,
       ghosts, vars
<1>21. CASE Interrupt \/ Stop
  BY <1>21, <1>c DEF Interrupt, Stop, Signalled, DropStream, End, FreshProcess, Undisturbed,
       logVars, ghosts, vars
<1>22. CASE Killed
  BY <1>22, <1>c DEF Killed, Fault, DropStream, End, FreshProcess, logVars, ghosts, vars
<1>23. CASE Wipe
  <2>1. log' = <<>> /\ stream' # "open" /\ intact' = FALSE
    BY <1>23 DEF Wipe
  <2>2. SubSeq(log, 1, 0) = <<>> /\ 0 \in 0..Len(log)
    BY <1>a
  <2>3. <<>> \in Kept!Remains(log)
    BY <2>2 DEF Kept!Remains
  <2>4. QED BY <2>1, <2>3 DEF LogChange
<1>24. CASE Redeploy
  BY <1>24, <1>c DEF Redeploy, Undisturbed, logVars, ghosts, vars
<1>25. CASE PowerCut
  BY <1>25 DEF PowerCut, LogChange
<1>26. CASE UNCHANGED vars
  BY <1>26, <1>c DEF vars, logVars, gpioVars, mainVars, systemVars, ghosts
<1>27. QED BY <1>1, <1>2, <1>3, <1>4, <1>5, <1>6, <1>7, <1>8, <1>9, <1>10, <1>11, <1>12, <1>13,
     <1>14, <1>15, <1>16, <1>17, <1>18, <1>19, <1>20, <1>21, <1>22, <1>23, <1>24, <1>25, <1>26
     DEF Next, Main, Environment

\* Pieces of the file are numbers.
LEMMA LogElements ==
  ASSUME NEW q \in Seq(-1..MaxFrames)
  PROVE  Len(q) \in Nat /\ \A i \in 1..Len(q) : q[i] \in -1..MaxFrames /\ q[i] \in Int
<1>1. Len(q) \in Nat /\ q \in [1..Len(q) -> -1..MaxFrames]
  BY LenProperties
<1>2. \A x \in -1..MaxFrames : x \in Int
  OBVIOUS
<1>3. QED BY <1>1, <1>2

\* What storage leaves of a file has no later frames than the file had.
LEMMA RemainsBelow ==
  ASSUME NEW q \in Seq(-1..MaxFrames), NEW n \in Nat, Below(q, n), NEW r \in Kept!Remains(q)
  PROVE  r \in Seq(-1..MaxFrames) /\ Below(r, n)
<1> DEFINE S == -1..MaxFrames
<1>0. -1 \in S
  BY FaultsAssumption DEF FaultsAssumption
<1>1. ASSUME NEW k \in 0..Len(q)
      PROVE  /\ SubSeq(q, 1, k) \in Seq(S) /\ Len(SubSeq(q, 1, k)) = k
             /\ \A i \in 1..k : SubSeq(q, 1, k)[i] = q[i]
  <2>1. k \in Int /\ 1 \in Int /\ (\A i \in 1..k : q[i] \in S)
    BY <1>1, LogElements
  <2>2. /\ SubSeq(q, 1, k) \in Seq(S)
        /\ Len(SubSeq(q, 1, k)) = IF 1 <= k THEN k - 1 + 1 ELSE 0
        /\ \A i \in 1..(k - 1 + 1) : SubSeq(q, 1, k)[i] = q[1 + i - 1]
    BY <2>1, SubSeqProperties
  <2>3. QED BY <1>1, <2>2
<1>2. CASE \E k \in 0..Len(q) : r = SubSeq(q, 1, k)
  <2>1. PICK k \in 0..Len(q) : r = SubSeq(q, 1, k)
    BY <1>2
  <2>2. QED BY <2>1, <1>1 DEF Below
<1>3. CASE \E k \in 0..Len(q) - 1 : r = Append(SubSeq(q, 1, k), Kept!Torn)
  <2>1. PICK k \in 0..Len(q) - 1 : r = Append(SubSeq(q, 1, k), -1)
    BY <1>3 DEF Kept!Torn
  <2>2. k \in 0..Len(q)
    OBVIOUS
  <2>3. r \in Seq(S) /\ Len(r) = k + 1 /\ r[k + 1] = -1
        /\ \A i \in 1..k : r[i] = SubSeq(q, 1, k)[i]
    BY <1>0, <1>1, <2>1, <2>2, AppendProperties
  <2>4. ASSUME NEW i \in 1..Len(r) PROVE r[i] < n
    <3>1. CASE i = k + 1
      BY <2>3, <3>1
    <3>2. CASE i \in 1..k
      BY <1>1, <2>2, <2>3, <3>2 DEF Below
    <3>3. QED BY <2>3, <2>4, <3>1, <3>2
  <2>5. QED BY <2>3, <2>4 DEF Below
<1>4. QED BY <1>2, <1>3 DEF Kept!Remains

\* A step leaves the number of frames alone, or a frame comes.
FrameChange ==
  \/ frames' = frames /\ (pc' \in {"forward", "flush"} => pc \in {"forward", "flush"})
  \/ frames' = frames + 1 /\ log' = log

\* A frame comes with no change of the file, and only where no other is in the works.
LEMMA FrameChanges == [Next]_vars => FrameChange
<1> SUFFICES ASSUME [Next]_vars PROVE FrameChange
  OBVIOUS
<1> USE DEF vars, logVars, gpioVars, mainVars, systemVars, ghosts, FrameChange
<1>1. CASE CheckArgs
  BY <1>1 DEF CheckArgs, Return, End, CloseLog, Written, FreshProcess, Goto, Undisturbed
<1>2. CASE LoadModel
  BY <1>2 DEF LoadModel, At, Goto
<1>3. CASE LoadModelFails
  BY <1>3 DEF LoadModelFails, Return, End, CloseLog, Written, FreshProcess, Fault
<1>4. CASE InitLog
  BY <1>4 DEF InitLog, At, Goto, OpenLog, Header, Fault
<1>5. CASE InitMarker
  BY <1>5 DEF InitMarker, At, Goto, GpioInit, GpioInitFails, Fault
<1>6. CASE InstallHandlers
  BY <1>6 DEF InstallHandlers, At, Goto
<1>7. CASE CreateContext
  BY <1>7 DEF CreateContext, At, Goto
<1>8. CASE StartupFails
  BY <1>8 DEF StartupFails, Return, End, CloseLog, Written, FreshProcess, Fault
<1>9. CASE CreateVhost("controller vhost", "controller", "icu vhost")
  BY <1>9 DEF CreateVhost, At, Goto
<1>10. CASE CreateVhost("icu vhost", "icu", "start")
  BY <1>10 DEF CreateVhost, At, Goto
<1>11. CASE StartServer
  BY <1>11 DEF StartServer, At, Goto
<1>12. CASE Loop
  BY <1>12 DEF Loop, At, Goto
<1>13. CASE Forward
  BY <1>13 DEF Forward, At, Goto, PrintRow
<1>14. CASE FinishRow
  BY <1>14 DEF FinishRow, FlushRow, Written, Goto
<1>15. CASE FrameDone
  BY <1>15 DEF FrameDone, At, Goto, SetMarker, GpioSet, GpioSetFails, Fault
<1>16. CASE ShutDown
  BY <1>16 DEF ShutDown, At, Goto, CloseLog, Written
<1>17. CASE Destroy
  BY <1>17 DEF Destroy, Return, End, CloseLog, Written, FreshProcess
<1>18. CASE ServiceReturns
  BY <1>18 DEF ServiceReturns, At, Goto
<1>19. CASE Start("inactive") \/ Start("restarting")
  BY <1>19 DEF Start, Undisturbed
<1>20. CASE FrameComplete
  BY <1>20 DEF FrameComplete, Goto, SetMarker, GpioSet, GpioSetFails, Fault
<1>21. CASE Interrupt \/ Stop
  BY <1>21 DEF Interrupt, Stop, Signalled, DropStream, End, FreshProcess, Undisturbed
<1>22. CASE Killed
  BY <1>22 DEF Killed, Fault, DropStream, End, FreshProcess
<1>23. CASE Wipe
  BY <1>23 DEF Wipe, Fault
<1>24. CASE Redeploy
  BY <1>24 DEF Redeploy, Undisturbed
<1>25. CASE PowerCut
  BY <1>25 DEF PowerCut, Fault, FreshProcess
<1>26. CASE UNCHANGED vars
  BY <1>26
<1>27. QED BY <1>1, <1>2, <1>3, <1>4, <1>5, <1>6, <1>7, <1>8, <1>9, <1>10, <1>11, <1>12, <1>13,
     <1>14, <1>15, <1>16, <1>17, <1>18, <1>19, <1>20, <1>21, <1>22, <1>23, <1>24, <1>25, <1>26
     DEF Next, Main, Environment

\* The rows stay in order, whichever way the file changes.
LEMMA LogOrderedStep ==
  Counted /\ LogOrdered /\ LogChange /\ FrameChange /\ stream' \in {"closed", "open", "detached"}
    => LogOrdered'
<1> SUFFICES ASSUME Counted, LogOrdered, LogChange, FrameChange PROVE LogOrdered'
  OBVIOUS
<1>1. /\ log \in Seq(-1..MaxFrames) /\ frames \in 0..MaxFrames /\ MaxFrames \in Nat
      /\ Below(log, frames + 1)
      /\ pc \in {"forward", "flush"} => Below(log, frames)
  BY FaultsAssumption DEF LogOrdered, Counted, FaultsAssumption
<1>2. CASE log' = log /\ (stream' = "open" => log # <<>>)
  <2>1. CASE frames' = frames
    BY <1>1, <1>2, <2>1 DEF FrameChange, LogOrdered
  <2>2. CASE frames' = frames + 1
    <3>1. Below(log', frames') /\ log' \in Seq(-1..MaxFrames)
      BY <1>1, <1>2, <2>2
    <3>2. Below(log', frames' + 1)
      BY <3>1, <1>1, <2>2 DEF Below
    <3>3. QED BY <3>1, <3>2, <1>2 DEF LogOrdered
  <2>3. QED BY <2>1, <2>2 DEF FrameChange
<1>3. CASE log = <<>> /\ log' = <<Header>> /\ pc' = "gpio"
  <2>1. frames' \in Nat
    BY <1>1 DEF FrameChange
  <2>2. <<Header>> \in Seq(-1..MaxFrames) /\ Len(<<Header>>) = 1 /\ <<Header>>[1] = 0
    BY <1>1 DEF Header
  <2>3. Below(<<Header>>, frames' + 1)
    BY <2>1, <2>2 DEF Below
  <2>4. QED BY <1>3, <2>2, <2>3 DEF LogOrdered
<1>4. CASE /\ pc = "flush" /\ pc' = "lower" /\ stream = "open" /\ log' = Append(log, frames)
  <2>1. frames \in -1..MaxFrames
    BY <1>1
  <2>2. /\ log' \in Seq(-1..MaxFrames) /\ Len(log') = Len(log) + 1 /\ log' # <<>>
        /\ log'[Len(log) + 1] = frames /\ \A i \in 1..Len(log) : log'[i] = log[i]
    BY <1>1, <1>4, <2>1, AppendProperties
  <2>3. \A i \in 1..Len(log) : log[i] \in Int
    BY <1>1, LogElements
  <2>4. frames' \in Nat /\ frames' >= frames
    BY <1>1 DEF FrameChange
  <2>5. ASSUME NEW i \in 1..Len(log') PROVE log'[i] < frames' + 1
    <3>1. CASE i = Len(log) + 1
      BY <1>1, <2>2, <2>4, <3>1
    <3>2. CASE i \in 1..Len(log)
      <4>1. log[i] < frames
        BY <1>1, <1>4, <3>2 DEF Below
      <4>2. log[i] \in Int
        BY <2>3, <3>2
      <4>3. log'[i] = log[i]
        BY <2>2, <3>2
      <4>4. \A e, n, m \in Int : e < n /\ m >= n => e < m + 1
        OBVIOUS
      <4>5. frames \in Int /\ frames' \in Int
        BY <1>1, <2>4
      <4>6. QED BY <2>4, <4>1, <4>2, <4>3, <4>4, <4>5
    <3>3. QED BY <1>1, <2>2, <3>1, <3>2
  <2>6. QED BY <1>4, <2>2, <2>5 DEF LogOrdered, Below
<1>5. CASE log' \in Kept!Remains(log) /\ stream' # "open"
  <2>1. \A n \in Nat : Below(log, n) => log' \in Seq(-1..MaxFrames) /\ Below(log', n)
    BY <1>1, <1>5, RemainsBelow
  <2>2. CASE frames' = frames
    BY <1>1, <1>5, <2>1, <2>2 DEF FrameChange, LogOrdered
  <2>3. CASE frames' = frames + 1
    <3>1. Below(log, frames' + 1)
      BY <1>1, <2>3 DEF Below
    <3>2. QED BY <1>1, <1>5, <2>1, <2>3, <3>1 DEF LogOrdered
  <2>4. QED BY <2>2, <2>3 DEF FrameChange
<1>6. QED BY <1>2, <1>3, <1>4, <1>5 DEF LogChange

\* RowsSurvive, with what makes it inductive.
RowsKept == RowsSurvive /\ (intact => stream # "detached")

\* What a step does to the frames recorded.
RecordedChange ==
  /\ \/ recorded' = recorded
     \/ /\ pc = "flush" /\ pc' = "lower" /\ stream # "closed"
        /\ recorded' = recorded \cup {frames}
        /\ stream = "open" => log' = Append(log, frames)
  /\ intact' => intact
  /\ stream' = "detached" => stream = "detached" \/ ~intact'

\* A frame is recorded only by the fflush that puts its row into the file.
LEMMA RecordedChanges ==
  SystemTyped /\ Counted /\ Streams /\ LogOrdered /\ [Next]_vars => RecordedChange
<1> SUFFICES ASSUME SystemTyped, Counted, Streams, LogOrdered, [Next]_vars PROVE RecordedChange
  OBVIOUS
<1>1. CASE CheckArgs
  BY <1>1 DEF RecordedChange, CheckArgs, Return, End, CloseLog, Written, FreshProcess, Goto,
       Undisturbed, vars, logVars, ghosts
<1>2. CASE LoadModel
  BY <1>2 DEF RecordedChange, LoadModel, At, Goto, vars, logVars, ghosts
<1>3. CASE LoadModelFails
  BY <1>3 DEF RecordedChange, LoadModelFails, Return, End, CloseLog, Written, FreshProcess,
       Fault, vars, logVars, ghosts
<1>4. CASE InitLog
  BY <1>4 DEF RecordedChange, InitLog, At, Goto, OpenLog, Header, Fault, vars, logVars, ghosts
<1>5. CASE InitMarker
  BY <1>5 DEF RecordedChange, InitMarker, At, Goto, GpioInit, GpioInitFails, Fault, vars,
       logVars, ghosts
<1>6. CASE InstallHandlers
  BY <1>6 DEF RecordedChange, InstallHandlers, At, Goto, vars, logVars, ghosts
<1>7. CASE CreateContext
  BY <1>7 DEF RecordedChange, CreateContext, At, Goto, vars, logVars, ghosts
<1>8. CASE StartupFails
  BY <1>8 DEF RecordedChange, StartupFails, Return, End, CloseLog, Written, FreshProcess,
       Fault, vars, logVars, ghosts
<1>9. CASE CreateVhost("controller vhost", "controller", "icu vhost")
  BY <1>9 DEF RecordedChange, CreateVhost, At, Goto, vars, logVars, ghosts
<1>10. CASE CreateVhost("icu vhost", "icu", "start")
  BY <1>10 DEF RecordedChange, CreateVhost, At, Goto, vars, logVars, ghosts
<1>11. CASE StartServer
  BY <1>11 DEF RecordedChange, StartServer, At, Goto, vars, logVars, ghosts
<1>12. CASE Loop
  BY <1>12 DEF RecordedChange, Loop, At, Goto, vars, logVars, ghosts
<1>13. CASE Forward
  BY <1>13 DEF RecordedChange, Forward, At, Goto, PrintRow, vars, logVars, ghosts
<1>14. CASE FinishRow
  <2>1. frames \in 1..MaxFrames /\ pc = "flush" /\ pc' = "lower" /\ stream' = stream /\ log' =
       Written /\ intact' = intact
    BY <1>14 DEF FinishRow, FlushRow, Goto, Counted, Handling
  <2>2. Written = IF stream = "open" THEN Append(log, frames) ELSE log
    BY <2>1, RowBuffered DEF LogOrdered
  <2>3. recorded' = IF stream = "closed" THEN recorded ELSE recorded \cup {frames}
    BY <1>14 DEF FinishRow
  <2>4. QED BY <2>1, <2>2, <2>3 DEF RecordedChange
<1>15. CASE FrameDone
  BY <1>15 DEF RecordedChange, FrameDone, At, Goto, SetMarker, GpioSet, GpioSetFails, Fault,
       vars, logVars, ghosts
<1>16. CASE ShutDown
  BY <1>16 DEF RecordedChange, ShutDown, At, Goto, CloseLog, Written, vars, logVars, ghosts
<1>17. CASE Destroy
  BY <1>17 DEF RecordedChange, Destroy, Return, End, CloseLog, Written, FreshProcess, vars,
       logVars, ghosts
<1>18. CASE ServiceReturns
  BY <1>18 DEF RecordedChange, ServiceReturns, At, Goto, vars, logVars, ghosts
<1>19. CASE Start("inactive") \/ Start("restarting")
  BY <1>19 DEF RecordedChange, Start, Undisturbed, vars, logVars, ghosts
<1>20. CASE FrameComplete
  BY <1>20 DEF RecordedChange, FrameComplete, Goto, SetMarker, GpioSet, GpioSetFails, Fault,
       vars, logVars, ghosts
<1>21. CASE Interrupt \/ Stop
  BY <1>21 DEF RecordedChange, Interrupt, Stop, Signalled, DropStream, End, FreshProcess,
       Undisturbed, vars, logVars, ghosts
<1>22. CASE Killed
  BY <1>22 DEF RecordedChange, Killed, Fault, DropStream, End, FreshProcess, vars, logVars, ghosts
<1>23. CASE Wipe
  BY <1>23 DEF RecordedChange, Wipe, Fault, vars, logVars, ghosts
<1>24. CASE Redeploy
  BY <1>24 DEF RecordedChange, Redeploy, Undisturbed, vars, logVars, ghosts
<1>25. CASE PowerCut
  BY <1>25 DEF RecordedChange, PowerCut, Fault, FreshProcess, vars, logVars, ghosts
<1>26. CASE UNCHANGED vars
  BY <1>26 DEF RecordedChange, vars, logVars, gpioVars, mainVars, systemVars, ghosts
<1>27. QED BY <1>1, <1>2, <1>3, <1>4, <1>5, <1>6, <1>7, <1>8, <1>9, <1>10, <1>11, <1>12, <1>13,
     <1>14, <1>15, <1>16, <1>17, <1>18, <1>19, <1>20, <1>21, <1>22, <1>23, <1>24, <1>25, <1>26
     DEF Next, Main, Environment

\* Rows of recorded frames stay, as long as storage loses nothing.
LEMMA RowsKeptStep ==
  Counted /\ Streams /\ LogOrdered /\ RowsKept /\ LogChange /\ RecordedChange => RowsKept'
<1> SUFFICES ASSUME Counted, Streams, LogOrdered, RowsKept, LogChange, RecordedChange, intact'
             PROVE  RowsKept'
  BY DEF RowsKept, RowsSurvive, RecordedChange
<1>1. intact /\ stream # "detached" /\ stream' # "detached"
  BY DEF RecordedChange, RowsKept
<1>2. \A n \in recorded : \E i \in 1..Len(log) : log[i] = n
  BY <1>1 DEF RowsKept, RowsSurvive
<1>3. SUFFICES \A n \in recorded' : \E i \in 1..Len(log') : log'[i] = n
  BY <1>1 DEF RowsKept, RowsSurvive
<1>4. CASE pc = "flush" /\ log' = Append(log, frames)
  <2>1. log \in Seq(-1..MaxFrames) /\ frames \in -1..MaxFrames
    BY FaultsAssumption DEF LogOrdered, Counted, FaultsAssumption
  <2>2. /\ Len(log') = Len(log) + 1 /\ Len(log) \in Nat
        /\ log'[Len(log) + 1] = frames /\ \A i \in 1..Len(log) : log'[i] = log[i]
    BY <1>4, <2>1, AppendProperties
  <2>3. \A n \in recorded : \E i \in 1..Len(log') : log'[i] = n
    BY <1>2, <2>2
  <2>4. \E i \in 1..Len(log') : log'[i] = frames
    BY <2>2
  <2>5. QED BY <2>3, <2>4 DEF RecordedChange
<1>5. CASE recorded' = recorded
  <2>1. CASE log' = log
    BY <1>2, <1>5, <2>1
  <2>2. CASE log = <<>>
    BY <1>2, <1>5, <2>2
  <2>3. QED BY <1>1, <1>4, <2>1, <2>2 DEF LogChange
<1>6. CASE recorded' # recorded
  BY <1>1, <1>4, <1>6 DEF RecordedChange, Streams
<1>7. QED BY <1>5, <1>6

\* The inductive invariant.
IInv ==
  /\ SystemTyped /\ ProcessTyped /\ faults \in 0..MaxFaults
  /\ Counted /\ Streams /\ Order /\ Marked
  /\ LogOrdered /\ RowsKept

\* The first state.
LEMMA InitIInv == Init => IInv
<1> SUFFICES ASSUME Init PROVE IInv
  OBVIOUS
<1>1. MaxFrames \in Nat /\ MaxFaults \in Nat
  BY FaultsAssumption DEF FaultsAssumption
<1>2. SystemTyped
  BY DEF Init, SystemTyped, Places
<1>3. ProcessTyped
  BY DEF Init, ProcessTyped
<1>4. Streams
  BY DEF Init, Streams
<1>5. Order
  BY DEF Init, Order, Listening, Serving, Handling
<1>6. Marked
  BY DEF Init, Marked, Starting, Listening, Serving, Handling
<1>7. Counted
  <2>1. intact \in BOOLEAN /\ pc \notin Handling /\ frames = 0 /\ recorded = {}
    BY DEF Init, Handling
  <2>2. frames \in 0..MaxFrames
    BY <1>1, <2>1
  <2>3. QED BY <2>1, <2>2 DEF Counted
<1>8. LogOrdered
  <2>1. log = <<>> /\ frames = 0 /\ pc = "down" /\ stream = "closed"
    BY DEF Init
  <2>2. <<>> \in Seq(-1..MaxFrames) /\ Len(<<>>) = 0
    OBVIOUS
  <2>3. QED BY <2>1, <2>2 DEF LogOrdered, Below
<1>9. RowsKept
  BY DEF Init, RowsKept, RowsSurvive
<1>10. faults \in 0..MaxFaults
  BY <1>1 DEF Init
<1>11. QED BY <1>2, <1>3, <1>4, <1>5, <1>6, <1>7, <1>8, <1>9, <1>10 DEF IInv

\* Every step preserves the inductive invariant.
LEMMA NextIInv == IInv /\ [Next]_vars => IInv'
<1> SUFFICES ASSUME IInv, [Next]_vars PROVE IInv'
  OBVIOUS
<1> USE DEF IInv
<1>1. SystemTyped' /\ ProcessTyped' /\ (faults \in 0..MaxFaults)'
  BY SystemStep, ProcessStep, FaultsStep
<1>2. Counted' /\ Streams'
  BY CountedStep, StreamsStep
<1>3. Order' /\ Marked'
  BY OrderStep, MarkedStep
<1>4. LogChange /\ FrameChange /\ RecordedChange
  BY LogChanges, FrameChanges, RecordedChanges
<1>5. LogOrdered'
  BY <1>2, <1>4, LogOrderedStep DEF Streams
<1>6. RowsKept'
  BY <1>4, RowsKeptStep
<1>7. QED BY <1>1, <1>2, <1>3, <1>5, <1>6

\* The inductive invariant holds in every state the bridge can reach, through any number of
\* processes.
THEOREM Inductive == Spec => []IInv
BY InitIInv, NextIInv, PTL DEF Spec

\* The inductive invariant has the types of TypeOK.
LEMMA IInvTyped == IInv => TypeOK
<1> SUFFICES ASSUME IInv PROVE TypeOK
  OBVIOUS
<1>1. buffered \in Seq(1..MaxFrames) /\ (stream = "closed" => buffered = <<>>)
  <2>1. CASE pc = "flush" /\ stream # "closed"
    <3>1. frames \in 1..MaxFrames
      BY <2>1 DEF IInv, Counted, Handling
    <3>2. buffered = <<frames>>
      BY <2>1 DEF IInv, Streams
    <3>3. QED BY <2>1, <3>1, <3>2
  <2>2. CASE ~(pc = "flush" /\ stream # "closed")
    <3>1. buffered = <<>>
      BY <2>2 DEF IInv, Streams
    <3>2. QED BY <3>1, EmptySeq
  <2>3. QED BY <2>1, <2>2
<1>2. log \in Seq(-1..MaxFrames) /\ stream \in {"closed", "open", "detached"}
  BY DEF IInv, LogOrdered, Streams
<1>3. QED BY <1>1, <1>2 DEF IInv, SystemTyped, ProcessTyped, Counted, TypeOK

\* The variables have their types for all argument lists and bounds.
THEOREM TypeCorrect == Spec => []TypeOK
BY Inductive, IInvTyped, PTL

\* RowsSurvive, for any number of frames and faults: no row that timing_log_record has returned
\* from is lost by kills, stops and restarts.
THEOREM RecordedRowsSurvive == Spec => []RowsSurvive
<1>1. IInv => RowsSurvive
  BY DEF IInv, RowsKept
<1>2. QED BY Inductive, <1>1, PTL

\* MarkerMeansFrame, for any number of frames and faults: where no write to it has failed, the
\* pin is high in handlers, and low in the loop, in shutdown and after a process that returned 0.
THEOREM MarkerTells == Spec => []MarkerMeansFrame
<1>1. IInv => MarkerMeansFrame
  BY DEF IInv, Marked, MarkerMeansFrame, Starting, Listening, Serving, Handling
<1>2. QED BY Inductive, <1>1, PTL

\* ServedWhenReady: no callback of main()'s loop runs before start-up is complete.
THEOREM ReadyBeforeServing == Spec => []ServedWhenReady
<1>1. IInv => ServedWhenReady
  BY DEF IInv, ProcessTyped, Order, ServedWhenReady, Listening, Serving, Handling
<1>2. QED BY Inductive, <1>1, PTL

\* Every step of the bridge is a step of the abstract log, or leaves it alone.
LEMMA CaptureStep == IInv /\ [Next]_vars => [Kept!Next]_log
<1> SUFFICES ASSUME IInv, [Next]_vars PROVE [Kept!Next]_log
  OBVIOUS
<1>1. LogChange /\ Counted /\ LogOrdered
  BY LogChanges DEF IInv
<1>2. CASE log = <<>> /\ log' = <<Header>>
  BY <1>2 DEF Header, Kept!Header, Kept!Begin, Kept!Next
<1>3. CASE pc = "flush" /\ stream = "open" /\ log' = Append(log, frames)
  <2>1. frames \in 1..MaxFrames
    BY <1>1, <1>3 DEF Counted, Handling
  <2>2. log # <<>> /\ \A i \in 1..Len(log) : log[i] < frames
    BY <1>1, <1>3 DEF LogOrdered, Below
  <2>3. Kept!Row
    BY <1>3, <2>1, <2>2 DEF Kept!Row
  <2>4. QED BY <2>3 DEF Kept!Next
<1>4. CASE log' \in Kept!Remains(log)
  BY <1>4 DEF Kept!Lose, Kept!Next
<1>5. QED BY <1>1, <1>2, <1>3, <1>4 DEF LogChange

\* KeepsCapture: the file timing_log.cpp writes over all processes is the capture timing_log.h
\* promises, but for ends lost.  (That none is lost while storage keeps the file is
\* RecordedRowsSurvive.)
THEOREM CaptureKept == Spec => KeepsCapture
<1>1. Init => Kept!Init
  BY DEF Init, Kept!Init
<1>2. QED BY Inductive, <1>1, CaptureStep, PTL DEF Spec, KeepsCapture, Kept!Spec

\* Whichever step ends in a process that returned 1, it is one of those main() checks.
LEMMA GivesUpStep ==
  [Next]_vars /\ pc' = "down" /\ exit' = "returned 1" =>
    pc \in {"down", "args", "motor", "context", "controller vhost", "icu vhost"}
<1> SUFFICES ASSUME [Next]_vars, pc' = "down", exit' = "returned 1"
             PROVE  pc \in {"down", "args", "motor", "context", "controller vhost", "icu vhost"}
  OBVIOUS
<1> USE DEF vars, logVars, gpioVars, mainVars, systemVars, ghosts
<1>1. CASE CheckArgs
  BY <1>1 DEF CheckArgs, Return, End, CloseLog, Written, FreshProcess, Goto, Undisturbed
<1>2. CASE LoadModel
  BY <1>2 DEF LoadModel, At, Goto
<1>3. CASE LoadModelFails
  BY <1>3 DEF LoadModelFails, Return, End, CloseLog, Written, FreshProcess, Fault
<1>4. CASE InitLog
  BY <1>4 DEF InitLog, At, Goto, OpenLog, Header, Fault
<1>5. CASE InitMarker
  BY <1>5 DEF InitMarker, At, Goto, GpioInit, GpioInitFails, Fault
<1>6. CASE InstallHandlers
  BY <1>6 DEF InstallHandlers, At, Goto
<1>7. CASE CreateContext
  BY <1>7 DEF CreateContext, At, Goto
<1>8. CASE StartupFails
  BY <1>8 DEF StartupFails, Return, End, CloseLog, Written, FreshProcess, Fault
<1>9. CASE CreateVhost("controller vhost", "controller", "icu vhost")
  BY <1>9 DEF CreateVhost, At, Goto
<1>10. CASE CreateVhost("icu vhost", "icu", "start")
  BY <1>10 DEF CreateVhost, At, Goto
<1>11. CASE StartServer
  BY <1>11 DEF StartServer, At, Goto
<1>12. CASE Loop
  BY <1>12 DEF Loop, At, Goto
<1>13. CASE Forward
  BY <1>13 DEF Forward, At, Goto, PrintRow
<1>14. CASE FinishRow
  BY <1>14 DEF FinishRow, FlushRow, Written, Goto
<1>15. CASE FrameDone
  BY <1>15 DEF FrameDone, At, Goto, SetMarker, GpioSet, GpioSetFails, Fault
<1>16. CASE ShutDown
  BY <1>16 DEF ShutDown, At, Goto, CloseLog, Written
<1>17. CASE Destroy
  BY <1>17 DEF Destroy, Return, End, CloseLog, Written, FreshProcess
<1>18. CASE ServiceReturns
  BY <1>18 DEF ServiceReturns, At, Goto
<1>19. CASE Start("inactive") \/ Start("restarting")
  BY <1>19 DEF Start, Undisturbed
<1>20. CASE FrameComplete
  BY <1>20 DEF FrameComplete, Goto, SetMarker, GpioSet, GpioSetFails, Fault
<1>21. CASE Interrupt \/ Stop
  BY <1>21 DEF Interrupt, Stop, Signalled, DropStream, End, FreshProcess, Undisturbed
<1>22. CASE Killed
  BY <1>22 DEF Killed, Fault, DropStream, End, FreshProcess
<1>23. CASE Wipe
  BY <1>23 DEF Wipe, Fault
<1>24. CASE Redeploy
  BY <1>24 DEF Redeploy, Undisturbed
<1>25. CASE PowerCut
  BY <1>25 DEF PowerCut, Fault, FreshProcess
<1>26. CASE UNCHANGED vars
  BY <1>26
<1>27. QED BY <1>1, <1>2, <1>3, <1>4, <1>5, <1>6, <1>7, <1>8, <1>9, <1>10, <1>11, <1>12, <1>13,
     <1>14, <1>15, <1>16, <1>17, <1>18, <1>19, <1>20, <1>21, <1>22, <1>23, <1>24, <1>25, <1>26
     DEF Next, Main, Environment

\* DiagnosticsNeverFatal: whatever becomes of log and pin, start-up goes on.
THEOREM NeverFatal == Spec => DiagnosticsNeverFatal
<1>1. [Next]_vars => [(pc' = "down" /\ exit' = "returned 1") =>
                        pc \in {"down", "args", "motor", "context",
                             "controller vhost", "icu vhost"}]_vars
  BY GivesUpStep
<1>2. QED BY <1>1, PTL DEF Spec, DiagnosticsNeverFatal
==============================================================================
