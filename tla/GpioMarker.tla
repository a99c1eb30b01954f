------------------------------ MODULE GpioMarker ------------------------------
(***************************************************************************)
(* gpio_toggle.cpp: a pin driven through sysfs as a marker that a frame is *)
(* in the works.  The pin and its export belong to the kernel and survive  *)
(* the process; g_ready does not.                                          *)
(***************************************************************************)
EXTENDS Integers

VARIABLES
  pin,        \* the level of gpio5: 0 or 1
  exported,   \* /sys/class/gpio/gpio5 exists
  ready       \* g_ready

gpioVars == <<pin, exported, ready>>

\* gpio_toggle_init, when every write succeeds.  Writing "out" to the direction file
\* drives the pin low already.
BrokenGpioInit ==
  /\ pin' = IF exported THEN pin ELSE 0
  /\ exported' = TRUE
  /\ ready' = TRUE

GpioInit ==
  /\ pin' = 0
  /\ exported' = TRUE
  /\ ready' = TRUE

\* gpio_toggle_init, when one does not.
GpioInitFails ==
  /\ \/ ~exported /\ UNCHANGED <<pin, exported>>                 \* export, so no direction file
     \/ exported' = TRUE /\ pin' \in {pin, 0}                    \* direction, or value
  /\ UNCHANGED ready

\* gpio_toggle_set
GpioSet(state) ==
  /\ pin' = IF ready THEN state ELSE pin
  /\ UNCHANGED <<exported, ready>>

\* gpio_toggle_set, when the write fails
GpioSetFails == ready /\ UNCHANGED gpioVars
=============================================================================
