------------------------------- MODULE Periph -------------------------------
(***************************************************************************)
(* The peripherals task of periph.c: each round samples the button (module *)
(* Button) and then drives the status LED.  Times are in ticks of 10 ms.   *)
(* The task has the lowest priority, so main's periph_status_led_mode_set  *)
(* runs in one go but may come anywhere in a round: between the task's     *)
(* look at s_led_mode and what it does about it is one step of its own.    *)
(*                                                                         *)
(* The pad shows the output register unless it is held, when it keeps what *)
(* it showed.  STATUS_LED_EN is not modelled: nothing sets it.  tm stops   *)
(* at the highest value that the code distinguishes.                       *)
(***************************************************************************)
EXTENDS Button

CONSTANTS
  BLINK_INTV,   \* PERIPH_STATUS_LED_BLINK_INTV_MS, 50 ticks in the code
  FLASH_INTV,   \* PERIPH_STATUS_LED_FLASH_INTV_MS, 100 ticks in the code
  FLASH_LIT     \* the 20 ms of a flash, 2 ticks in the code

ASSUME PeriphAssumption ==
  /\ BLINK_INTV \in Nat /\ FLASH_INTV \in Nat /\ FLASH_LIT \in Nat
  /\ FLASH_LIT <= FLASH_INTV /\ BLINK_INTV <= FLASH_INTV

VARIABLES
  s_led_mode,   \* what main has asked for
  seen,         \* the mode this round has read, or "none" between rounds
  tm,           \* ticks since the LED was last changed
  level,        \* BLINK: what to set next; FLASH: what it was set to
  register,     \* what gpio_set_level wrote last
  held,         \* gpio_hold_en is in force
  lit           \* what the pad shows

ledVars == <<tm, level, register, held, lit>>
periphVars == <<buttonVars, s_led_mode, seen, ledVars>>

LedModes == {"OFF", "BLINK", "FLASH"}

PeriphInit ==
  /\ Init
  /\ s_led_mode = "OFF" /\ seen = "none"
  /\ tm = 0 /\ level = FALSE
  /\ register = FALSE /\ held = TRUE /\ lit = FALSE

gpio_set_level(on) ==
  /\ register' = on
  /\ lit' = IF held THEN lit ELSE on

-----------------------------------------------------------------------------
(* A round of periph_task: the button, then the switch on the mode ...     *)
RoundBegins ==
  /\ seen = "none" /\ seen' = s_led_mode
  /\ Tick
  /\ UNCHANGED <<s_led_mode, ledVars>>

(* ... and what periph_status_led_tick does about it.                      *)
Waits == tm' = UpTo(FLASH_INTV + 1, tm + 1) /\ UNCHANGED <<level, register, lit>>

Sets(on) == tm' = 1 /\ gpio_set_level(on)

Blink == IF tm <= BLINK_INTV THEN Waits ELSE Sets(level) /\ level' = ~level

Flash ==
  IF tm > (IF level THEN FLASH_LIT ELSE FLASH_INTV)
  THEN Sets(~level) /\ level' = ~level
  ELSE Waits

periph_status_led_tick ==
  /\ seen # "none" /\ seen' = "none"
  /\ \/ seen = "BLINK" /\ Blink
     \/ seen = "FLASH" /\ Flash
     \/ seen = "OFF" /\ Waits
  /\ UNCHANGED <<s_led_mode, held, buttonVars>>

(* Slip: a dark LED is not held, so a round under way may light it.        *)
HoldsNothing(mode) == FALSE

(* Slip: the hold is never released.                                       *)
HoldsAlways(mode) == TRUE

HoldsPad(mode) == mode = "OFF"

periph_status_led_mode_set(mode) ==
  /\ s_led_mode' = mode
  /\ register' = (mode # "OFF" /\ register)
  /\ held' = HoldsPad(mode)
  /\ lit' = IF held /\ held' THEN lit ELSE register'
  /\ UNCHANGED <<tm, level, seen, buttonVars>>

periph_task == RoundBegins \/ periph_status_led_tick

PeriphNext == \/ periph_task
              \/ \E mode \in LedModes : periph_status_led_mode_set(mode)

PeriphSpec == PeriphInit /\ [][PeriphNext]_periphVars /\ WF_periphVars(periph_task)

-----------------------------------------------------------------------------
(* Properties.                                                             *)

(* While the mode is OFF the LED is dark, also when the mode was set in    *)
(* the middle of a round that had decided to light it.                     *)
DarkWhenOff == s_led_mode = "OFF" => ~lit

(* A mode that stays set is shown: the LED keeps going on and off,         *)
(* whatever the modes before it left in level, tm and the hold.            *)
LedSignals ==
  \A mode \in {"BLINK", "FLASH"} :
    <>[](s_led_mode = mode) => []<>lit /\ []<>~lit
=============================================================================
