------------------------------- MODULE Button -------------------------------
(***************************************************************************)
(* The button of the headset (periph.c): periph_btn_tick samples the level *)
(* every tick, debounces it, counts clicks and recognises a long press,    *)
(* and the handler turns a gesture into an event of the main loop.  Times  *)
(* are in ticks of 10 ms.  One step is one tick; the finger, and how the   *)
(* contact bounces after it moved, are chosen freely.                      *)
(*                                                                         *)
(* The timers and the click counter grow without bound in the code; here   *)
(* they stop at the highest value the code distinguishes.                  *)
(***************************************************************************)
EXTENDS Naturals

CONSTANTS
  DEBOUNCE,     \* PERIPH_BTN_DEBOUNCE_MS, 15 ticks in the code
  LONG_CLICK,   \* PERIPH_BTN_LONG_CLICK_MS, 100 ticks in the code
  Bounce        \* bound: ticks the contact bounces after a move

ASSUME ButtonAssumption ==
  /\ DEBOUNCE \in Nat \ {0}
  /\ LONG_CLICK \in Nat \ {0}
  /\ Bounce \in Nat /\ Bounce < DEBOUNCE

VARIABLES
  last_level,    \* the debounced level: TRUE is pressed
  debounce_tm,   \* ticks since the last release, or since the start
  press_tm,      \* ticks of the present press
  long_press,    \* the press has been reported as a long one
  click_count,   \* presses released in this gesture
  posted,        \* the event this tick posted, or "none"
  finger,        \* whether the finger is on the button
  hold,          \* history: ticks of the present or latest press
  rest,          \* history: ticks off since it, or before the present one
  presses,       \* history: presses of this gesture
  reported       \* history: the event the latest press caused, or "none"

btnVars == <<last_level, debounce_tm, press_tm, long_press, click_count, posted>>
userVars == <<finger, hold, rest, presses, reported>>
buttonVars == <<btnVars, userVars>>

UpTo(limit, n) == IF n < limit THEN n ELSE limit

GestureGap == 2 * DEBOUNCE
WakeupTime == LONG_CLICK + 2 * DEBOUNCE   \* how long periph_did_wakeup waits
ManyClicks == 3                      \* any count but 0, 1 and 2

Init ==
  /\ last_level = FALSE /\ debounce_tm = 0 /\ press_tm = 0
  /\ long_press = FALSE /\ click_count = 0 /\ posted = "none"
  /\ finger = FALSE /\ hold = 0 /\ rest = 0 /\ presses = 0
  /\ reported = "none"

-----------------------------------------------------------------------------
(* periph_btn_tick, which reads the level TRUE for pressed.                *)

(* Slip: a press counts only after the time that ends a gesture.           *)
PressStartsLate(level) ==
  level /\ ~last_level /\ debounce_tm >= GestureGap

PressStarts(level) == level /\ ~last_level /\ debounce_tm >= DEBOUNCE
PressEnds(level) == ~level /\ last_level
PressGoesOn(level) == level /\ last_level

PressTime(level) ==
  CASE PressStarts(level) -> 0
    [] PressGoesOn(level) -> UpTo(LONG_CLICK, press_tm + 1)
    [] OTHER              -> press_tm

LongPress(level) ==
  PressGoesOn(level) /\ ~long_press /\ PressTime(level) >= LONG_CLICK

DebounceTime(level) == IF PressEnds(level) THEN 0 ELSE debounce_tm

(* Slip: half the pause ends a gesture.                                    *)
GestureEndsEarly(level) == ~level /\ DebounceTime(level) >= DEBOUNCE

GestureEnds(level) == ~level /\ DebounceTime(level) >= GestureGap

(* periph_main_btn_handler: a call without a long press does nothing.      *)
periph_main_btn_handler(count) ==
  CASE count = 0 -> "POWER_SWITCH"
    [] count = 2 -> "CONF_SWITCH"
    [] OTHER     -> "none"

periph_btn_tick(level) ==
  /\ last_level' = IF PressStarts(level) THEN TRUE
                   ELSE IF PressEnds(level) THEN FALSE ELSE last_level
  /\ press_tm' = PressTime(level)
  /\ long_press' = IF PressStarts(level) \/ GestureEnds(level) THEN FALSE
                   ELSE long_press \/ LongPress(level)
  /\ click_count' = IF GestureEnds(level) THEN 0
                    ELSE IF PressEnds(level)
                    THEN UpTo(ManyClicks, click_count + 1) ELSE click_count
  /\ debounce_tm' = UpTo(GestureGap, DebounceTime(level) + 1)
  /\ posted' = IF LongPress(level) THEN periph_main_btn_handler(click_count)
               ELSE "none"

-----------------------------------------------------------------------------
(* The user.  A press that ends within the debounce time of the release    *)
(* before it is no click: the user is slower than that.                    *)

Moves == IF finger /\ rest + hold <= DEBOUNCE THEN {TRUE} ELSE BOOLEAN

(* The contact follows the finger, and bounces for a while after a move.   *)
Levels(pressed) ==
  LET ticks == IF pressed # finger THEN 0 ELSE IF pressed THEN hold ELSE rest
  IN  {pressed} \cup IF ticks < Bounce THEN {FALSE, TRUE} ELSE {}

User(pressed) ==
  LET begins == pressed /\ ~finger
      ends == ~pressed /\ finger
  IN  /\ finger' = pressed
      /\ hold' = IF begins THEN 1
                 ELSE IF pressed THEN UpTo(WakeupTime, hold + 1) ELSE hold
      /\ rest' = IF ends THEN 1
                 ELSE IF pressed THEN rest ELSE UpTo(GestureGap + 1, rest + 1)
      /\ presses' = IF ~begins THEN presses
                    ELSE IF rest > GestureGap THEN 1
                    ELSE UpTo(ManyClicks + 1, presses + 1)
      /\ reported' = IF posted' # "none" THEN posted'
                     ELSE IF begins THEN "none" ELSE reported

Tick == \E pressed \in Moves : \E level \in Levels(pressed) :
          periph_btn_tick(level) /\ User(pressed)

Next == Tick

Spec == Init /\ [][Next]_buttonVars

-----------------------------------------------------------------------------
(* Properties.                                                             *)

(* The event the user meant by the present hold: main.c's power switch for *)
(* "just a long press", the mode switch for "double click + long press".   *)
Meant == CASE presses = 1 -> "POWER_SWITCH"
           [] presses = 3 -> "CONF_SWITCH"
           [] OTHER       -> "none"

(* An event is posted only for the gesture the user made.                  *)
Recognised == posted # "none" => /\ finger /\ hold >= LONG_CLICK
                                 /\ posted = Meant

(* A long press is reported while the finger is still on, and within the   *)
(* time that periph_did_wakeup waits for the press that woke the device.   *)
LongPressReports ==
  finger /\ hold = WakeupTime => reported = Meant
=============================================================================
