---------------------------- MODULE PeriphProofs ----------------------------
(***************************************************************************)
(* Proofs about the peripherals task: the LED for every interval, and the  *)
(* button for every debounce and long-press time, with clean edges.        *)
(***************************************************************************)
EXTENDS Periph, TLAPS

-----------------------------------------------------------------------------
(* The LED.                                                                *)

(* The pad is held exactly while the mode is OFF, and was dark when it was *)
(* held first: whatever a round under way writes, it does not show.        *)
HoldInv ==
  /\ held = (s_led_mode = "OFF")
  /\ held => ~lit

LEMMA StepHold == HoldInv /\ [PeriphNext]_periphVars => HoldInv'
<1> SUFFICES ASSUME HoldInv, [PeriphNext]_periphVars PROVE HoldInv'  OBVIOUS
<1> USE DEF HoldInv
<1>1. CASE RoundBegins
  BY <1>1 DEF RoundBegins, ledVars
<1>2. CASE periph_status_led_tick
  BY <1>2 DEF periph_status_led_tick, Blink, Flash, Waits, Sets, gpio_set_level
<1>3. ASSUME NEW mode \in LedModes, periph_status_led_mode_set(mode)
      PROVE  HoldInv'
  BY <1>3 DEF periph_status_led_mode_set, HoldsPad
<1>4. CASE UNCHANGED periphVars
  BY <1>4 DEF periphVars, ledVars
<1> QED BY <1>1, <1>2, <1>3, <1>4 DEF PeriphNext, periph_task

(* A device whose mode is OFF is dark, also when the mode was set in the   *)
(* middle of a round of periph_task that had decided to light the LED.     *)
THEOREM OffIsDark == PeriphSpec => []DarkWhenOff
<1>1. PeriphInit => HoldInv  BY DEF PeriphInit, HoldInv
<1>2. HoldInv => DarkWhenOff  BY DEF HoldInv, DarkWhenOff
<1> QED BY <1>1, <1>2, StepHold, PTL DEF PeriphSpec

-----------------------------------------------------------------------------
(* The button.                                                             *)

(* The level that periph_btn_tick samples is the finger's.                 *)
CleanEdges == Bounce = 0

ButtonFlags ==
  last_level \in BOOLEAN /\ long_press \in BOOLEAN /\ finger \in BOOLEAN

ButtonTypes ==
  /\ debounce_tm \in 0 .. GestureGap /\ press_tm \in 0 .. LONG_CLICK
  /\ click_count \in 0 .. ManyClicks /\ presses \in 0 .. (ManyClicks + 1)
  /\ hold \in 0 .. WakeupTime /\ rest \in 0 .. (GestureGap + 1)
  /\ finger => hold >= 1 /\ presses >= 1

(* The debounce timer counts from the last release on, and a press is taken*)
(* once it has run.                                                        *)
DebounceInv ==
  /\ debounce_tm = UpTo(GestureGap, IF finger THEN rest + hold ELSE rest)
  /\ last_level <=> finger /\ rest + hold > DEBOUNCE

(* The press timer runs from when the press is taken: from its first tick, *)
(* or from when the debounce timer had run.                                *)
PressInv ==
  last_level =>
    /\ press_tm = UpTo(LONG_CLICK, IF rest >= DEBOUNCE THEN hold - 1
                                   ELSE hold + rest - DEBOUNCE - 1)
    /\ long_press <=> press_tm = LONG_CLICK

(* The counter has the presses of this gesture that were released.         *)
ClickInv ==
  click_count = CASE finger -> presses - 1
                  [] ~finger /\ rest <= GestureGap -> UpTo(ManyClicks, presses)
                  [] OTHER -> 0

(* A press is reported, if at all, when it becomes a long one.             *)
ReportInv ==
  finger => reported = IF last_level /\ long_press THEN Meant ELSE "none"

ButtonInv == /\ ButtonFlags /\ ButtonTypes
             /\ DebounceInv /\ PressInv /\ ClickInv /\ ReportInv

LEMMA Times ==
  /\ DEBOUNCE \in Nat \ {0} /\ LONG_CLICK \in Nat \ {0}
  /\ GestureGap \in Nat /\ GestureGap = DEBOUNCE + DEBOUNCE
  /\ WakeupTime \in Nat /\ WakeupTime = LONG_CLICK + GestureGap
BY ButtonAssumption DEF GestureGap, WakeupTime

LEMMA InitButton == Init => ButtonInv /\ Recognised
<1> SUFFICES ASSUME Init PROVE ButtonInv /\ Recognised  OBVIOUS
<1>1. ButtonFlags  BY DEF Init, ButtonFlags
<1>5. ButtonTypes  BY Times DEF Init, ButtonTypes, ManyClicks
<1>2. DebounceInv  BY Times DEF Init, DebounceInv, UpTo
<1>3. PressInv /\ ReportInv /\ Recognised
  BY DEF Init, PressInv, ReportInv, Recognised
<1>4. ClickInv  BY Times DEF Init, ClickInv, UpTo, ManyClicks
<1> QED BY <1>1, <1>2, <1>3, <1>4, <1>5 DEF ButtonInv

LEMMA CleanTick ==
  ASSUME CleanEdges, ButtonInv, Tick
  PROVE  \E pressed \in Moves : periph_btn_tick(pressed) /\ User(pressed)
<1>1. PICK pressed \in Moves :
        \E sampled \in Levels(pressed) : periph_btn_tick(sampled) /\ User(pressed)
  BY DEF Tick
<1>2. hold \in Nat /\ rest \in Nat
  BY Times DEF ButtonInv, ButtonTypes
<1>3. ASSUME NEW sampled \in Levels(pressed) PROVE sampled = pressed
  <2> DEFINE ticks == IF pressed # finger THEN 0 ELSE IF pressed THEN hold ELSE rest
  <2>1. ticks \in Nat  BY <1>2
  <2>2. ~(ticks < Bounce)  BY <2>1 DEF CleanEdges
  <2>3. Levels(pressed) = {pressed} \cup IF ticks < Bounce THEN {FALSE, TRUE} ELSE {}
    BY DEF Levels
  <2> QED BY <2>2, <2>3, Zenon
<1> QED BY <1>1, <1>3

LEMMA FlagsTick ==
  ASSUME ButtonFlags, NEW sampled \in BOOLEAN, periph_btn_tick(sampled), User(sampled)
  PROVE  ButtonFlags' /\ finger' = sampled
<1>1. last_level' \in BOOLEAN /\ long_press' \in BOOLEAN
  BY Zenon DEF ButtonFlags, periph_btn_tick
<1>2. finger' = sampled
  BY Zenon DEF User
<1> QED BY <1>1, <1>2, Zenon DEF ButtonFlags

(* No press: the timers run, and in time the gesture ends.                 *)
LEMMA Idles ==
  ASSUME ButtonInv, ~finger, periph_btn_tick(FALSE), User(FALSE)
  PROVE  ButtonInv' /\ Recognised'
<1> USE DEF ButtonInv
<1>1. ~finger' /\ ButtonFlags'
  BY FlagsTick
<1>2. ~last_level
  BY DEF DebounceInv
<1>3. ~PressStarts(FALSE) /\ ~PressEnds(FALSE) /\ ~PressGoesOn(FALSE)
  BY <1>2, Zenon DEF PressStarts, PressEnds, PressGoesOn
<1>4. ~LongPress(FALSE) /\ PressTime(FALSE) = press_tm /\ DebounceTime(FALSE) = debounce_tm
  BY <1>3, Zenon DEF LongPress, PressTime, DebounceTime
<1>5. ~last_level' /\ posted' = "none"
  BY <1>2, <1>3, <1>4, Zenon DEF periph_btn_tick
<1>6. /\ press_tm' = press_tm
      /\ debounce_tm' = UpTo(GestureGap, debounce_tm + 1)
      /\ click_count' = IF debounce_tm >= GestureGap THEN 0 ELSE click_count
  BY <1>3, <1>4 DEF periph_btn_tick, GestureEnds
<1>7. UNCHANGED <<hold, presses>> /\ rest' = UpTo(GestureGap + 1, rest + 1)
  BY DEF User
<1>8. ButtonTypes'
  BY <1>1, <1>6, <1>7, Times DEF ButtonTypes, UpTo, ManyClicks
<1>9. DebounceInv'
  BY <1>1, <1>5, <1>6, <1>7, Times DEF ButtonTypes, DebounceInv, UpTo
<1>10. ClickInv'
  BY <1>1, <1>6, <1>7, Times DEF ButtonTypes, DebounceInv, ClickInv, UpTo, ManyClicks
<1>11. PressInv' /\ ReportInv' /\ Recognised'
  BY <1>1, <1>5 DEF PressInv, ReportInv, Recognised
<1> QED BY <1>1, <1>8, <1>9, <1>10, <1>11

(* A press begins, and is taken at once if the debounce timer has run.     *)
LEMMA Begins ==
  ASSUME ButtonInv, ~finger, periph_btn_tick(TRUE), User(TRUE)
  PROVE  ButtonInv' /\ Recognised'
<1> USE DEF ButtonInv
<1>1. finger' /\ ButtonFlags'
  BY FlagsTick
<1>2. ~last_level
  BY DEF DebounceInv
<1>3. /\ PressStarts(TRUE) <=> debounce_tm >= DEBOUNCE
      /\ ~PressEnds(TRUE) /\ ~PressGoesOn(TRUE) /\ ~GestureEnds(TRUE)
  BY <1>2, Zenon DEF PressStarts, PressEnds, PressGoesOn, GestureEnds
<1>4. /\ ~LongPress(TRUE) /\ DebounceTime(TRUE) = debounce_tm
      /\ PressTime(TRUE) = IF PressStarts(TRUE) THEN 0 ELSE press_tm
  BY <1>3, Zenon DEF LongPress, PressTime, DebounceTime
<1>5. /\ last_level' <=> debounce_tm >= DEBOUNCE
      /\ last_level' => ~long_press'
      /\ posted' = "none"
  BY <1>2, <1>3, <1>4, Zenon DEF periph_btn_tick
<1>6. /\ press_tm' = IF last_level' THEN 0 ELSE press_tm
      /\ debounce_tm' = UpTo(GestureGap, debounce_tm + 1)
      /\ click_count' = click_count
  BY <1>3, <1>4, <1>5, Zenon DEF periph_btn_tick
<1>7. /\ hold' = 1 /\ rest' = rest /\ reported' = "none"
      /\ presses' = IF rest > GestureGap THEN 1
                    ELSE UpTo(ManyClicks + 1, presses + 1)
  BY <1>5 DEF User
<1> HIDE DEF ButtonInv
<1>8. ButtonTypes'
  BY <1>1, <1>6, <1>7, Times DEF ButtonInv, ButtonTypes, UpTo, ManyClicks
<1>9. DebounceInv'
  <2>1. debounce_tm = UpTo(GestureGap, rest) /\ rest \in Nat
    BY Times DEF ButtonInv, DebounceInv, ButtonTypes
  <2>2. debounce_tm' = UpTo(GestureGap, rest' + hold')
    BY <1>6, <1>7, <2>1, Times DEF UpTo
  <2>3. debounce_tm >= DEBOUNCE <=> rest' + hold' > DEBOUNCE
    BY <1>7, <2>1, Times DEF UpTo
  <2> QED BY <1>1, <1>5, <2>2, <2>3 DEF DebounceInv
<1>10. ClickInv'
  BY <1>1, <1>6, <1>7, Times DEF ButtonInv, ButtonTypes, ClickInv, UpTo, ManyClicks
<1>11. PressInv'
  <2>1. last_level' => press_tm' = 0 /\ rest >= DEBOUNCE
    BY <1>5, <1>6, Times DEF ButtonInv, ButtonTypes, DebounceInv, UpTo
  <2> QED BY <1>5, <1>7, <2>1, Times DEF PressInv, UpTo
<1>12. ReportInv' /\ Recognised'
  BY <1>5, <1>7, Zenon DEF ReportInv, Recognised
<1> QED BY <1>1, <1>8, <1>9, <1>10, <1>11, <1>12 DEF ButtonInv

(* A press ends, and it was taken: the user is slow enough.                *)
LEMMA Ends ==
  ASSUME ButtonInv, finger, FALSE \in Moves, periph_btn_tick(FALSE), User(FALSE)
  PROVE  ButtonInv' /\ Recognised'
<1> USE DEF ButtonInv
<1>1. ~finger' /\ ButtonFlags'
  BY FlagsTick
<1>2. last_level
  <2>1. ~(rest + hold <= DEBOUNCE)  BY Zenon DEF Moves
  <2> QED BY <2>1, Times DEF DebounceInv, ButtonTypes
<1>3. /\ ~PressStarts(FALSE) /\ PressEnds(FALSE) /\ ~PressGoesOn(FALSE)
  BY <1>2, Zenon DEF PressStarts, PressEnds, PressGoesOn
<1>4. /\ ~LongPress(FALSE) /\ DebounceTime(FALSE) = 0
      /\ PressTime(FALSE) = press_tm
  BY <1>3, Zenon DEF LongPress, PressTime, DebounceTime
<1>5. ~last_level' /\ posted' = "none"
  BY <1>3, <1>4, Zenon DEF periph_btn_tick
<1>6. ~GestureEnds(FALSE)
  <2>1. ~(0 >= GestureGap)  BY Times
  <2> QED BY <1>4, <2>1, Zenon DEF GestureEnds
<1>7. /\ press_tm' = press_tm
      /\ debounce_tm' = UpTo(GestureGap, 0 + 1)
      /\ click_count' = UpTo(ManyClicks, click_count + 1)
  BY <1>3, <1>4, <1>6 DEF periph_btn_tick
<1>8. UNCHANGED <<hold, presses>> /\ rest' = 1
  BY DEF User
<1> HIDE DEF ButtonInv
<1>9. ButtonTypes'
  BY <1>1, <1>7, <1>8, Times DEF ButtonInv, ButtonTypes, UpTo, ManyClicks
<1>10. DebounceInv'
  BY <1>1, <1>5, <1>7, <1>8, Times DEF DebounceInv, UpTo
<1>11. ClickInv'
  BY <1>1, <1>7, <1>8, Times DEF ButtonInv, ButtonTypes, ClickInv, UpTo, ManyClicks
<1>12. PressInv' /\ ReportInv' /\ Recognised'
  BY <1>1, <1>5 DEF PressInv, ReportInv, Recognised
<1> QED BY <1>1, <1>9, <1>10, <1>11, <1>12 DEF ButtonInv

(* The press timer reaches its limit only in a press that was as long.      *)
LEMMA LongHold ==
  ASSUME NEW h \in Nat, NEW r \in Nat,
         UpTo(LONG_CLICK, IF r >= DEBOUNCE THEN h - 1 ELSE h + r - DEBOUNCE - 1)
           >= LONG_CLICK
  PROVE  h >= LONG_CLICK
  BY Times DEF UpTo

(* A press goes on: it is taken now, or was taken and may become a long    *)
(* one, or waits for the debounce timer.                                   *)
LEMMA GoesOn ==
  ASSUME ButtonInv, finger, periph_btn_tick(TRUE), User(TRUE)
  PROVE  ButtonInv' /\ Recognised'
<1> USE DEF ButtonInv
<1>1. finger' /\ ButtonFlags'
  BY FlagsTick
<1>2. /\ PressStarts(TRUE) <=> ~last_level /\ debounce_tm >= DEBOUNCE
      /\ PressGoesOn(TRUE) <=> last_level
      /\ ~PressEnds(TRUE) /\ ~GestureEnds(TRUE)
  BY Zenon DEF PressStarts, PressEnds, PressGoesOn, GestureEnds
<1>3. DebounceTime(TRUE) = debounce_tm
  BY <1>2, Zenon DEF DebounceTime
<1>4. /\ debounce_tm' = UpTo(GestureGap, debounce_tm + 1)
      /\ click_count' = click_count
      /\ last_level' <=> last_level \/ debounce_tm >= DEBOUNCE
  BY <1>2, <1>3, Zenon DEF periph_btn_tick, ButtonFlags
<1>5. /\ rest' = rest /\ presses' = presses
      /\ hold' = UpTo(WakeupTime, hold + 1)
      /\ reported' = IF posted' # "none" THEN posted' ELSE reported
  BY DEF User
<1>6. ASSUME last_level
      PROVE  /\ press_tm' = UpTo(LONG_CLICK, press_tm + 1)
             /\ long_press' <=> long_press \/ press_tm' >= LONG_CLICK
             /\ posted' = IF ~long_press /\ press_tm' >= LONG_CLICK
                          THEN periph_main_btn_handler(click_count) ELSE "none"
  <2>1. PressTime(TRUE) = UpTo(LONG_CLICK, press_tm + 1) /\ press_tm' = PressTime(TRUE)
    BY <1>2, <1>6, Zenon DEF PressTime, periph_btn_tick
  <2>2. LongPress(TRUE) <=> ~long_press /\ press_tm' >= LONG_CLICK
    BY <1>2, <1>6, <2>1, Zenon DEF LongPress
  <2> QED BY <1>2, <1>6, <2>1, <2>2, Zenon DEF periph_btn_tick, ButtonFlags
<1>7. ASSUME ~last_level
      PROVE  /\ press_tm' = IF last_level' THEN 0 ELSE press_tm
             /\ last_level' => ~long_press'
             /\ posted' = "none"
  <2>1. ~LongPress(TRUE)
    BY <1>2, <1>7, Zenon DEF LongPress
  <2> QED BY <1>2, <1>4, <1>7, <2>1, Zenon DEF periph_btn_tick, PressTime, ButtonFlags
<1> HIDE DEF ButtonInv
<1>8. ButtonTypes'
  <2>1. press_tm' \in 0 .. LONG_CLICK
    BY <1>6, <1>7, Times DEF ButtonInv, ButtonTypes, UpTo
  <2> QED BY <1>4, <1>5, <2>1, Times DEF ButtonInv, ButtonTypes, UpTo, ManyClicks
<1>9. DebounceInv'
  <2>1. debounce_tm = UpTo(GestureGap, rest + hold) /\ rest \in Nat /\ hold \in Nat
    BY Times DEF ButtonInv, DebounceInv, ButtonTypes
  <2>2. debounce_tm' = UpTo(GestureGap, rest' + hold')
    BY <1>4, <1>5, <2>1, Times DEF UpTo
  <2>3. last_level \/ debounce_tm >= DEBOUNCE <=> rest' + hold' > DEBOUNCE
    BY <1>5, <2>1, Times DEF UpTo, ButtonInv, DebounceInv
  <2> QED BY <1>1, <1>4, <2>2, <2>3 DEF DebounceInv
<1>10. ClickInv'
  BY <1>1, <1>4, <1>5 DEF ButtonInv, ClickInv
<1>11. PressInv'
  <2>1. CASE last_level
    BY <1>5, <1>6, <2>1, Times DEF ButtonInv, ButtonTypes, PressInv, DebounceInv, UpTo
  <2>2. CASE ~last_level
    BY <1>4, <1>5, <1>7, <2>2, Times DEF ButtonInv, ButtonTypes, DebounceInv, PressInv, UpTo
  <2> QED BY <2>1, <2>2
<1>12. periph_main_btn_handler(click_count) = Meant
  <2>1. presses \in 1 .. 4 /\ click_count = presses - 1
    BY DEF ButtonInv, ButtonTypes, ClickInv, ManyClicks
  <2> QED BY <2>1 DEF periph_main_btn_handler, Meant
<1>13. Meant' = Meant
  BY <1>5 DEF Meant
<1>14. ReportInv'
  <2>1. CASE last_level
    BY <1>1, <1>4, <1>5, <1>6, <1>12, <1>13, <2>1, Zenon DEF ButtonInv, ReportInv
  <2>2. CASE ~last_level
    BY <1>1, <1>5, <1>7, <2>2, Zenon DEF ButtonInv, ReportInv
  <2> QED BY <2>1, <2>2
<1>15. Recognised'
  <2> SUFFICES ASSUME posted' # "none" PROVE Recognised'
    BY DEF Recognised
  <2>1. last_level  BY <1>7
  <2>2. press_tm' >= LONG_CLICK /\ posted' = Meant'
    BY <1>6, <1>12, <1>13, <2>1
  <2>3. hold' >= LONG_CLICK
    <3>1. hold' \in Nat /\ rest' \in Nat
      BY <1>8, Times DEF ButtonTypes
    <3>2. press_tm' = UpTo(LONG_CLICK, IF rest' >= DEBOUNCE THEN hold' - 1
                                       ELSE hold' + rest' - DEBOUNCE - 1)
      BY <1>4, <1>11, <2>1, Zenon DEF PressInv
    <3> QED BY <2>2, <3>1, <3>2, LongHold, Zenon
  <2> QED BY <1>1, <2>2, <2>3 DEF Recognised
<1> QED BY <1>1, <1>8, <1>9, <1>10, <1>11, <1>14, <1>15 DEF ButtonInv

LEMMA StepButton ==
  ASSUME CleanEdges, ButtonInv, Recognised, [Next]_buttonVars
  PROVE  ButtonInv' /\ Recognised'
<1>1. CASE Tick
  <2>1. PICK pressed \in Moves : periph_btn_tick(pressed) /\ User(pressed)
    BY <1>1, CleanTick
  <2>2. finger \in BOOLEAN /\ pressed \in BOOLEAN
    BY Zenon DEF ButtonInv, ButtonFlags, Moves
  <2>3. CASE pressed = TRUE
    BY <2>1, <2>2, <2>3, Begins, GoesOn, Zenon
  <2>4. CASE pressed = FALSE
    BY <2>1, <2>2, <2>4, Idles, Ends, Zenon
  <2> QED BY <2>2, <2>3, <2>4, Zenon
<1>2. CASE UNCHANGED buttonVars
  BY <1>2 DEF buttonVars, btnVars, userVars, ButtonInv, ButtonFlags, ButtonTypes,
     DebounceInv, PressInv, ClickInv, ReportInv, Meant, Recognised
<1> QED BY <1>1, <1>2 DEF Next

(* A round of the task is a tick of the button; all else leaves it alone.  *)
LEMMA RoundTicks == [PeriphNext]_periphVars => [Next]_buttonVars
<1> SUFFICES ASSUME [PeriphNext]_periphVars PROVE [Next]_buttonVars  OBVIOUS
<1> QED BY DEF PeriphNext, periph_task, RoundBegins, periph_status_led_tick,
           periph_status_led_mode_set, periphVars, Next

LEMMA ButtonInvariant ==
  ASSUME CleanEdges
  PROVE  PeriphSpec => [](ButtonInv /\ Recognised)
<1>1. PeriphInit => ButtonInv /\ Recognised
  BY InitButton DEF PeriphInit
<1>2. ButtonInv /\ Recognised /\ [PeriphNext]_periphVars
        => (ButtonInv /\ Recognised)'
  BY StepButton, RoundTicks
<1> QED BY <1>1, <1>2, PTL DEF PeriphSpec

(* With clean edges the handler posts an event only for the gesture that   *)
(* the user made, for every debounce and long-press time.                  *)
THEOREM GesturesRecognised ==
  ASSUME CleanEdges
  PROVE  PeriphSpec => []Recognised
<1> QED BY ButtonInvariant, PTL

(* With clean edges a long press is reported in the time that              *)
(* periph_did_wakeup waits, with the event that was meant.                 *)
THEOREM LongPressInTime ==
  ASSUME CleanEdges
  PROVE  PeriphSpec => []LongPressReports
<1>1. ButtonInv => LongPressReports
  <2> SUFFICES ASSUME ButtonInv, finger, hold = WakeupTime PROVE reported = Meant
    BY DEF LongPressReports
  <2>1. last_level
    BY Times DEF ButtonInv, ButtonTypes, DebounceInv
  <2>2. press_tm = LONG_CLICK
    BY <2>1, Times DEF ButtonInv, ButtonTypes, PressInv, UpTo
  <2>3. long_press
    BY <2>1, <2>2, Zenon DEF ButtonInv, PressInv
  <2> QED BY <2>1, <2>3, Zenon DEF ButtonInv, ReportInv
<1> QED BY <1>1, ButtonInvariant, PTL
=============================================================================
