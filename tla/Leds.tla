---------------------------------- MODULE Leds ----------------------------------
(***************************************************************************)
(* The LED strip of hal::Servo2040: set_led() shows a colour at once,      *)
(* update_leds(), called by every Robot::update() in whatever state, makes *)
(* it blink. Its clock is the board's, and not the tick's: a message comes *)
(* between two ticks, and a tick may be late.                              *)
(***************************************************************************)
EXTENDS Naturals, FiniteSetsExt

CONSTANTS
  Colours,    (* the colours a SetLed message may name                    *)
  Dark,       (* (0, 0, 0), one of them                                   *)
  Halves,     (* half_us: from 0 for a frequency beyond any clock, to     *)
              (* what one next to none saturates to                       *)
  None,       (* no half period: the frequency is not positive            *)
  Period,     (* the time between ticks                                   *)
  Late        (* how late a tick may be                                   *)

ASSUME LedsAssumption ==
  /\ Dark \in Colours /\ None \notin Nat
  /\ Halves \subseteq Nat /\ IsFiniteSet(Halves)     \* uint64_t
  /\ Period \in Nat \ {0} /\ Late \in Nat

VARIABLES
  mode,       (* led_mode_; any other byte than BLINK is as SOLID         *)
  colour,     (* lr_, lg_, lb_                                            *)
  half,       (* half_us, of led_freq_                                    *)
  on,         (* led_on_                                                  *)
  since,      (* now - led_toggle_us_, counted up to Longest              *)
  strip,      (* the colour of the pixels                                 *)
  sinceTick,  (* the time since the last tick                             *)
  shown       (* history: for how long the strip has been as it is, or    *)
              (* since the last SetLed                                    *)

set  == <<mode, colour, half>>
ledVars == <<set, on, since, strip, sinceTick, shown>>

\* Bound: a half period and the wait for a tick.
Longest == Max(Halves \cup {0}) + Period + Late

Blinking == mode = "BLINK" /\ half # None

LedsInit ==
  /\ mode = "SOLID" /\ colour = Dark /\ half = None
  /\ on = TRUE /\ since = 0 /\ strip = Dark
  /\ sinceTick = 0 /\ shown = 0

-----------------------------------------------------------------------------
Apply(lit, rgb) == strip' = IF lit THEN rgb ELSE Dark

\* set_led(): lit at once, the phase and the clock begin anew.
SetLed(newMode, newColour, newHalf) ==
  /\ mode' = newMode /\ colour' = newColour /\ half' = newHalf
  /\ on' = TRUE /\ since' = 0
  /\ Apply(TRUE, newColour)
  /\ shown' = 0
  /\ UNCHANGED sinceTick

Toggle(left) ==
  /\ on' = ~on /\ since' = left
  /\ Apply(on', colour)
  /\ shown' = 0

UpdateLedsLeaving(left) ==
  IF Blinking /\ since >= half THEN Toggle(left) ELSE UNCHANGED <<on, since, strip, shown>>

UpdateLeds_UnlessTripped == UpdateLedsLeaving(0) \/ UNCHANGED <<on, since, strip, shown>>
UpdateLeds_AddsHalf == UpdateLedsLeaving(since - half)
\* The phase that ends now began late, and so does the next one.
UpdateLeds == UpdateLedsLeaving(0)

Tick ==
  /\ sinceTick >= Period
  /\ sinceTick' = 0
  /\ UpdateLeds
  /\ UNCHANGED set

Elapse ==
  /\ sinceTick < Period + Late
  /\ sinceTick' = sinceTick + 1
  /\ since' = Min({since + 1, Longest})
  /\ shown' = Min({shown + 1, Longest})
  /\ UNCHANGED <<set, on, strip>>

LedsNext ==
  \/ \E newMode \in {"SOLID", "BLINK"}, newColour \in Colours, newHalf \in Halves \cup {None} :
       SetLed(newMode, newColour, newHalf)
  \/ Tick
  \/ Elapse

LedsSpec == LedsInit /\ [][LedsNext]_ledVars

-----------------------------------------------------------------------------
(* Properties *)

LedsTypeOK ==
  /\ mode \in {"SOLID", "BLINK"} /\ on \in BOOLEAN
  /\ colour \in Colours /\ strip = (IF on THEN colour ELSE Dark) /\ half \in Halves \cup {None}
  /\ {since, shown} \subseteq 0..Longest /\ sinceTick \in 0..(Period + Late)

\* No phase of a blink is cut short, neither by a message nor by a late tick
\* before it.
NoShortPhase == [][Tick /\ on' # on => shown >= half]_ledVars

\* Nor does one outlast its half period by more than the wait for a tick.
NoLongPhase == Blinking => shown < Max({half, 1}) + Period + Late
=============================================================================
