---------------------------- MODULE LedManager ----------------------------
(***************************************************************************)
(* Led/LedManager_Trainboard.h on the LEDs of Led/FastLedStrip.h: how one  *)
(* frame fades into the next.  A frame is the list of LEDs the server      *)
(* sends.  It may name LEDs that no strip has, which are left out, and     *)
(* name a LED more than once: two trains are at one place in every frame   *)
(* of Database/FakeData.cpp.                                               *)
(*                                                                         *)
(* Firmware keeps of all this one value of the module Display.  It is kept *)
(* here, too, in the variable display, to compare it with the LEDs.        *)
(***************************************************************************)
EXTENDS Naturals, SequencesExt

CONSTANTS StripSizes,       \* the number of LEDs of each strip, strip 0 first
          Ids,              \* what a frame may name: pairs of a strip and a position
          Colors,           \* of trains
          MaxLedsOn,        \* the number of LEDs a frame may list
          TransitionTicks   \* kTransitionDurationInTicks, 100 in the code

ASSUME LedManagerAssumption ==
  /\ StripSizes \in Seq(Nat \ {0})
  /\ Ids \subseteq Nat \X Nat
  /\ MaxLedsOn \in Nat
  /\ TransitionTicks \in Nat \ {0}

Abstract == INSTANCE Display

FullScale == 255   \* UINT8_MAX
Half == TransitionTicks \div 2

\* The LEDs there are, by the two halves of Led::id_, and the first of each strip.
Leds == UNION {{<<strip_id, position>> : position \in 0..(StripSizes[strip_id + 1] - 1)}
                 : strip_id \in 0..(Len(StripSizes) - 1)}
FirstLeds == {led \in Leds : led[2] = 0}

Off == [color |-> "kBlack", scaling |-> 0]
Lit(color, scaling) == IF scaling = 0 THEN Off ELSE [color |-> color, scaling |-> scaling]

AllOff == [led \in Leds |-> Off]
AllOn == [led \in Leds |-> Lit("kWhite", FullScale)]
StatusPicture(color) ==
  [led \in Leds |-> IF led \in FirstLeds THEN Lit(color, FullScale) ELSE Off]

\* class Led, as its operator== sees it.
Entries == [id : Ids, color : Colors]
Frames == SeqOf(Entries, MaxLedsOn)

\* The entries of a list that are in a set, in their order, by the loop the code takes:
\* what SelectSeq gives, in a form that can be proved about.
Only(leds, chosen) ==
  LET kept[i \in 0..Len(leds)] ==
        IF i = 0 THEN <<>>
        ELSE IF leds[i] \in chosen THEN Append(kept[i - 1], leds[i]) ELSE kept[i - 1]
  IN kept[Len(leds)]

\* Mutant: a position one past the end of its strip is let through.
OnStripsOffByOne(leds) ==
  Only(leds, {led \in Entries : led.id \in Leds \/ <<led.id[1], led.id[2] - 1>> \in Leds})

\* GetNewActiveLeds: what is not on a strip is ignored.
OnStrips(leds) == Only(leds, {led \in Entries : led.id \in Leds})

\* The colours a list names for a LED.
Named(leds, id) == {led.color : led \in {e \in ToSet(leds) : e.id = id}}

\* Where the last entry for a LED stands; 0 if there is none.
LastFor(leds, id) == SelectLastInSeq(leds, LAMBDA led : led.id = id)

\* The LEDs of a list are set one after the other, so that the last entry for a LED
\* is the one that shows.
Draw(picture, leds, scaling) ==
  [id \in Leds |->
     LET last == LastFor(leds, id)
     IN IF last = 0 THEN picture[id] ELSE Lit(leds[last].color, scaling)]

VARIABLES strip,                             \* what is written for the LEDs
          latched,                           \* what they show: strip at the last Show()
          leds_active, leds_in, leds_out, leds_swap,
          transition_cnt, is_transitioning,
          status_led_color,
          display,                           \* what Firmware makes of it
          frame,                             \* the frame that was set last
          before                             \* what was taken to be on until then

lists == <<leds_in, leds_out, leds_swap>>
ledVars == <<strip, latched, leds_active, lists, transition_cnt, is_transitioning,
             status_led_color, display, frame, before>>

Init ==
  /\ strip = AllOff
  /\ latched = AllOff
  /\ leds_active = <<>>
  /\ leds_in = <<>> /\ leds_out = <<>> /\ leds_swap = <<>>
  /\ transition_cnt = 0
  /\ is_transitioning = FALSE
  /\ status_led_color = "kBlack"
  /\ display = Abstract!DarkDisplay
  /\ frame = <<>>
  /\ before = <<>>

-----------------------------------------------------------------------------
\* The presenter's Show().
Show == latched' = strip'

\* ResetTransition, and leds_active_.clear().
Forget ==
  /\ leds_in' = <<>> /\ leds_out' = <<>> /\ leds_swap' = <<>>
  /\ transition_cnt' = 0
  /\ is_transitioning' = FALSE
  /\ leds_active' = <<>>

ClearAllLeds ==
  /\ strip' = AllOff
  /\ Show
  /\ Forget
  /\ display' = Abstract!ClearAllLeds
  /\ UNCHANGED <<status_led_color, frame, before>>

SetStatusLed(color) ==
  /\ IF is_transitioning
       THEN UNCHANGED <<strip, latched, leds_active, lists, transition_cnt, is_transitioning,
                        status_led_color>>
       ELSE /\ strip' = StatusPicture(color)
            /\ Show
            /\ Forget
            /\ status_led_color' = color
  /\ display' = Abstract!SetStatusLed(display, color)
  /\ UNCHANGED <<frame, before>>

\* The test pattern is written and not shown.
SetTestLeds ==
  /\ strip' = IF is_transitioning THEN strip ELSE AllOn
  /\ display' = Abstract!SetTestLeds(display)
  /\ UNCHANGED <<latched, leds_active, lists, transition_cnt, is_transitioning, status_led_color>>
  /\ UNCHANGED <<frame, before>>

\* ClearStatusLeds.
StatusCleared ==
  IF status_led_color = "kBlack" THEN strip
  ELSE [led \in Leds |-> IF led \in FirstLeds THEN Off ELSE strip[led]]

\* An entry that is on in another colour, and the first such entry.
ChangesColor(led) == Named(leds_active, led.id) \ {led.color} # {}
Replaced(led) ==
  leds_active[SelectInSeq(leds_active, LAMBDA active : active.id = led.id /\ active.color # led.color)]

\* AssignLedsToSwapOrFadeIn, AssignLedsToFadeOut, AssignNewActiveLeds.
FadingIn(new) == Only(new, {led \in ToSet(new) : ChangesColor(led) \/ led \notin ToSet(leds_active)})
Swapping(new) ==
  LET changing == Only(new, {led \in ToSet(new) : ChangesColor(led)})
  IN [i \in 1..Len(changing) |-> Replaced(changing[i])]

\* Mutant: every LED that is on fades out.
FadingOutAll(new) == leds_active

FadingOut(new) == Only(leds_active, ToSet(leds_active) \ ToSet(new))

\* Nothing is shown before the first refresh (test_StatusLeds.cpp 164,
\* "StatusLedsClearedButNotLatched").
SetLeds(leds) ==
  LET new == OnStrips(leds)
  IN /\ strip' = StatusCleared
     /\ status_led_color' = "kBlack"
     /\ leds_in' = FadingIn(new)
     /\ leds_swap' = Swapping(new)
     /\ leds_out' = FadingOut(new)
     /\ leds_active' = new
     /\ transition_cnt' = 0
     /\ is_transitioning' = TRUE
     /\ display' = Abstract!SetLeds("kLive")
     /\ frame' = new
     /\ before' = leds_active
     /\ UNCHANGED latched

\* Mutant: the LEDs to swap get brighter instead.
FadeOutLedsToSwapUp(n) == Draw(strip, leds_swap, (2 * n * FullScale) \div TransitionTicks)

FadeOutLedsToSwap(n) ==
  Draw(strip, leds_swap, FullScale - (2 * n * FullScale) \div TransitionTicks)

\* Mutant: a LED that changes its colour is faded out last.
FadeLedsInOutSwapped(scaling) ==
  Draw(Draw(strip, leds_in, scaling), leds_out, FullScale - scaling)

\* A LED in both lists is set twice, and what fades in comes last.
FadeLedsInOut(scaling) ==
  Draw(Draw(strip, leds_out, FullScale - scaling), leds_in, scaling)

\* The counter stays at the end, where the code's goes on (see Display).
RefreshTransition ==
  LET n == transition_cnt + 1
  IN /\ transition_cnt' = IF n >= TransitionTicks THEN TransitionTicks ELSE n
     /\ is_transitioning' = (is_transitioning /\ n < TransitionTicks)
     /\ strip' = IF n >= TransitionTicks THEN FadeLedsInOut(FullScale)
                 ELSE IF n < Half THEN FadeOutLedsToSwap(n)
                 ELSE FadeLedsInOut((FullScale * (n - Half)) \div Half)
     /\ Show
     /\ display' = Abstract!RefreshTransition(display)
     /\ UNCHANGED <<leds_active, lists, status_led_color, frame, before>>

\* The presenter shows the strips, whatever is in them, when the brightness is not the
\* one it has: after a TICK, and in Trainboard::Init.
SetBrightness ==
  /\ latched' = strip
  /\ UNCHANGED <<strip, leds_active, lists, transition_cnt, is_transitioning,
                 status_led_color, display, frame, before>>

-----------------------------------------------------------------------------
\* The test pattern is followed by the status of Connecting, and Transitioning
\* alone refreshes.
AfterTest == display.picture # "test"

Others ==
  \/ AfterTest /\ ClearAllLeds
  \/ \E color \in Abstract!StatusColors : SetStatusLed(color)
  \/ SetTestLeds
  \/ AfterTest /\ RefreshTransition
  \/ SetBrightness

\* Any frame at any time, as SetLeds takes it.
Spec == Init /\ [][Others \/ \E leds \in Frames : AfterTest /\ SetLeds(leds)]_ledVars

\* LedManager.h 57: RefreshTransition "must be called continuously at a fixed rate
\* until the transition is finished".
PatientNext ==
  Others \/ \E leds \in Frames : AfterTest /\ ~is_transitioning /\ SetLeds(leds)

PatientSpec == Init /\ [][PatientNext]_ledVars

-----------------------------------------------------------------------------
LitLeds == [color : Colors \cup Abstract!StatusColors, scaling : 1..FullScale]

\* The type of the variables; the lists fit into their vectors, and are about LEDs
\* that there are: Set would write past the end of the strip.
TypeOK ==
  /\ {strip, latched} \subseteq [Leds -> LitLeds \cup {Off}]
  /\ \A leds \in {leds_active, leds_in, leds_out, leds_swap, frame, before} :
       Len(leds) <= MaxLedsOn /\ ToSet(leds) \subseteq [id : Leds, color : Colors]
  /\ transition_cnt \in 0..TransitionTicks
  /\ is_transitioning \in BOOLEAN
  /\ status_led_color \in Abstract!StatusColors \cup {"kBlack"}
  /\ display \in Abstract!Displays
  /\ display.is_transitioning = is_transitioning
  /\ display.transition_cnt = transition_cnt

\* A LED of the frame has the colour the frame names last for it, and no other LED is
\* on.  The exception is last_named's: a LED that had that one colour before, and is
\* named in another, too, shows the other, since what is on already does not fade in.
FrameIsShown ==
  \A id \in Leds :
    LET last == LastFor(frame, id)
        color == frame[last].color
        others == Named(frame, id) \ {color}
    IN IF last = 0 THEN latched[id] = Off
       ELSE IF Named(before, id) = {color} /\ others # {}
         THEN \E other \in others : latched[id] = Lit(other, FullScale)
       ELSE latched[id] = Lit(color, FullScale)

\* What Firmware takes the display to show is on the LEDs, every one of them, when
\* no cross-fade runs: three lists are computed from what is thought to be on, nothing
\* of an earlier frame is left, and what was written was shown.  The test pattern is
\* left out: it is on the LEDs only if the brightness happens to change.
ShowsPicture ==
  ~is_transitioning =>
    /\ display.picture = "dark" => latched = AllOff
    /\ display.picture \in Abstract!StatusColors => latched = StatusPicture(display.picture)
    /\ display.picture \in Abstract!ReaderModes => FrameIsShown

\* A LED that was on in one colour and stays in it is lit all the time.
UnchangedStayLit ==
  \A led \in ToSet(frame) :
    is_transitioning /\ Named(before, led.id) = {led.color} /\ Named(frame, led.id) = {led.color}
      => latched[led.id] = Lit(led.color, FullScale)

\* A refresh moves a LED towards the new frame: the colour of the frame gets
\* brighter, every other one darker, and a LED in a new colour begins from dark.
Towards(new, was, is) ==
  LET grows == is.color \in new /\ was.scaling <= is.scaling
      shrinks == is.color \notin new /\ is.scaling <= was.scaling
  IN \/ is = Off /\ was.color \notin new
     \/ was = is
     \/ was.color = is.color /\ (grows \/ shrinks)
     \/ was = Off /\ is.color \in new

\* Each LED that both frames name in one colour at most does so in each refresh, to
\* the end of the cross-fade.  (Of one named in two colours, FadeOutLedsToSwap draws
\* the first of the old colours, which need not be the one that is on.)
NoFlicker ==
  [][is_transitioning /\ RefreshTransition =>
       \A id \in Leds :
         (\A leds \in {before, frame} : \A one, other \in Named(leds, id) : one = other)
           => Towards(Named(frame, id), strip[id], strip'[id])]_ledVars

-----------------------------------------------------------------------------
(* What the documentation and the tests say and the code does not do.      *)

\* LedManager.h 46: SetLeds sets "new LEDs to be displayed at the next transition":
\* at its end they are what is displayed.  The board does not wait for the end: the
\* network is lost, and Offline shows the next frame (connection_loss).
NewLedsAreDisplayed ==
  transition_cnt = TransitionTicks /\ display.picture = "kLive" => FrameIsShown

\* test_SmoothTransition.cpp 325: of the colours a frame names for a LED "the last one
\* should be taken".
LastNamedIsShown ==
  transition_cnt = TransitionTicks /\ display.picture = "kLive" =>
    \A id \in Leds :
      LET last == LastFor(frame, id)
      IN last # 0 => latched[id] = Lit(frame[last].color, FullScale)
=============================================================================
