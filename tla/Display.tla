------------------------------ MODULE Display -----------------------------
(***************************************************************************)
(* The LED manager as the state machine uses it: one value per             *)
(* TrainboardLedManager, and what each of its operations makes of it.      *)
(*   picture           what was last written for the LEDs: a status        *)
(*                     colour, the test pattern, the data of a reader      *)
(*                     mode, or "dark"                                     *)
(*   transition_cnt    ticks of the running cross-fade, as in the code     *)
(*   is_transitioning  a cross-fade has begun and not ended                *)
(***************************************************************************)
EXTENDS Naturals

CONSTANT TransitionTicks   \* kTransitionDurationInTicks, 100 in the code

ASSUME TransitionTicksAssumption == TransitionTicks \in Nat \ {0}

ReaderModes == {"kLive", "kHistory", "kOffline"}
StatusColors == {"kWhite", "kBlue", "kPurple"}
Pictures == ReaderModes \cup StatusColors \cup {"dark", "test"}

Displays == [picture : Pictures,
             transition_cnt : 0..TransitionTicks,
             is_transitioning : BOOLEAN]

\* A picture that stands still.
Still(p) == [picture |-> p, transition_cnt |-> 0, is_transitioning |-> FALSE]

DarkDisplay == Still("dark")

\* SetStatusLed refuses while a cross-fade runs.
SetStatusLed(d, color) ==
  IF d.is_transitioning THEN d ELSE Still(color)

\* SetTestLeds writes the strips and nothing else; it does not show them.
SetTestLeds(d) ==
  IF d.is_transitioning THEN d ELSE [d EXCEPT !.picture = "test"]

\* SetLeds begins a cross-fade to the frame of a reader mode, also when the
\* one before has not ended.
SetLeds(mode) == [picture |-> mode, transition_cnt |-> 0, is_transitioning |-> TRUE]

\* Mutant: the display goes dark and the cross-fade stays "running".
ClearAllLedsInFade == [DarkDisplay EXCEPT !.is_transitioning = TRUE]

ClearAllLeds == DarkDisplay

\* RefreshTransition.  The counter runs on past the end in the code; only
\* ">= transition_duration_" is read, so it stays at TransitionTicks.
IsLastRefresh(d) == d.transition_cnt + 1 >= TransitionTicks

\* Mutant: the end of the cross-fade is not recorded.
RefreshTransitionNoEnd(d) ==
  [d EXCEPT !.transition_cnt = IF IsLastRefresh(d) THEN TransitionTicks ELSE @ + 1]

RefreshTransition(d) ==
  [picture |-> d.picture,
   transition_cnt |-> IF IsLastRefresh(d) THEN TransitionTicks ELSE d.transition_cnt + 1,
   is_transitioning |-> d.is_transitioning /\ ~IsLastRefresh(d)]
=============================================================================
