--------------------------- MODULE MCTimedEvents ---------------------------
(* TimedEvents with one repeating SOFT definition, and with a HARD one      *)
(* beside a SOFT one.                                                       *)
EXTENDS TimedEvents, TLC
CONSTANTS id, ad

OneEvent  == {ad}
Repeats   == <<ad, ad>>
RepeatsAt == <<0, 1>>
Punctual  == ad :> 0
Patient   == ad :> 0

TwoEvents == {id, ad}
OneEach   == <<id, ad>>
SameTime  == <<1, 1>>
EarlyBy   == id :> 0 @@ ad :> 1
LateBy    == id :> 1 @@ ad :> 1
=============================================================================
