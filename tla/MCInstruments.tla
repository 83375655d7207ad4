--------------------------- MODULE MCInstruments ---------------------------
(* Two lists of devices, four measurements, and no file or one with a full *)
(* table of three points.                                                  *)
EXTENDS Instruments

MCDeviceLists == {<<[id |-> "m1", traits |-> {"array", "realtek"}], [id |-> "m2", traits |-> {"usb"}]>>,
                  <<[id |-> "m2", traits |-> {"usb"}]>>}
Measure(a, d, r, s) == [ambient |-> a, delta |-> d, ramp |-> r, shift |-> s]
MCMeasures == {Measure(-80, 10, TRUE, 0), Measure(-60, 4, TRUE, 1),
               Measure(-50, 1, FALSE, 0), Measure(-40, 0, TRUE, 0)}
Point(a, d, c) == [ambient |-> a, delta |-> d, chosen |-> c]
MCOldFiles == {[mic |-> "m1", fans |-> "stress", age |-> "fresh",
                points |-> <<Point(-70, 9, 1), Point(-60, 4, 1), Point(-50, 0, 0)>>]}
=============================================================================
