-------------------------- MODULE MCProfileRegisters --------------------------
(* ProfileRegisters at the driver's word and field widths, on two values   *)
(* of every field: those of one profile are reached by setters from the    *)
(* other.  Raw words have reserved bits set, and signs.                    *)
EXTENDS ProfileRegisters

(* Limits that are no multiple of a step, or negative; a window whose ends *)
(* round to one code; one channel, and a single-shot mode.                 *)
Odd == [settings |-> [ResetSettings EXCEPT !.channels = {2}, !.averaging = 7, !.vBusCt = 6,
                                           !.mode = 1],
        resistance |-> [c \in Channel |-> IF c = 1 THEN 0 ELSE IF c = 0 THEN 127 ELSE 201],
        alerts |-> [DefaultAlerts EXCEPT !.critical[0] = -163840, !.warning[2] = -40, !.sum = 59,
                                         !.upper = 9004, !.lower = 9001,
                                         !.summation = {2}, !.warningLatch = TRUE]]
Plain == [settings |-> ResetSettings,
          resistance |-> [c \in Channel |-> 100],
          alerts |-> DefaultAlerts]
(* The least and a large calibration, which floats do not hold, and none. *)
Extreme == [Plain EXCEPT !.settings.channels = {0, 1},
                         !.resistance = [c \in Channel |-> IF c = 0 THEN 1
                                                           ELSE IF c = 1 THEN 1001 ELSE 0]]

MCProfiles == {Odd, Plain, Extreme}
MCLatches == {<<TRUE, FALSE>>}
MCLimitWords == {<<6, 65535>>}
MCSumWords == {32767}
MCUpperWords == {42771}
MCLowerWords == {9001}
MCMaskWords == {7167}
MCConfigWords == {4610}
MCRawWrites == {<<0, 32742>>, <<15, 32767>>, <<1, 0>>}
=============================================================================
