----------------------------- MODULE MCFixedUnits -----------------------------
(* FixedUnits on narrow fields with the driver's shifts: shunt and bus     *)
(* code 5 bits, the shunt sum 7.  The inputs are every limit in the range  *)
(* of each field and beyond, and every word of a register.  With so few    *)
(* bits it takes a coarse bus and a small "32-bit" limit to have currents  *)
(* and powers that overflow.                                               *)
EXTENDS FixedUnits

MCRanges == {<<-13300, 13300>>}
MCWindowWidths == {-800, 0, 1, 399, 400, 401, 800, 4000}
MCResistances == {0, 1, 60, 1000, 4000}
=============================================================================
