------------------------------- MODULE JpegRows -------------------------------
(***************************************************************************)
(* How many rows of MCUs a picture has (libjpeg, initial_setup), and how   *)
(* many of them must have been read before a scanline comes out of the     *)
(* main controller.  JpegReader takes it from here, JpegMainController     *)
(* shows that it is so.                                                    *)
(***************************************************************************)
EXTENDS Integers

Min2(a, b) == IF a < b THEN a ELSE b
jdiv_round_up(a, b) == (a + b - 1) \div b

IMCURows(height, perIMCU) == jdiv_round_up(height, perIMCU)

Early(y, perIMCU, perGroup) ==
  (y % perIMCU) \div perGroup < perIMCU \div perGroup - 1

\* After the last row of MCUs there is one more.
MutRowsNeeded(height, perIMCU, perGroup, context, y) ==
  y \div perIMCU + (IF context /\ ~Early(y, perIMCU, perGroup) THEN 2 ELSE 1)

\* The one a line lies in; with context the last row group of one waits for the
\* first of the next.
RowsNeeded(height, perIMCU, perGroup, context, y) ==
  Min2(IMCURows(height, perIMCU),
       y \div perIMCU + (IF context /\ ~Early(y, perIMCU, perGroup) THEN 2 ELSE 1))
=============================================================================
