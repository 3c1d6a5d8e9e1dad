---------------------------- MODULE MCStatRollup ----------------------------
EXTENDS StatRollup

ConstTimes == 1 .. 3
ConstNone == {}
=============================================================================
