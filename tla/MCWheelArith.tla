---------------------------- MODULE MCWheelArith ----------------------------
EXTENDS WheelArith
=============================================================================
