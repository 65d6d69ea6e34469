---------------------------- MODULE MCSystemClock ----------------------------
(* A clock of half seconds, from 1 January 1900 to 31 December 2000: a        *)
(* century that begins without a leap day, one with it, and the end of an    *)
(* era of 400 years between them.                                            *)
EXTENDS SystemClock

First == -25567
Some == {-1201, -11, 12, 4801}
SomeTimes == {0, 1, 119, 86399, 86400, 172799}
=============================================================================
