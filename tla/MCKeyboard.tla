---------------------------- MODULE MCKeyboard ----------------------------
(* Key events of both lengths, and timers scaled down to 3 and 6 ticks.    *)
EXTENDS Keyboard
===========================================================================
