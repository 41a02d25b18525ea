---------------------------- MODULE MCKeyboard ----------------------------
(***************************************************************************)
(* A small instance of Keyboard: every kind of key, hit at any time, and a *)
(* queue of three.                                                         *)
(***************************************************************************)
EXTENDS Keyboard

MCTyped == KeyStroke
=============================================================================
