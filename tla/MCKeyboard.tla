----------------------------- MODULE MCKeyboard -----------------------------
(* TLC instance of Keyboard: all sizes are in the cfg file.                *)
EXTENDS Keyboard
=============================================================================
