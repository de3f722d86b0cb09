------------------------------ MODULE MCKeyboard ------------------------------
(* Keyboard with every key of the tables, one of the shift keys, the arrows,   *)
(* the keypad's Enter and the shift that keyboards send around the arrows.     *)
EXTENDS Keyboard

PlainKeys == [code : (1 .. 59 \ {RShift}) \cup {ArrowUp, ArrowDown}, ext : {FALSE}]
ExtKeys == [code : {28, LShift, ArrowUp, ArrowDown}, ext : {TRUE}]
MCKeys == PlainKeys \cup ExtKeys
==============================================================================
