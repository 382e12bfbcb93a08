------------------------------- MODULE MCKeyboard -------------------------------
(* A small instance of Keyboard: both Shift keys and a prefixed one, a letter and   *)
(* an arrow key.                                                                    *)
EXTENDS Keyboard

Plain(x) == [code |-> x, extended |-> FALSE]
Ext(x) == [code |-> x, extended |-> TRUE]

Keys == {Plain("lshift"), Plain("rshift"), Ext("lshift"), Plain("a"), Ext("up")}
================================================================================
