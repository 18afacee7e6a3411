---------------------------- MODULE NumericInput ----------------------------
(***************************************************************************)
(* A program that asks of the lines it reads whether they are numbers,     *)
(* takes them for numbers, asked or not, and writes those out again and    *)
(* reads that.  One thing is done at a time, in any order.                 *)
(***************************************************************************)
EXTENDS Input, Numbers

NumericInit == Init /\ Idle

(* Input's routines, while no other runs. *)
Reading ==
    /\ doing = "nothing"
    /\ Next
    /\ told' = "nothing"
    /\ UNCHANGED <<doing, spelled, here, minus, rax, number, digits>>

(* is_int and int of the line read last, or of what was written last. *)
Asking ==
    /\ Running /\ at = "program"
    /\ \E who \in {"is_int", "int"} :
          \/ lines # << >> /\ Parse(who, Last(lines))
          \/ told = "text" /\ Parse(who, spelled)
    /\ UNCHANGED <<source, buffer, at, decoder, line, lines, answer, stopped>>

(* string of a number that was read. *)
Writing ==
    /\ told = "number" /\ Write(number)
    /\ UNCHANGED <<source, buffer, at, decoder, line, lines, answer, stopped>>

Counting ==
    /\ Digit \/ Complete \/ WriteDigit
    /\ UNCHANGED <<source, buffer, at, decoder, line, lines, answer, stopped>>

(* int of what is no number was the last thing the program did. *)
GivenUp == doing = "stopped" /\ UNCHANGED <<vars, numbers>>

NumericNext == Reading \/ Asking \/ Writing \/ Counting \/ GivenUp

NumericSpec == NumericInit /\ [][NumericNext]_<<vars, numbers>>
=============================================================================
