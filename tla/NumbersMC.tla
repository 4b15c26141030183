------------------------------ MODULE NumbersMC ------------------------------
(* Base 4, words that hold four times the power of a chunk, Int63 as       *)
(* -32 .. 31, and binary digits read three at a time.  A behaviour is a    *)
(* call of the arithmetic or the reading of a text.                        *)
EXTENDS Limbs, Decimal
LimbsOf32 == <<0, 0, 2>>
LimbsOf31 == <<3, 3, 1>>
PowersOf2 == [n \in 0 .. 3 |-> 2 ^ n]

NumbersInit == Init /\ TextInit
NumbersNext ==
  \/ text = << >> /\ phase = "start" /\ Next /\ UNCHANGED textvars
  \/ op = "start" /\ TextNext /\ UNCHANGED vars
NumbersSpec == NumbersInit /\ [][NumbersNext]_<<vars, textvars>>
=============================================================================
