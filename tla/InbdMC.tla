------------------------------- MODULE InbdMC -------------------------------
(* Values for the constants of Inbd, and bounds for TLC: any two requests,  *)
(* one after the other or together.                                         *)
EXTENDS InbdVerdicts

(* The same code updates the firmware of both systems: two such requests,  *)
(* and a firmware that is new already, are left to EMT.                    *)
MCMaxOthers == [o \in OSs |-> IF o = "emt" THEN 2 ELSE 1]
MCInit == VerdictsInit /\ (MaxOthers[os] = 1 => fw.running = 0)
Pairs  == requests'.sota + requests'.other <= 2

(* A request that finds nobody waiting is the first client's: which of the *)
(* two it is makes no difference.                                          *)
First  == CHOOSE c \in Calls : TRUE
InTurn == \A c \in Calls \ {First} : call[c] = Idle /\ call'[c] # Idle => call[First] # Idle
MCSpec == MCInit /\ [][VerdictsNext /\ Pairs /\ InTurn]_<<vars, unjudged>> /\ Fairness
=============================================================================
