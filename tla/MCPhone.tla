------------------------------- MODULE MCPhone --------------------------------
(* Instances of PhoneAgent for TLC: a plain script and one with a slot     *)
(* that enables few hand-off reasons.                                      *)
EXTENDS PhoneAgent, TLC

CONSTANTS c1, c2, s1, s2, o1, o2, plain, strict

Slots == plain :> 0 @@ strict :> 1
Reasons == plain :> {} @@ strict :> Mandatory \cup {"low_asr_confidence"}
Signal(type) == [type |-> type, says |-> "nothing", clear |-> TRUE]
Said(what, clear) == [type |-> "speech", says |-> what, clear |-> clear]
AllEvents ==
    {Signal(t) : t \in Signals \cup {"dtmf"}}
      \cup {Said("question", TRUE), Said("anger", TRUE), Said("question", FALSE)}
ServerSymmetry == Permutations(Servers)
===============================================================================
