--------------------------- MODULE MCNightReaders ---------------------------
(* What the server reads: its configuration (the words and blocks of the     *)
(* file, the location trees built from them and looked up per request) and   *)
(* the lines of a request head. The readers share no state and never run     *)
(* together, so a behaviour follows one of them from its start and leaves    *)
(* the others where they begin.                                              *)
(* Location names are over "/", "a", "A", "b" and "-", which sorts below "/" *)
(* by its code and above it by the code's comparison.                        *)
EXTENDS NightParse, NightConf, NightLocations

Char == [a |-> 97, A |-> 65, b |-> 98, dash |-> 45]
MCNames == {<<Slash>>, <<Slash, Char.a>>, <<Slash, Char.A, Char.b>>,
            <<Slash, Char.a, Slash>>, <<Slash, Char.a, Char.dash>>}
MCUris == {<<Slash, Char.a>>, <<Slash, Char.b>>, <<Slash, Char.a, Slash>>,
           <<Slash, Char.a, Char.dash>>, <<Slash, Char.A, Slash, Char.a>>,
           <<Slash, Char.A, Char.b, Char.a>>}

Init == ParseInit /\ ConfInit /\ LocationInit
NoRequest == parsed = "idle"
NoFile == cf.rc = "idle"
NoLocations == decl = <<>> /\ stage = "reading"
Next == \/ NoFile /\ NoLocations /\ ParseNext /\ UNCHANGED <<cvars, lvars>>
        \/ NoRequest /\ NoLocations /\ ConfNext /\ UNCHANGED <<qvars, lvars>>
        \/ NoRequest /\ NoFile /\ LocationNext /\ UNCHANGED <<qvars, cvars>>
Spec == Init /\ [][Next]_<<qvars, cvars, lvars>>
=============================================================================
