------------------------------- MODULE Catalogue -------------------------------
(***************************************************************************)
(* What the assessments' tables promise: an assessment appears in one step *)
(* with everything its form asked for, in languages that exist, and then   *)
(* loses nothing but its texts in a language that is deleted.              *)
(***************************************************************************)
CONSTANTS
    Names,          \* assessments
    Wholes,         \* the complete assessments that forms ask for, as sets of rows
    LangOf(_)       \* the language of a row, or none of Langs

VARIABLES
    shelf,  \* the rows of each assessment; empty until it is published
    langs   \* the languages that exist

Init == shelf = [n \in Names |-> {}] /\ langs # {}

Publish(n) ==
    /\ shelf[n] = {}
    /\ \E whole \in Wholes : shelf' = [shelf EXCEPT ![n] = whole]
    /\ UNCHANGED langs

DropLanguage(l) ==
    /\ l \in langs
    /\ langs' = langs \ {l}
    /\ shelf' = [n \in Names |-> {row \in shelf[n] : LangOf(row) # l}]

Next == (\E n \in Names : Publish(n)) \/ (\E l \in langs : DropLanguage(l))

Spec == Init /\ [][Next]_<<shelf, langs>>
=============================================================================
