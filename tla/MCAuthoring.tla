------------------------------ MODULE MCAuthoring ------------------------------
(***************************************************************************)
(* Forms of both modes with images, translations, a written question that  *)
(* posts answers all the same, a weight for a category that is not there   *)
(* and a text posted twice in one language, and the deletion of languages. *)
(***************************************************************************)
EXTENDS Authoring

CONSTANTS r1, r2, r3

Answer(image, texts, weights) == [image |-> image, texts |-> texts, weights |-> weights]

\* Two categories, the first translated; weights for both and for a third.
Categorical ==
    [mode |-> "categorical", titles |-> <<1>>, categories |-> <<<<2>>, <<Null>>>>,
     questions |-> <<[type |-> "mcq", image |-> FALSE, texts |-> <<>>,
                      answers |-> <<Answer(TRUE, <<1>>, <<2, 3>>)>>]>>]

\* A written question whose answers are ignored, and one with an image.
Percentile ==
    [mode |-> "percentile", titles |-> <<1>>, categories |-> <<>>,
     questions |-> <<[type |-> "written", image |-> FALSE, texts |-> <<1, Null, 3>>,
                      answers |-> <<Answer(TRUE, <<1>>, <<>>)>>],
                     [type |-> "mcq", image |-> FALSE, texts |-> <<>>,
                      answers |-> <<Answer(TRUE, <<3>>, <<1>>)>>]>>]

\* The same language twice, after an image was stored.
Twice ==
    [mode |-> "percentile", titles |-> <<3>>, categories |-> <<>>,
     questions |-> <<[type |-> "written", image |-> TRUE, texts |-> <<1, 1>>, answers |-> <<>>]>>]

MCForms == {Categorical, Percentile, Twice}
=============================================================================
