---------------------------- MODULE AssessmentForm ----------------------------
(***************************************************************************)
(* What AssessmentController::store does with a posted form, as the list   *)
(* of statements that it issues in its transaction.                        *)
(*                                                                         *)
(* A form is [mode, titles, categories, questions].  titles is the list of *)
(* the languages it has a title in; categories gives each category's list  *)
(* of translations; a question is [type, image, texts, answers] and an     *)
(* answer is [image, texts, weights], where weights lists the category     *)
(* indexes that it posts a weight for.  In a list of translations Null is  *)
(* an entry without a language or a text.                                  *)
(*                                                                         *)
(* A row is named by its kind and by its place under the assessment, so    *)
(* <<q, a, l>> is the text in language l of answer a of question q.  Keys  *)
(* that are unique in the schema (parent and language, answer and          *)
(* category) are equal exactly when these names are.                       *)
(***************************************************************************)
EXTENDS SequencesExt

CONSTANTS Null

TextKinds == {"title", "categorytext", "questiontext", "answertext"}
ImageKinds == {"question", "answer"}

Insert(kind, at, image) == [do |-> "insert", row |-> [kind |-> kind, at |-> at, image |-> image]]

Texts(kind, at, langs) ==
    LET given == SelectSeq(langs, LAMBDA l : l # Null)
    IN  [n \in DOMAIN given |-> Insert(kind, Append(at, given[n]), FALSE)]

\* hasFile ? store(...) : null, and the row that keeps the path.
WithImage(kind, at, image) ==
    IF image
    THEN <<[do |-> "file", row |-> Insert(kind, at, TRUE).row], Insert(kind, at, TRUE)>>
    ELSE <<Insert(kind, at, FALSE)>>

Weights(form, q, a, weights) ==
    LET known == SelectSeq(weights, LAMBDA k : k \in DOMAIN form.categories)
    IN  [n \in DOMAIN known |-> Insert("weight", <<q, a, known[n]>>, FALSE)]

AnswerScript(form, q, a) ==
    LET answer == form.questions[q].answers[a]
    IN  WithImage("answer", <<q, a>>, answer.image)
        \o Texts("answertext", <<q, a>>, answer.texts)
        \o (IF form.mode = "percentile" THEN <<Insert("score", <<q, a>>, FALSE)>>
            ELSE Weights(form, q, a, answer.weights))

QuestionScript(form, q) ==
    LET question == form.questions[q]
    IN  WithImage("question", <<q>>, question.image)
        \o Texts("questiontext", <<q>>, question.texts)
        \o (IF question.type = "mcq"
            THEN FlattenSeq([a \in DOMAIN question.answers |-> AnswerScript(form, q, a)])
            ELSE <<>>)

CategoryScript(form, k) ==
    <<Insert("category", <<k>>, FALSE)>> \o Texts("categorytext", <<k>>, form.categories[k])

Script(form) ==
    <<Insert("assessment", <<>>, FALSE)>>
    \o Texts("title", <<>>, form.titles)
    \o (IF form.mode = "categorical"
        THEN FlattenSeq([k \in DOMAIN form.categories |-> CategoryScript(form, k)]) ELSE <<>>)
    \o FlattenSeq([q \in DOMAIN form.questions |-> QuestionScript(form, q)])

\* The languages that the exists rules look up.
Languages(form) ==
    LET lists == {form.titles} \cup Range(form.categories)
            \cup {form.questions[q].texts : q \in DOMAIN form.questions}
            \cup UNION {{x.texts : x \in Range(form.questions[q].answers)} : q \in DOMAIN form.questions}
    IN  UNION {Range(list) : list \in lists} \ {Null}

-----------------------------------------------------------------------------
(***************************************************************************)
(* Reference: the rows that an assessment made from the form consists of,  *)
(* and what they have to be to belong together.                            *)
(***************************************************************************)
Row(kind, at, image) == [kind |-> kind, at |-> at, image |-> image]

Rows(kind, places) == {Row(kind, at, FALSE) : at \in places}

Answers(form) ==
    LET mcq == {q \in DOMAIN form.questions : form.questions[q].type = "mcq"}
    IN  UNION {{<<q, a>> : a \in DOMAIN form.questions[q].answers} : q \in mcq}

Content(form) ==
    LET Q == DOMAIN form.questions
        A == Answers(form)
        C == IF form.mode = "categorical" THEN DOMAIN form.categories ELSE {}
        answer(p) == form.questions[p[1]].answers[p[2]]
        spoken(list) == Range(list) \ {Null}
    IN  Rows("assessment", {<<>>})
        \cup Rows("title", {<<l>> : l \in spoken(form.titles)})
        \cup Rows("category", {<<k>> : k \in C})
        \cup UNION {Rows("categorytext", {<<k, l>> : l \in spoken(form.categories[k])}) : k \in C}
        \cup {Row("question", <<q>>, form.questions[q].image) : q \in Q}
        \cup UNION {Rows("questiontext", {<<q, l>> : l \in spoken(form.questions[q].texts)}) : q \in Q}
        \cup {Row("answer", p, answer(p).image) : p \in A}
        \cup UNION {Rows("answertext", {<<p[1], p[2], l>> : l \in spoken(answer(p).texts)}) : p \in A}
        \cup (IF form.mode = "percentile" THEN Rows("score", A) ELSE {})
        \cup UNION {Rows("weight", {<<p[1], p[2], k>> : k \in Range(answer(p).weights) \cap C}) : p \in A}
=============================================================================
