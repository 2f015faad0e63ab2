---------------------------- MODULE MCAnswering ----------------------------
(***************************************************************************)
(* Instances of Answering for TLC: three chunks, two of which begin alike  *)
(* (a parent and its first child), and every combination of the retrievers *)
(* and transformations; and questions whose answers are streamed.          *)
(***************************************************************************)
EXTENDS AnswerStream, Evaluation

CONSTANTS a, b, c, t, long, u, empty, failed, claim1, claim2, noPrediction,
          blank, garbled, failure, noChoice, end

MCChunks == {a, b, c}
MCTextOf == [x \in MCChunks |-> CASE x = a -> t [] x = b -> long [] x = c -> u]
MCBeginningOf == [x \in {t, long, u} |-> IF x = u THEN 2 ELSE 1]
MCHits == {<<a, b>>, <<c, a>>}

MCQueries == {<<"please", "leave">>}
MCOpenings == {"please"}
MCSynonyms == [leave |-> <<"vacation", "holiday">>]
MCTemplates == <<<<>>, <<"what is">>, <<"explain">>>>

Flag(dense_, lexical_, expansion_, multi_, rerankTop_) ==
    [dense |-> dense_, lexical |-> lexical_, rewrite |-> TRUE,
     expansion |-> expansion_, multi |-> multi_, hyde |-> multi_,
     verify |-> dense_ \/ lexical_,
     nli |-> IF expansion_ THEN "loaded" ELSE IF dense_ THEN "off" ELSE "missing", rerankTop |-> rerankTop_,
     stream |-> dense_ # lexical_ /\ rerankTop_ = 3]
MCSettings == {Flag(d, l, e, m, n) : d, l \in BOOLEAN, <<e, m>> \in {<<TRUE, FALSE>>, <<FALSE, TRUE>>}, n \in {1, 3}}

\* What answers at once is the same to its caller for every provider that is
\* built; a stream is not.
MCProviders == [s \in MCSettings |->
    {<<"stub", FALSE>>, <<"ollama", FALSE>>} \cup
    (IF s \in {Flag(TRUE, FALSE, TRUE, FALSE, 3), Flag(FALSE, TRUE, FALSE, TRUE, 3)}
     THEN {<<"ollama", TRUE>>, <<"openai", TRUE>>, <<"openai", FALSE>>, <<"hf", FALSE>>} ELSE {})]

\* 0.4 * 0.7499 is rounded to 0.3.
MCMinScore == -100000
MCScores == {-120000, 4000, 7499}

MCOverlap == [claim \in {claim1, claim2} |->
                 [x \in {t, long, u, empty} |-> IF x = empty THEN 0
                                          ELSE IF claim = claim1 /\ x # u THEN 80
                                          ELSE IF claim = claim2 /\ x = u THEN 40 ELSE 5]]
\* The model is asked about a text, finds no words, or has a single score.
MCPredicted == [claim \in {claim1, claim2} |->
                   [x \in {t, long, u, empty} |-> IF x = u THEN <<5, 90, 5>>
                                            ELSE IF claim = claim1 THEN noPrediction
                                            ELSE IF x # empty THEN <<-70>> ELSE <<>>]]
MCAnswers == {<<>>, <<claim1, claim2>>}

\* 420 / log2(rank + 1)
MCDiscount == <<420, 265, 210>>
MCKValues == {1, 2, 3}
MCReplies == {<<claim1, blank, claim2, end>>, <<claim1, garbled, claim2>>,
              <<claim1, failure, end>>, <<claim2, noChoice, claim1>>}
=============================================================================
