------------------------- MODULE VerificationGuard -------------------------
(***************************************************************************)
(* VerificationGuard.verify on an answer, a sequence of claims, and the    *)
(* texts of its context.  A claim is judged by an NLI model if there is    *)
(* one, and by the overlap of tokens otherwise.  Shares are hundredths;    *)
(* scores of chunks and the confidence, ten-thousandths.                   *)
(***************************************************************************)
EXTENDS Integers, Sequences, FiniteSetsExt

CONSTANTS
    Overlap,        \* Overlap[claim][text]: _jaccard of the two, in 0..100
    Predicted,      \* Predicted[claim][text]: what the model returns, a sequence
    NoPrediction,   \* ... or that it raises
    Threshold       \* settings.nli_similarity_threshold

ASSUME GuardAssumption ==
    /\ Threshold \in Int
    /\ DOMAIN Predicted = DOMAIN Overlap
    /\ \A claim \in DOMAIN Overlap :
          /\ DOMAIN Predicted[claim] = DOMAIN Overlap[claim]
          /\ \A t \in DOMAIN Overlap[claim] :
                /\ Overlap[claim][t] \in 0..100
                /\ Predicted[claim][t] = NoPrediction \/ Predicted[claim][t] \in Seq(Int)

\* A model that is not wanted, or cannot be loaded, leaves the overlap.
UsesModel(settings) == settings.nli = "loaded"

ByOverlap(share) ==
    [entailment    |-> IF share >= 30 THEN share ELSE 0,
     contradiction |-> IF share < 10 THEN 100 - share ELSE 0]

\* Probabilities of contradiction, entailment and neither, or a single score.
ByModel(scores) ==
    LET single == IF scores = <<>> THEN 0 ELSE scores[1]
    IN  IF Len(scores) = 3 THEN [entailment |-> scores[2], contradiction |-> scores[1]]
        ELSE IF single > 0 THEN [entailment |-> single, contradiction |-> 0]
        ELSE [entailment |-> 0, contradiction |-> -single]

\* _nli_entailment
Judged(claim, t, nli) ==
    IF nli /\ Predicted[claim][t] # NoPrediction THEN ByModel(Predicted[claim][t])
                                                 ELSE ByOverlap(Overlap[claim][t])

Entailment(claim, t, nli)    == Judged(claim, t, nli).entailment
Contradiction(claim, t, nli) == Judged(claim, t, nli).contradiction

\* check: texts[i] is the text of the i-th chunk of the context.
Best(claim, texts, nli) == Max({0} \cup {Entailment(claim, texts[i], nli) : i \in DOMAIN texts})

Supported(claim, texts, nli) == Best(claim, texts, nli) >= Threshold

\* Variant: "if" for "elif".
EverContradicted(claim, texts, nli) == \E i \in DOMAIN texts : Contradiction(claim, texts[i], nli) >= 50

Contradicted(claim, texts, nli) ==
    /\ ~Supported(claim, texts, nli)
    /\ \E i \in DOMAIN texts : Contradiction(claim, texts[i], nli) >= 50

\* The first chunk with the best entailment, if that is enough.
SupportingChunks(claim, texts, nli) ==
    {i \in DOMAIN texts :
        /\ Supported(claim, texts, nli) /\ Best(claim, texts, nli) > 0
        /\ Entailment(claim, texts[i], nli) = Best(claim, texts, nli)
        /\ \A j \in 1..(i - 1) : Entailment(claim, texts[j], nli) < Best(claim, texts, nli)}

SupportedCount(claims, texts, nli) == Cardinality({k \in DOMAIN claims : Supported(claims[k], texts, nli)})

\* round(x, 4): the nearest number, and of two the even one.
Rounded(num, den) ==
    LET low == num \div den
        rest == 2 * (num % den)
    IN  IF rest > den \/ (rest = den /\ low % 2 = 1) THEN low + 1 ELSE low

\* score: 0.6 of the supported share plus 0.4 of the best retrieval score.
Parts(claims) == IF claims = <<>> THEN 1 ELSE Len(claims)
BestScore(scores) == IF scores = <<>> THEN 0 ELSE Max({scores[i] : i \in DOMAIN scores})
Confidence(claims, texts, scores, nli) ==
    Rounded(60000 * SupportedCount(claims, texts, nli) + 4 * BestScore(scores) * Parts(claims),
            10 * Parts(claims))

Verdict(claims, texts, scores, nli) ==
    [supported    |-> {k \in DOMAIN claims : Supported(claims[k], texts, nli)},
     contradicted |-> {k \in DOMAIN claims : Contradicted(claims[k], texts, nli)},
     supporting   |-> [k \in DOMAIN claims |-> SupportingChunks(claims[k], texts, nli)],
     confidence   |-> Confidence(claims, texts, scores, nli),
     verified     |-> Confidence(claims, texts, scores, nli) >= 3000]
=============================================================================
