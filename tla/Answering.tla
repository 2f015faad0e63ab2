----------------------------- MODULE Answering -----------------------------
(***************************************************************************)
(* A question from its transformation to the reply of /search/query:       *)
(* Retrieval, then the prompt (its texts loaded once more), the answer of  *)
(* the model, and VerificationGuard over the same context.                 *)
(***************************************************************************)
EXTENDS Retrieval, VerificationGuard

CONSTANTS
    Answers     \* the sequences of claims the model may answer with

\* The guard has an overlap for every claim and text; an empty text has none.
ASSUME AnswersAssumption ==
    /\ Answers \subseteq Seq(DOMAIN Overlap)
    /\ \A claim \in DOMAIN Overlap :
          /\ DOMAIN Overlap[claim] = Range(TextOf) \cup {NoText}
          /\ Overlap[claim][NoText] = 0

VARIABLES
    claims,     \* ClaimExtractor.extract of the answer
    verdict     \* NoVerdict, or the report

vars == <<retrievalVars, rows, claims, verdict>>

Texts  == [i \in DOMAIN context |-> text[context[i]]]
Ranked == [i \in DOMAIN context |-> score[context[i]]]

NoVerdict == [supported |-> {}, contradicted |-> {}, supporting |-> <<>>,
              confidence |-> 0, verified |-> FALSE]

AnswerInit == Init /\ claims = <<>> /\ verdict = NoVerdict

\* build_answer loads the texts of the context again; a row that is gone by
\* now leaves the text that was loaded before.
Reload ==
    /\ Go("retrieved", "prompted")
    /\ text' = Loaded(Ids(context))
    /\ UNCHANGED <<error, settings, tq, dense, lexical, found, fused, score, context, rows, claims, verdict>>

Generate ==
    /\ ~settings.stream
    /\ Go("prompted", "answered")
    /\ claims' \in Answers
    /\ UNCHANGED <<error, settings, tq, dense, lexical, found, fused, text, score, context, rows, verdict>>

GenerateFails ==
    /\ stage = "prompted" /\ ~settings.stream
    /\ Fail("llm")
    /\ UNCHANGED <<claims, verdict>>

\* Both checks enabled: the report replaces the confidence of the answer.
Verify ==
    /\ settings.verify
    /\ Go("answered", "verified")
    /\ verdict' = Verdict(claims, Texts, Ranked, UsesModel(settings))
    /\ UNCHANGED <<error, settings, tq, dense, lexical, found, fused, text, score, context, rows, claims>>

\* The confidence stays the best score of the context.
SkipVerification ==
    /\ ~settings.verify
    /\ Go("answered", "unverified")
    /\ UNCHANGED <<error, settings, tq, dense, lexical, found, fused, text, score, context, rows, claims, verdict>>

Next ==
    \/ RetrievalNext /\ UNCHANGED <<claims, verdict>>
    \/ RowDeleted /\ UNCHANGED <<claims, verdict>>
    \/ Reload \/ Generate \/ GenerateFails \/ Verify \/ SkipVerification

\* "Variant" operators are plausible errors that no step uses.
Spec == AnswerInit /\ [][Next]_vars

-----------------------------------------------------------------------------

\* The texts in the prompt are those of the chunks' own rows; a chunk without
\* text is one whose row was deleted while the request ran, and it supports
\* nothing unless a model says so.
\* What the guard says rests on that context: a supported claim has exactly
\* one supporting chunk, whose loaded text entails it as much as any, or none
\* because nothing entails it and a threshold of 0 or less asks for nothing; no
\* claim is both supported and contradicted; and an answer without a supported
\* claim passes only by a retrieval score of 0.7499 or more, which is what 0.75
\* comes to when the confidence is rounded before it is compared.
VerdictFollowsEvidence ==
    /\ stage \in {"prompted", "answered", "verified"} =>
         \A c \in Ids(context) : \/ text[c] = TextOf[c]
                                 \/ text[c] = NoText /\ c \notin rows
    /\ stage = "verified" =>
         /\ verdict.supported \cap verdict.contradicted = {}
         /\ \A k \in DOMAIN claims :
              LET Entailed(t) == Entailment(claims[k], t, UsesModel(settings))
              IN  /\ IF k \in verdict.supported
                     THEN \/ Cardinality(verdict.supporting[k]) = 1
                          \/ /\ Threshold <= 0 /\ verdict.supporting[k] = {}
                             /\ \A j \in DOMAIN Texts : Entailed(Texts[j]) <= 0
                     ELSE verdict.supporting[k] = {}
                  /\ \A i \in verdict.supporting[k] :
                       /\ UsesModel(settings) \/ Texts[i] # NoText
                       /\ Entailed(Texts[i]) >= Threshold
                       /\ \A j \in DOMAIN Texts : Entailed(Texts[j]) <= Entailed(Texts[i])
         /\ verdict.verified /\ verdict.supported = {} => \E i \in DOMAIN Ranked : Ranked[i] >= 7499
=============================================================================
