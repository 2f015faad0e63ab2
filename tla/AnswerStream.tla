---------------------------- MODULE AnswerStream ----------------------------
(***************************************************************************)
(* The same question asked through /chat/stream: after the prompt the      *)
(* answer comes from the model line by line, every piece is handed to the  *)
(* client at once and added to the text that is stored, a done event with  *)
(* the citations follows, and the guard judges the stored text last.       *)
(*                                                                         *)
(* A line of the model's reply is a piece of the answer (a claim), or a    *)
(* piece that does not parse, or says nothing, or that the model failed,   *)
(* or has no choice in it, or is the mark of the end.  "ollama" ends at    *)
(* the mark and fails on a line that does not parse, "openai" reads over   *)
(* both and fails on an empty list of choices, and "stub" and "hf" stream  *)
(* what generate returns.                                                  *)
(*                                                                         *)
(* The first two cannot be built: their modules use httpx.AsyncClient and  *)
(* never bind the name httpx.  That is named = FALSE, what the code is.    *)
(* With TRUE the modules are as they are but for that import.              *)
(***************************************************************************)
EXTENDS Answering

CONSTANTS
    Providers,  \* Providers[s]: the providers looked at under the settings s,
                \* each with whether its module imports httpx
    Replies,    \* the sequences of lines a model may send
    Blank, Garbled, Failure, NoChoice, End

Marks == {Blank, Garbled, Failure, NoChoice, End}

\* The marks are distinct, and that of the end comes last.
ASSUME RepliesAssumption ==
    /\ \A s \in SettingsRange : Providers[s] \subseteq {"ollama", "openai", "stub", "hf"} \X BOOLEAN
    /\ IsInjective(<<Blank, Garbled, Failure, NoChoice, End>>)
    /\ Replies \subseteq Seq(DOMAIN Overlap \cup Marks)
    /\ \A r \in Replies : \A i \in DOMAIN r : r[i] = End => i = Len(r)

Without(reply, marks) == Filtered(reply, LAMBDA kept, l : l \notin marks)

\* What can be read of a reply.
Pieces(reply) == Without(reply, Marks)

VARIABLES
    llm,        \* the provider
    named,      \* whether its module imports httpx
    lines,      \* what it sends
    at,         \* how many lines were read
    sent,       \* pieces the client was given
    done        \* NotDone, or the done event

streamVars == <<llm, named, lines, at, sent, done>>

NotDone == [citations |-> <<>>, confidence |-> -1]

StreamInit ==
    /\ AnswerInit
    /\ \E p \in Providers[settings] : llm = p[1] /\ named = p[2]
    /\ lines = <<>> /\ at = 0 /\ sent = <<>> /\ done = NotDone

UsesHttpx == llm \in {"ollama", "openai"}

\* The provider is built before anything else is done for the question.
ProviderFails ==
    /\ UsesHttpx /\ ~named
    /\ stage = "transformed" /\ Fail("NameError")
    /\ UNCHANGED <<claims, verdict, streamVars>>

BeginStream ==
    /\ settings.stream
    /\ Go("prompted", "streaming")
    /\ lines' \in IF UsesHttpx THEN Replies ELSE {Pieces(r) : r \in Replies}
    /\ UNCHANGED <<error, settings, tq, dense, lexical, found, fused, text, score, context, rows,
                   claims, verdict, llm, named, at, sent, done>>

Streaming == stage = "streaming" /\ at < Len(lines)
Line == lines[at + 1]

Stay == UNCHANGED <<stage, error, settings, tq, dense, lexical, found, fused, text, score, context,
                    rows, verdict, llm, named, lines, done>>

Piece ==
    /\ Streaming /\ Line \notin Marks
    /\ at' = at + 1
    /\ sent' = Append(sent, Line)
    /\ claims' = Append(claims, Line)
    /\ Stay

\* Lines that are read over.  What says that the model failed parses and has no
\* content, for both providers.
Skip ==
    /\ Streaming
    /\ \/ Line \in {Blank, Failure}
       \/ Line \in {Garbled, End} /\ llm = "openai"
       \/ Line = NoChoice /\ llm = "ollama"
    /\ at' = at + 1
    /\ UNCHANGED <<claims, sent>> /\ Stay

\* Variant: a line that does not parse ends the answer, too.
LastOrGarbled ==
    /\ Streaming /\ Line \in {End, Garbled} /\ llm = "ollama"
    /\ at' = Len(lines)
    /\ UNCHANGED <<claims, sent>> /\ Stay

\* Ollama's last line.
LastLine ==
    /\ Streaming /\ Line = End /\ llm = "ollama"
    /\ at' = Len(lines)
    /\ UNCHANGED <<claims, sent>> /\ Stay

\* A line that does not parse, the first of no choices, a lost connection, a
\* client that is gone.
Unreadable == (Line = Garbled /\ llm = "ollama") \/ (Line = NoChoice /\ llm = "openai")
StreamFails ==
    /\ Streaming
    /\ \/ Unreadable /\ Fail("llm")
       \/ ~Unreadable /\ Fail("connection")
    /\ UNCHANGED <<claims, verdict, streamVars>>

\* The answer is stored, then the done event.
Done ==
    /\ at = Len(lines)
    /\ Go("streaming", "streamed")
    /\ done' = [citations |-> context, confidence |-> BestScore(Ranked)]
    /\ UNCHANGED <<error, settings, tq, dense, lexical, found, fused, text, score, context, rows,
                   claims, verdict, llm, named, lines, at, sent>>

\* The stored text is judged without citations, so without their scores.
VerifyStream ==
    /\ settings.verify
    /\ Go("streamed", "verified")
    /\ verdict' = Verdict(claims, Texts, <<>>, UsesModel(settings))
    /\ UNCHANGED <<error, settings, tq, dense, lexical, found, fused, text, score, context, rows,
                   claims, streamVars>>

StreamNext ==
    \/ ProviderFails
    \/ /\ UsesHttpx => named
       /\ Next /\ UNCHANGED streamVars
    \/ BeginStream \/ Piece \/ Skip \/ LastLine \/ StreamFails \/ Done \/ VerifyStream

StreamSpec == StreamInit /\ [][StreamNext]_<<vars, streamVars>>

-----------------------------------------------------------------------------

\* What the model has to say in a reply: the pieces, those that do not parse,
\* and that it failed.
Said(reply) == Without(reply, {Blank, NoChoice, End})

\* What is stored and judged is what the client has read, piece by piece.  An
\* answer that was declared done has its own prompt's chunks as citations and is
\* all the model has said, except for two kinds of lines that are read over: a
\* piece that openai could not parse, and the word of either provider that the
\* model failed.  No lost connection, nothing ollama could not parse, and no
\* provider that could not be built makes a part of an answer look like a whole.
StreamedAnswerIsWhole ==
    /\ settings.stream => claims = sent
    /\ IsPrefix(sent, Pieces(lines))
    /\ done # NotDone =>
         /\ \/ sent = Said(lines)
            \/ /\ sent = Pieces(lines)
               /\ \E i \in DOMAIN lines : lines[i] = Failure \/ (lines[i] = Garbled /\ llm = "openai")
         /\ llm = "ollama" => Garbled \notin Range(lines)
         /\ llm = "openai" => NoChoice \notin Range(lines)
         /\ error = "none" /\ (UsesHttpx => named)
         /\ done.citations = context
         /\ \A i \in DOMAIN Texts : Texts[i] \in {TextOf[context[i]], NoText}
=============================================================================
