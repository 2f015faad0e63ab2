------------------------------ MODULE ChatPage ------------------------------
(***************************************************************************)
(* The chat page (Chat.tsx): questions are sent one at a time, the answer  *)
(* comes as a stream of events, and state updates are queued and applied   *)
(* in order when React renders.  A click or key press renders at once,     *)
(* with all that was queued before.                                        *)
(*                                                                         *)
(* A link of the sidebar leaves the page: the component unmounts, and      *)
(* nothing aborts the stream it was reading.  Its promise reads on, what   *)
(* it sets is lost, and its done event still navigates.  Coming back       *)
(* mounts a fresh page, which knows nothing of that stream.                *)
(*                                                                         *)
(* Turns are the questions in the order they are sent.  The text of an     *)
(* answer is the number of its tokens.  A conversation is named by the     *)
(* turn that began it; the page loads one by its id and gets a 404, as     *)
(* none is ever committed (QueryService), which changes nothing here.      *)
(***************************************************************************)
EXTENDS Naturals, SequencesExt

CONSTANTS
    Turns,      \* bound on the questions: turns 1..Turns
    MaxTokens,  \* bound on the tokens of an answer
    None

ASSUME ChatAssumption == {Turns, MaxTokens} \subseteq Nat /\ None \notin Nat

VARIABLES
    messages,   \* what is shown: [role, turn, text, cites]
    streaming,  \* isStreaming
    error,      \* whether an error is shown
    conv,       \* conversationId of the route
    pending,    \* updates queued
    turn,       \* the local state of each sendMessage
    aborted,    \* turns whose AbortController was used
    cleared,    \* history: turns under way when the chat was cleared
    here,       \* whether the chat page is mounted
    left        \* turns that were under way when their page was left

pageVars == <<messages, streaming, error, conv, pending, turn, aborted, cleared, here, left>>

\* text is the turn the text is of and the number of its tokens.
User(t) == [role |-> "user", turn |-> t, text |-> <<t, 0>>, cites |-> None]
Assistant(t, n) == [role |-> "assistant", turn |-> t, text |-> <<t, n>>, cites |-> None]

Unsent == [stage |-> "unsent", got |-> 0, created |-> FALSE, done |-> FALSE,
           frame |-> None, conv |-> None]

\* What is left of a turn whose stream is over.
Over(t) == [Unsent EXCEPT !.stage = "over", !.got = turn[t].got, !.done = turn[t].done]

Busy(t) == turn[t].stage \in {"asked", "reading"}

\* The turns of the page that is mounted which are under way.
Under == {t \in (1..Turns) \ left : Busy(t)}

-----------------------------------------------------------------------------
(* Updates. *)

EndsWithAnswer(list) == list # <<>> /\ Last(list).role = "assistant"

WithoutAnswers(list) ==
    LET kept[i \in 0..Len(list)] ==
            IF i = 0 THEN <<>>
            ELSE IF list[i].role = "assistant" THEN kept[i - 1] ELSE Append(kept[i - 1], list[i])
    IN  kept[Len(list)]

ReplaceLast(list, m) == IF EndsWithAnswer(list) THEN Append(Front(list), m) ELSE list

\* Variant: the citations go to the last answer, wherever it is.  "Variant"
\* operators are plausible errors that no step uses.
CiteLastAnswer(list, t) ==
    LET last == SelectLastInSeq(list, LAMBDA m : m.role = "assistant")
    IN  IF last = 0 THEN list ELSE [list EXCEPT ![last].cites = t]

Cite(list, t) == ReplaceLast(list, [Last(list) EXCEPT !.cites = t])

\* The updater of the first token reads assistantContent when it runs, those
\* of a frame were given theirs when it was requested.
Apply(list, u) ==
    CASE u.kind = "create"  -> Append(list, Assistant(u.turn, turn[u.turn].got))
      [] u.kind = "content" -> ReplaceLast(list, [Last(list) EXCEPT !.text = <<u.turn, u.n>>])
      [] u.kind = "cite"    -> Cite(list, u.turn)
      [] u.kind = "drop"    -> WithoutAnswers(list)
      [] u.kind = "idle"    -> list

Shown ==
    LET after[i \in 0..Len(pending)] ==
            IF i = 0 THEN messages ELSE Apply(after[i - 1], pending[i])
    IN  after[Len(pending)]
StillStreaming == streaming /\ \A i \in DOMAIN pending : pending[i].kind # "idle"

Update(kind, t) == [kind |-> kind, turn |-> t, n |-> turn[t].got]

Render ==
    /\ pending # <<>>
    /\ messages' = Shown
    /\ streaming' = StillStreaming
    /\ pending' = <<>>
    /\ UNCHANGED <<error, conv, turn, aborted, cleared, here, left>>

-----------------------------------------------------------------------------
(* The user. *)

PageInit ==
    /\ messages = <<>> /\ streaming = FALSE /\ error = FALSE /\ conv = None
    /\ pending = <<>>
    /\ turn = [t \in 1..Turns |-> Unsent]
    /\ aborted = {} /\ cleared = {}
    /\ here = TRUE /\ left = {}

\* sendMessage up to its first await.
Ask(list) ==
    /\ here /\ ~streaming
    /\ \E t \in 1..Turns :
         /\ turn[t] = Unsent /\ \A s \in 1..(t - 1) : turn[s] # Unsent
         /\ turn' = [turn EXCEPT ![t] = [Unsent EXCEPT !.stage = "asked", !.conv = conv]]
         /\ messages' = Append(list, User(t))
    /\ streaming' = TRUE
    /\ error' = FALSE
    /\ pending' = <<>>
    /\ UNCHANGED <<conv, aborted, cleared, here, left>>

HandleSend == Ask(Shown)

\* retryLast: the last question again, without any answer so far.
RetryLast == WithoutAnswers(Shown) # <<>> /\ Ask(WithoutAnswers(Shown))

\* Variant: the page is idle as soon as the button is pressed.
StopAtOnce ==
    /\ streaming /\ Under # {}
    /\ aborted' = aborted \cup Under
    /\ messages' = Shown /\ streaming' = FALSE /\ pending' = <<>>
    /\ UNCHANGED <<error, conv, turn, cleared, here, left>>

\* stopGeneration.
Stop ==
    /\ streaming /\ Under # {}
    /\ aborted' = aborted \cup Under
    /\ messages' = Shown /\ streaming' = StillStreaming /\ pending' = <<>>
    /\ UNCHANGED <<error, conv, turn, cleared, here, left>>

\* startNewChat leaves a stream under way.
NewChat ==
    /\ here
    /\ messages' = <<>> /\ streaming' = StillStreaming /\ pending' = <<>>
    /\ error' = FALSE
    /\ conv' = None
    /\ cleared' = cleared \cup Under
    /\ UNCHANGED <<turn, aborted, here, left>>

\* A link in the list of conversations loads the page anew.
OpenConversation ==
    /\ here
    /\ \E t \in 1..Turns : turn[t].done /\ conv' = t
    /\ messages' = <<>> /\ streaming' = FALSE /\ error' = FALSE /\ pending' = <<>>
    /\ turn' = [t \in 1..Turns |-> IF Busy(t) THEN Over(t) ELSE turn[t]]
    /\ UNCHANGED <<aborted, cleared, here, left>>

\* The "Chat" link of the sidebar on the chat page changes the route only.
ChatLink ==
    /\ here
    /\ messages' = Shown /\ streaming' = StillStreaming /\ pending' = <<>>
    /\ conv' = None
    /\ UNCHANGED <<error, turn, aborted, cleared, here, left>>

\* Another link of the sidebar: the page goes, the stream stays.
Leave ==
    /\ here /\ here' = FALSE
    /\ left' = left \cup Under
    /\ messages' = <<>> /\ streaming' = FALSE /\ error' = FALSE /\ pending' = <<>> /\ conv' = None
    /\ UNCHANGED <<turn, aborted, cleared>>

\* Back by the link, or by the browser's history to a conversation.
Return ==
    /\ ~here /\ here' = TRUE
    /\ conv' \in {None} \cup {t \in 1..Turns : turn[t].done}
    /\ UNCHANGED <<messages, streaming, error, pending, turn, aborted, cleared, left>>

-----------------------------------------------------------------------------
(* The stream of turn t. *)

\* What a page that was left sets is lost.
Queue(t, updates) ==
    /\ pending' = IF t \in left THEN pending ELSE pending \o updates
    /\ UNCHANGED <<messages, streaming, aborted, cleared, left>>

SetError(t) == error' = (error \/ t \notin left)

Set(t, to) == turn' = [turn EXCEPT ![t] = to]

Respond(t) ==
    /\ turn[t].stage = "asked"
    /\ Set(t, [turn[t] EXCEPT !.stage = "reading"])
    /\ Queue(t, <<>>) /\ UNCHANGED <<error, conv, here>>

\* The request fails, times out or is answered without a reader: all answers
\* go, those of earlier turns too.
Refused(t) ==
    /\ turn[t].stage = "asked"
    /\ Set(t, Over(t))
    /\ SetError(t)
    /\ Queue(t, <<Update("drop", t), Update("idle", t)>>) /\ UNCHANGED <<conv, here>>

\* Variant: a canceled request returns early.
CancelSilently(t) ==
    /\ turn[t].stage = "asked" /\ t \in aborted
    /\ Set(t, Over(t))
    /\ Queue(t, <<>>) /\ UNCHANGED <<error, conv, here>>

Canceled(t) ==
    /\ turn[t].stage = "asked" /\ t \in aborted
    /\ Set(t, Over(t))
    /\ Queue(t, <<Update("idle", t)>>) /\ UNCHANGED <<error, conv, here>>

Reading(t) == turn[t].stage = "reading"

\* One update at a time waits for the next frame, with the text of the time
\* it was requested.
Scheduled(s) == IF s.created /\ s.frame = None THEN [s EXCEPT !.frame = s.got] ELSE s

Token(t) ==
    /\ Reading(t) /\ ~turn[t].done /\ turn[t].got < MaxTokens
    /\ LET s == [turn[t] EXCEPT !.got = @ + 1]
       IN  \/ s.created /\ Set(t, Scheduled(s)) /\ Queue(t, <<>>)
           \/ ~s.created /\ Set(t, [s EXCEPT !.created = TRUE]) /\ Queue(t, <<Update("create", t)>>)
    /\ UNCHANGED <<error, conv, here>>

\* The done event: citations, and the route of the new conversation, from
\* wherever the browser is by now.
Done(t) ==
    /\ Reading(t) /\ ~turn[t].done
    /\ Set(t, [Scheduled(turn[t]) EXCEPT !.done = TRUE])
    /\ IF turn[t].conv = None THEN conv' = t /\ here' = TRUE ELSE UNCHANGED <<conv, here>>
    /\ Queue(t, <<Update("cite", t)>>) /\ UNCHANGED error

AnimationFrame(t) ==
    /\ turn[t].frame # None
    /\ Set(t, [turn[t] EXCEPT !.frame = None])
    /\ Queue(t, <<[Update("content", t) EXCEPT !.n = turn[t].frame]>>) /\ UNCHANGED <<error, conv, here>>

\* The stream ends, breaks or is aborted; a frame that waits is canceled.
StreamEnds(t) ==
    /\ Reading(t)
    /\ Set(t, Over(t))
    /\ UNCHANGED error \/ (t \notin aborted /\ SetError(t))
    /\ Queue(t, <<Update("idle", t)>>) /\ UNCHANGED <<conv, here>>

Stream(t) == Respond(t) \/ Refused(t) \/ Canceled(t) \/ Token(t) \/ Done(t)
             \/ AnimationFrame(t) \/ StreamEnds(t)

PageNext ==
    \/ Render \/ HandleSend \/ RetryLast \/ Stop \/ NewChat \/ OpenConversation
    \/ ChatLink \/ Leave \/ Return
    \/ \E t \in 1..Turns : Stream(t)

PageSpec == PageInit /\ [][PageNext]_pageVars

\* A request is answered or times out, the generator of an answer ends, and
\* React renders what is queued.
PageFairness ==
    /\ WF_pageVars(Render)
    /\ \A t \in 1..Turns : /\ WF_pageVars(Respond(t) \/ Canceled(t))
                           /\ WF_pageVars(StreamEnds(t))

FairPageSpec == PageSpec /\ PageFairness

-----------------------------------------------------------------------------
(* Properties. *)

\* Every answer stands under the question it answers, shows a prefix of what
\* was received for it and carries citations of its own only, however
\* renders, frames, failures and retries interleave; an answer without a
\* question is one whose chat was cleared while it was awaited.
AnswersUnderQuestions ==
    \A i \in DOMAIN messages : messages[i].role = "assistant" =>
        LET m == messages[i] IN
        /\ IF i = 1 THEN m.turn \in cleared ELSE messages[i - 1] = User(m.turn)
        /\ m.text[1] = m.turn /\ m.text[2] \in 1..turn[m.turn].got
        /\ m.cites \in {None, m.turn}

\* Of the questions of one page, one at a time is under way, and the page
\* says so for as long: no second question is sent into a stream under way,
\* although the flag that guards sendMessage is that of the last render.  This
\* is a promise of each page alone: when the page is left, its stream is read
\* on, and the page the user comes back to sends another question beside it.
OneStream ==
    /\ \A s, t \in Under : s = t
    /\ Under # {} => here /\ streaming /\ StillStreaming

\* The page never stays busy: whatever becomes of the request or the stream,
\* and whatever the user presses, the next question can be sent.
StreamingEnds == streaming ~> ~streaming
=============================================================================
