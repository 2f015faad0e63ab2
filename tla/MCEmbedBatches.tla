--------------------------- MODULE MCEmbedBatches ---------------------------
(***************************************************************************)
(* An instance of EmbedBatches for TLC: short and long lines, lines in the *)
(* middle of a sentence and lines of two sentences.                        *)
(***************************************************************************)
EXTENDS EmbedBatches

CONSTANTS h1, h2, none

MCHeadings == {h1, h2}
MCLines == {[cuts |-> <<3>>, ends |-> TRUE], [cuts |-> <<4>>, ends |-> FALSE],
            [cuts |-> <<9>>, ends |-> TRUE], [cuts |-> <<2, 5>>, ends |-> FALSE]}
=============================================================================
