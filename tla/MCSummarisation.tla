--------------------------- MODULE MCSummarisation ---------------------------
(* Summarisation for TLC: two voices, a name and a label the LLM may use.  *)
EXTENDS Summarisation

CONSTANTS l1, l2, a, b

SomeLengths == {-1, 1, 2}
=============================================================================
