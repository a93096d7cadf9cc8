--------------------------- MODULE MCProcessEngine ---------------------------
(* Model-checking instance of ProcessEngine, with a record of what strayed.   *)
EXTENDS ProcessEngineHistory

CONSTANTS plan, build, review

\* An LLM turn, an automatic turn and a human review that may send it back.
SampleTurns == {plan, build, review}
SampleKind == [t \in SampleTurns |->
    IF t = plan THEN "llm" ELSE IF t = build THEN "automatic" ELSE "human"]
SampleEdges == {<<plan, build>>, <<build, review>>, <<review, plan>>, <<review, Done>>}
\* A process-level action that leaves a worker turn in its middle.
Replan == {<<build, plan>>}
=============================================================================
