-------------------------- MODULE MCWorkerRequests --------------------------
(* The turns that the run checks: one call each, a question, a reviewed      *)
(* write or a plain write; an LLM turn asks, an automatic turn repeats.      *)
EXTENDS WorkerRequests

OneCall == {[calls |-> <<"question">>, automatic |-> FALSE],
            [calls |-> <<"ticket">>, automatic |-> TRUE],
            [calls |-> <<"tool">>, automatic |-> TRUE]}
=============================================================================
