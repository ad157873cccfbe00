------------------------------ MODULE MCWorker ------------------------------
(* Answers of the model in the runs of Worker. *)
EXTENDS Worker

\* One answer for each branch of the handler, and those that combine.
MCResponses ==
    {<<"plan">>, <<"talk">>, <<"done">>, <<"fails">>, <<"test">>,
     <<"edit", "test">>, <<"risky", "done">>, <<"stray", "stray">>,
     <<"opens", "look">>, <<"closes", "done">>, <<"opens", "done", "done">>}

\* A worker that keeps a list of todos and works in every turn.
DiligentResponses == {<<"opens", "look">>, <<"edit">>}
=============================================================================
