-------------------------- MODULE MCFastifyAdapter --------------------------
(* Applications without validateResponses, with it alone, registered twice,
   and before or after an onSend hook of their own. *)
EXTENDS FastifyAdapter

MCApps == {<<>>, <<"responses">>, <<"responses", "responses">>,
           <<"other", "responses">>, <<"responses", "other">>}
=============================================================================
