-------------------------- MODULE MCExpressAdapter --------------------------
(* Both versions of Express, with the middlewares in the documented order,
   in the other order, and with validateResponses mounted twice. *)
EXTENDS ExpressAdapter

MCApps ==
  [version : {4, 5},
   chain   : {<<"requests", "responses">>, <<"responses", "requests">>,
              <<"requests", "responses", "responses">>}]
=============================================================================
