--------------------------- MODULE FastifyAdapter ---------------------------
(***************************************************************************)
(* One request through a Fastify application that registers the adapter's  *)
(* validateRequests (preValidation) and validateResponses (onSend), from   *)
(* the validation to the response.                                         *)
(*                                                                         *)
(* Fastify is external.  reply.send starts a run of the onSend hooks and   *)
(* returns; the response is written, and reply.sent true, when the last of *)
(* them has answered.  A hook that awaits nothing answers before the code  *)
(* that called send goes on.  A send after the response was written is     *)
(* dropped, and an error becomes a reply of the error handler, which goes  *)
(* through the hooks like any other.                                       *)
(*                                                                         *)
(* The application owns both onError callbacks, the handlers and its other *)
(* onSend hooks, each of which takes its time.                             *)
(***************************************************************************)
EXTENDS Integers, Sequences

CONSTANT Apps  \* the onSend hooks an application registers, in order

ASSUME AppsAssumption == Apps \subseteq Seq({"responses", "other"})

VARIABLES
  hooks,      \* the application's onSend hooks, fixed
  routed,     \* Fastify matched a route for the request, fixed
  at,         \* "preValidation", "onError", "handler", "answered" or "over"
  verdict,    \* of the request validator: "none", "valid", "invalid", "throws"
  refused,    \* REQUEST_REFUSED
  validated,  \* VALIDATED
  replies,    \* the calls of reply.send, in order
  reported,   \* whose replies the response hook's onError was told of
  wire        \* the reply that was written

vars == <<hooks, routed, at, verdict, refused, validated, replies, reported, wire>>

Senders == {"refusal", "handler", "page"}

(* bad: validateResponse rejects the reply; watched: options.statuses asks
   for its status; next: the onSend hook it has come to; now: "ready" to
   enter it, "held" by another hook, "report" while onError of
   validateResponses runs, or "done". *)
Reply == [by : Senders, bad : BOOLEAN, watched : BOOLEAN, next : Nat \ {0},
          now : {"ready", "held", "report", "done"}]

NoReply == [by |-> "none", bad |-> FALSE, watched |-> FALSE, next |-> 1, now |-> "done"]

TypeOK ==
  /\ hooks \in Apps /\ routed \in BOOLEAN
  /\ at \in {"preValidation", "onError", "handler", "answered", "over"}
  /\ verdict \in {"none", "valid", "invalid", "throws"}
  /\ refused \in BOOLEAN /\ validated \in BOOLEAN
  /\ replies \in Seq(Reply)
  /\ reported \subseteq Senders
  /\ wire \in Reply \union {NoReply}

Init ==
  /\ hooks \in Apps /\ routed \in BOOLEAN
  /\ at = "preValidation" /\ verdict = "none"
  /\ refused = FALSE /\ validated = FALSE
  /\ replies = <<>> /\ reported = {} /\ wire = NoReply

-----------------------------------------------------------------------------
(* Fastify. *)

ReplySent == wire # NoReply

ReplySend(by, all) ==
  IF ReplySent THEN {all}
  ELSE {Append(all, r) :
          r \in [by : {by}, bad : BOOLEAN, watched : BOOLEAN, next : {1}, now : {"ready"}]}

(* A reply that awaits nothing goes before everything else. *)
Ready(i) == replies[i].now = "ready"
Settled == \A i \in DOMAIN replies : ~Ready(i)

Advanced(all, i) == [all EXCEPT ![i].next = @ + 1, ![i].now = "ready"]

(* The last hook has answered: the response is written, once. *)
ReplyWrites(i) ==
  /\ Ready(i) /\ replies[i].next > Len(hooks)
  /\ replies' = [replies EXCEPT ![i].now = "done"]
  /\ wire' = IF ReplySent THEN wire ELSE replies[i]
  /\ UNCHANGED <<hooks, routed, at, verdict, refused, validated, reported>>

OtherHook(i) ==
  /\ Ready(i) /\ replies[i].next <= Len(hooks) /\ hooks[replies[i].next] = "other"
  /\ replies' = [replies EXCEPT ![i].now = "held"]
  /\ UNCHANGED <<hooks, routed, at, verdict, refused, validated, reported, wire>>

OtherHookAnswers(i) ==
  /\ Settled /\ replies[i].now = "held"
  /\ replies' = Advanced(replies, i)
  /\ UNCHANGED <<hooks, routed, at, verdict, refused, validated, reported, wire>>

-----------------------------------------------------------------------------
(* validateRequests. *)

(* Mutant: the mark goes up only when onError is through. *)
MarkedLate == refused

Marked == TRUE

(* The extractor or the validator may throw. *)
ValidateRequest ==
  /\ at = "preValidation"
  /\ \/ /\ verdict' = "valid" /\ at' = "handler"
        /\ UNCHANGED <<refused, replies>>
     \/ /\ verdict' = "invalid" /\ at' = "onError"
        /\ refused' = Marked
        /\ UNCHANGED replies
     \/ /\ verdict' = "throws" /\ at' = "over"
        /\ replies' \in ReplySend("page", replies)
        /\ UNCHANGED refused
  /\ UNCHANGED <<hooks, routed, validated, reported, wire>>

RefusalSent == \E i \in DOMAIN replies : replies[i].by = "refusal"

OnErrorSends ==
  /\ Settled /\ at = "onError" /\ ~RefusalSent
  /\ replies' \in ReplySend("refusal", replies)
  /\ UNCHANGED <<hooks, routed, at, verdict, refused, validated, reported, wire>>

(* Mutant: the mark outlives a refusal that only reports. *)
UnmarkNever(mark) == mark

(* The mark comes down if nothing was sent. *)
Unmark(mark) == ReplySent /\ mark

(* Fastify goes on with the handler unless the reply was sent. *)
OnErrorReturns ==
  /\ Settled /\ at = "onError"
  /\ refused' = Unmark(refused)
  /\ at' = IF ReplySent THEN "over" ELSE "handler"
  /\ UNCHANGED <<hooks, routed, verdict, validated, replies, reported, wire>>

(* The error handler answers, with the mark still up. *)
OnErrorThrows ==
  /\ Settled /\ at = "onError" /\ at' = "over"
  /\ replies' \in ReplySend("page", replies)
  /\ UNCHANGED <<hooks, routed, verdict, refused, validated, reported, wire>>

-----------------------------------------------------------------------------
(* The route handler, or the handler for requests no route matches. *)

HandlerSends ==
  /\ Settled /\ at = "handler" /\ at' = "answered"
  /\ replies' \in ReplySend("handler", replies)
  /\ UNCHANGED <<hooks, routed, verdict, refused, validated, reported, wire>>

HandlerFails ==
  /\ Settled /\ at \in {"handler", "answered"} /\ at' = "over"
  /\ replies' \in ReplySend("page", replies)
  /\ UNCHANGED <<hooks, routed, verdict, refused, validated, reported, wire>>

-----------------------------------------------------------------------------
(* validateResponses. *)

(* Mutant: a reply of the not-found handler is checked. *)
RouteWasMatchedAlways == TRUE

RouteWasMatched == routed

InScope(r) == ~refused /\ RouteWasMatched /\ r.watched

(* Mutant: the reply to a failed check is checked in turn. *)
FirstReplyAlways == TRUE

FirstReply == ~validated

(* Its own extractor may throw as well. *)
ValidateResponse(i) ==
  /\ Ready(i) /\ replies[i].next <= Len(hooks) /\ hooks[replies[i].next] = "responses"
  /\ validated' = TRUE
  /\ \/ /\ ~(FirstReply /\ InScope(replies[i]) /\ replies[i].bad)
        /\ replies' = Advanced(replies, i)
        /\ UNCHANGED reported
     \/ /\ FirstReply /\ InScope(replies[i]) /\ replies[i].bad
        /\ replies' = [replies EXCEPT ![i].now = "report"]
        /\ reported' = reported \union {replies[i].by}
     \/ /\ FirstReply /\ InScope(replies[i])
        /\ replies' \in ReplySend("page", [replies EXCEPT ![i].now = "done"])
        /\ UNCHANGED reported
  /\ UNCHANGED <<hooks, routed, at, verdict, refused, wire>>

(* Mutant: nobody sends what onError was told of. *)
ReportedDropped(all, i) == [all EXCEPT ![i].now = "done"]

ReportedGoesOn(all, i) == Advanced(all, i)

ReportReturns(i) ==
  /\ Settled /\ replies[i].now = "report"
  /\ replies' = ReportedGoesOn(replies, i)
  /\ UNCHANGED <<hooks, routed, at, verdict, refused, validated, reported, wire>>

ReportThrows(i) ==
  /\ Settled /\ replies[i].now = "report"
  /\ replies' \in ReplySend("page", [replies EXCEPT ![i].now = "done"])
  /\ UNCHANGED <<hooks, routed, at, verdict, refused, validated, reported, wire>>

-----------------------------------------------------------------------------
OnSend(i) == ReplyWrites(i) \/ OtherHook(i) \/ ValidateResponse(i)

Callback(i) == OtherHookAnswers(i) \/ ReportReturns(i) \/ ReportThrows(i)

Next ==
  \/ ValidateRequest \/ OnErrorSends \/ OnErrorReturns \/ OnErrorThrows
  \/ HandlerSends \/ HandlerFails
  \/ \E i \in DOMAIN replies : OnSend(i) \/ Callback(i)

(* Hooks and callbacks settle; nobody has to send anything. *)
Fairness == WF_vars(\E i \in DOMAIN replies : OnSend(i) \/ Callback(i))

Spec == Init /\ [][Next]_vars /\ Fairness

-----------------------------------------------------------------------------
Prompt == \A i \in DOMAIN hooks : hooks[i] = "responses"

(* A refusal that onError sends is the response, whatever its status and
   body are to the document, and the route handler does not run: the window
   of the mark covers the response hook's look at it.  (As long as no other
   onSend hook awaits anything.) *)
RefusalStands ==
  Prompt /\ RefusalSent => /\ at \notin {"handler", "answered"}
                           /\ ReplySent => wire.by = "refusal"

(* The documents promise it of every application: "a request
   validateRequests refused keeps its 400". *)
RefusedKeepsItsReply ==
  RefusalSent /\ ReplySent => wire.by # "handler"

(* What a route handler answers is checked, also after an onError that only
   reported: a bad reply is never written without a report.  (A handler that
   fails after it has sent answers twice, and so does a refusal whose
   request the handler gets to see.) *)
HandlerOutputChecked ==
  /\ wire.by = "handler" /\ wire.bad /\ wire.watched /\ routed
  /\ "responses" \in {hooks[i] : i \in DOMAIN hooks}
  /\ ~RefusalSent /\ \A i \in DOMAIN replies : replies[i].by # "page"
  => "handler" \in reported

(* The response hook reports at most one reply of a request, none of a
   request that matched no route, and none while the mark of the refusal is
   up: neither the refusal nor the error page of an onError that throws. *)
ReportScope ==
  /\ \A p, q \in reported : p = q
  /\ reported # {} => routed /\ ~refused
  /\ Prompt => "refusal" \notin reported

(* What is sent is answered: a failed check ends in the reply it held or in
   an error page, and the page does not fail in turn for ever. *)
SentIsAnswered == replies # <<>> ~> ReplySent
=============================================================================
