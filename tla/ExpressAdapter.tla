--------------------------- MODULE ExpressAdapter ---------------------------
(***************************************************************************)
(* One request through an Express application that mounts the adapters'    *)
(* validateRequests and validateResponses (oav-express4, oav-express5) in  *)
(* the order of its chain, then a route handler and an error handler.       *)
(*                                                                         *)
(* The application owns the handlers and both onError callbacks.  A        *)
(* callback is running from its call until it returns, throws or its       *)
(* promise settles, and everything else goes on meanwhile; a synchronous   *)
(* callback is one that settles at once.  A next(err) is an answer the     *)
(* error handler owes, now or later.                                       *)
(*                                                                         *)
(* Left out: an onError of validateResponses that calls next itself, and a *)
(* validator that throws inside res.send, where the handler's own send     *)
(* throws.                                                                 *)
(***************************************************************************)
EXTENDS Integers, Sequences

CONSTANTS
  Apps,      \* applications: a version of Express and the chain mounted
  MaxSends,  \* how often the route handler sends
  MaxOwed    \* how many next(err) may wait for the error handler

ASSUME AppsAssumption ==
  \A a \in Apps : /\ a.version \in {4, 5}
                 /\ a.chain \in Seq({"requests", "responses"})
                 /\ \E i \in DOMAIN a.chain : a.chain[i] = "requests"

VARIABLES
  app,      \* the application, fixed
  at,       \* the layer that runs next, Len(app.chain) + 1 for the route handler
  verdict,  \* of the request validator: "none", "valid", "invalid" or "throws"
  refusal,  \* onError of validateRequests: "none", "running" or "settled"
  waved,    \* it called next()
  owed,     \* next(err) calls the error handler has not answered yet
  sends,    \* sends of the route handler
  res       \* the response, below

vars == <<app, at, verdict, refusal, waved, owed, sends, res>>

(* A body as res.send gets it: text, an object or (to Express 5) a number,
   which Express serializes and sends again as text, and the deprecated
   forms of two arguments.  A number is a status to Express 4.  bad: the
   validator rejects it. *)
Bodies == [form : {"text", "object", "number", "two", "twoObject"}, bad : BOOLEAN]
Text(bad) == [form |-> "text", bad |-> bad]
NoWire == [by |-> "none", body |-> Text(FALSE)]
Wires == [by : {"none", "refusal", "handler", "report", "page"}, body : Bodies]

(* marked: WRAPPED is set; patched: send is replaced; report: onError of
   validateResponses; held: what it decides about; wire: what went out. *)
NewResponse ==
  [marked |-> FALSE, patched |-> FALSE, handled |-> FALSE, checks |-> 0,
   report |-> "none", held |-> NoWire, wire |-> NoWire]

-----------------------------------------------------------------------------
(* res.send, as validateResponses replaces it. *)

Serialized(body) ==
  IF body.form \in {"object", "twoObject"} \/ (body.form = "number" /\ app.version = 5)
  THEN Text(body.bad) ELSE body

(* Express sends nothing twice. *)
Wire(r, by, body) ==
  IF r.wire = NoWire THEN [r EXCEPT !.wire = [by |-> by, body |-> body]] ELSE r

WillResend4(body) == body.form = "object"
WillResend5(body) == body.form \in {"object", "number"}

(* Mutant: an object is checked as it comes, before its text. *)
WillResendNever(body) == FALSE

WillResend(body) == IF app.version = 4 THEN WillResend4(body) ELSE WillResend5(body)

Checked(r, body) ==
  r.patched /\ ~r.handled /\ body.form \notin {"two", "twoObject"} /\ ~WillResend(body)

(* Mutant: the answer to a failed check is checked in turn. *)
LookedAgain(r, body) == IF Checked(r, body) THEN [r EXCEPT !.checks = @ + 1] ELSE r

Looked(r, body) ==
  IF Checked(r, body) THEN [r EXCEPT !.handled = TRUE, !.checks = @ + 1] ELSE r

(* A response that fails its check waits for onError. *)
SendOnce(r, by, body) ==
  IF Checked(r, body) /\ body.bad
  THEN [Looked(r, body) EXCEPT !.report = "running", !.held = [by |-> by, body |-> body]]
  ELSE Wire(Looked(r, body), by, body)

Send(r, by, body) ==
  SendOnce(IF Serialized(body) = body THEN r ELSE Looked(r, body), by, Serialized(body))

-----------------------------------------------------------------------------
Init == /\ app \in Apps /\ at = 1 /\ verdict = "none" /\ refusal = "none" /\ waved = FALSE
        /\ owed = 0 /\ sends = 0 /\ res = NewResponse

Here(layer) == at \in DOMAIN app.chain /\ app.chain[at] = layer

(* next(err): the error handler owes an answer. *)
NextError == owed < MaxOwed /\ owed' = owed + 1

(* validateRequests. *)
ValidateRequest ==
  /\ Here("requests")
  /\ \/ /\ verdict' = "valid" /\ at' = at + 1
        /\ UNCHANGED <<refusal, owed>>
     \/ /\ verdict' = "invalid" /\ refusal' = "running" /\ at' = 0
        /\ UNCHANGED owed
     \/ /\ verdict' = "throws" /\ NextError /\ at' = 0
        /\ UNCHANGED refusal
  /\ UNCHANGED <<app, waved, sends, res>>

AfterRequests == 1 + CHOOSE i \in DOMAIN app.chain : app.chain[i] = "requests"

RefusalSends ==
  /\ refusal = "running"
  /\ \E bad \in BOOLEAN : res' = Send(res, "refusal", [form |-> "object", bad |-> bad])
  /\ UNCHANGED <<app, at, verdict, refusal, waved, owed, sends>>

(* A callback that only reports calls next itself. *)
RefusalWaves ==
  /\ refusal = "running" /\ ~waved
  /\ waved' = TRUE /\ at' = AfterRequests
  /\ UNCHANGED <<app, verdict, refusal, owed, sends, res>>

(* Mutant: the reason of a rejection is forwarded as it is. *)
ForwardableAsIs(reason) == reason

(* A falsy reason would make Express go on with the next layer; the adapter
   replaces it, and Express 5 does so itself for a promise a layer returns. *)
Forwardable(reason) == "error"

Reject(reason) ==
  \/ Forwardable(reason) = "error" /\ NextError /\ UNCHANGED at
  \/ Forwardable(reason) # "error" /\ at' = AfterRequests /\ UNCHANGED owed

RefusalSettles ==
  /\ refusal = "running" /\ refusal' = "settled"
  /\ (UNCHANGED <<at, owed>> \/ \E reason \in {"error", "falsy"} : Reject(reason))
  /\ UNCHANGED <<app, verdict, waved, sends, res>>

(* validateResponses; the extractor may throw, after the mark is set. *)
MountResponses ==
  /\ Here("responses")
  /\ \/ /\ ~res.marked
        /\ res' = [res EXCEPT !.marked = TRUE, !.patched = TRUE]
        /\ at' = at + 1
        /\ UNCHANGED owed
     \/ /\ res' = [res EXCEPT !.marked = TRUE]
        /\ NextError /\ at' = 0
  /\ UNCHANGED <<app, verdict, refusal, waved, sends>>

(* onError of validateResponses. *)
ReportSends ==
  /\ res.report = "running"
  /\ \E bad \in BOOLEAN : res' = Send(res, "report", [form |-> "object", bad |-> bad])
  /\ UNCHANGED <<app, at, verdict, refusal, waved, owed, sends>>

(* Mutant: whoever answers owns the response, so nothing more is sent. *)
SendIfUnsentNever(r) == r

SendIfUnsent(r) == Wire(r, r.held.by, r.held.body)

(* handleFailure, once onError is through: the body it held goes out unless
   something has, or the error handler is told. *)
ReportSettles ==
  /\ res.report = "running"
  /\ \/ res' = [SendIfUnsent(res) EXCEPT !.report = "settled"] /\ UNCHANGED owed
     \/ res' = [res EXCEPT !.report = "settled"] /\ NextError
  /\ UNCHANGED <<app, at, verdict, refusal, waved, sends>>

(* The route handler sends what it likes, as often as it likes, or fails. *)
HandlerSends ==
  /\ at = Len(app.chain) + 1 /\ sends < MaxSends
  /\ sends' = sends + 1
  /\ \E body \in Bodies : res' = Send(res, "handler", body)
  /\ UNCHANGED <<app, at, verdict, refusal, waved, owed>>

HandlerFails ==
  /\ at = Len(app.chain) + 1
  /\ NextError
  /\ at' = 0
  /\ UNCHANGED <<app, verdict, refusal, waved, sends, res>>

ErrorHandler ==
  /\ owed > 0 /\ owed' = owed - 1
  /\ \E bad \in BOOLEAN : res' = Send(res, "page", [form |-> "object", bad |-> bad])
  /\ UNCHANGED <<app, at, verdict, refusal, waved, sends>>

Next ==
  \/ ValidateRequest \/ RefusalSends \/ RefusalWaves \/ RefusalSettles
  \/ MountResponses \/ ReportSends \/ ReportSettles
  \/ HandlerSends \/ HandlerFails \/ ErrorHandler

(* Callbacks settle and the error handler answers; the route handler owes
   nothing. *)
Fairness == WF_vars(ReportSettles) /\ WF_vars(ErrorHandler)

Spec == Init /\ [][Next]_vars /\ Fairness

-----------------------------------------------------------------------------
(* A refused request reaches the route handler only if onError called next
   itself: not by a rejection with a falsy reason, which Express takes for
   "go on", nor by an onError that returns without an answer. *)
RefusedUnrouted ==
  at = Len(app.chain) + 1 => verdict = "valid" \/ waved

(* A response is checked at most once, and the answer to a failed check is
   never checked in turn, though it goes through the same send. *)
CheckedOnce ==
  /\ res.checks <= 1
  /\ res.report # "none" => res.held.by # "none" /\ res.checks = 1

(* The first answer that the wrapped send serializes or takes whole is the
   one that is checked: a bad body of the handler is on the wire only after
   onError was told of it or of an earlier one.  (The two-argument forms of
   text pass, as documented.) *)
BadIsReported ==
  /\ res.wire.by = "handler" /\ res.wire.body.bad /\ res.wire.body.form # "two"
  /\ res.patched
  => res.report # "none"

(* A response held for onError is never lost: it goes out, or another. *)
HeldIsAnswered == res.report = "running" ~> res.wire # NoWire
=============================================================================
