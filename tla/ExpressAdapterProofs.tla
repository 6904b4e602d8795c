------------------------ MODULE ExpressAdapterProofs ------------------------
(***************************************************************************)
(* The safety of ExpressAdapter for every chain that mounts                *)
(* validateRequests, however often the handler sends and fails.            *)
(***************************************************************************)
EXTENDS ExpressAdapter, TLAPS

-----------------------------------------------------------------------------
(* Layers behind a refusal run only when it waved the request through. *)
Behind ==
  /\ app \in Apps
  /\ at \in Nat
  /\ \A i \in DOMAIN app.chain : app.chain[i] = "requests" /\ i < at => verdict = "valid" \/ waved

LEMMA BehindInit == Init => Behind
  BY AppsAssumption DEF Init, Behind

LEMMA BehindNext == Behind /\ [Next]_vars => Behind'
<1>1. SUFFICES ASSUME Behind, [Next]_vars PROVE Behind'
  OBVIOUS
<1>2. app.chain \in Seq({"requests", "responses"})
  BY <1>1, AppsAssumption DEF Behind
<1>3. CASE ValidateRequest
  BY <1>1, <1>2, <1>3 DEF ValidateRequest, Behind, Here, NextError
<1>4. CASE RefusalWaves
  <2>1. \E i \in DOMAIN app.chain : app.chain[i] = "requests"
    BY <1>1, AppsAssumption DEF Behind
  <2>2. AfterRequests \in Nat
    BY <1>2, <2>1 DEF AfterRequests
  <2>3. QED
    BY <1>1, <1>4, <2>2 DEF RefusalWaves, Behind
<1>5. CASE RefusalSettles
  BY <1>1, <1>5 DEF RefusalSettles, Reject, Forwardable, NextError, Behind
<1>6. CASE MountResponses
  BY <1>1, <1>2, <1>6 DEF MountResponses, Behind, Here, NextError
<1>7. CASE HandlerFails
  BY <1>1, <1>2, <1>7 DEF HandlerFails, NextError, Behind
<1>8. CASE UNCHANGED vars
  BY <1>1, <1>8 DEF vars, Behind
<1>9. CASE RefusalSends \/ ReportSends \/ ReportSettles \/ HandlerSends \/ ErrorHandler
  BY <1>1, <1>9 DEF RefusalSends, ReportSends, ReportSettles, HandlerSends, ErrorHandler, Behind
<1>10. QED
  BY <1>1, <1>3, <1>4, <1>5, <1>6, <1>7, <1>8, <1>9 DEF Next

(* A refused request never reaches the route handler unless onError called
   next itself, for every chain of layers (middleware.ts,
   forward-rejection.ts). *)
THEOREM RefusedStaysOut == Spec => []RefusedUnrouted
<1>1. Behind => RefusedUnrouted
  <2>1. SUFFICES ASSUME Behind, at = Len(app.chain) + 1 PROVE verdict = "valid" \/ waved
    BY DEF RefusedUnrouted
  <2>2. PICK i \in DOMAIN app.chain : app.chain[i] = "requests"
    BY <2>1, AppsAssumption DEF Behind
  <2>3. i < at
    BY <2>1, <2>2, AppsAssumption DEF Behind
  <2>4. QED
    BY <2>1, <2>2, <2>3 DEF Behind
<1>2. QED
  BY <1>1, BehindInit, BehindNext, PTL DEF Spec

-----------------------------------------------------------------------------
(* Nothing was checked while the flag is down, and nothing is reported that
   was not checked. *)
Answered(r) ==
  /\ DOMAIN r = {"marked", "patched", "handled", "checks", "report", "held", "wire"}
  /\ r.handled \in BOOLEAN /\ r.patched \in BOOLEAN /\ r.checks \in {0, 1}
  /\ ~r.handled => r.checks = 0
  /\ r.report # "none" => r.held.by # "none" /\ r.checks = 1
  /\ r.checks = 0 => r.report = "none"

LEMMA WireAnswered ==
  ASSUME NEW r, NEW by, NEW body, Answered(r) PROVE Answered(Wire(r, by, body))
  BY DEF Answered, Wire

LEMMA LookedAnswered ==
  ASSUME NEW r, NEW body, Answered(r)
  PROVE  Answered(Looked(r, body)) /\ (Checked(r, body) => Looked(r, body).checks = 1)
<1>1. CASE Checked(r, body)
  <2>1. r.handled = FALSE
    BY <1>1 DEF Checked, Answered
  <2>2. r.checks = 0 /\ r.report = "none"
    BY <2>1 DEF Answered
  <2>3. Looked(r, body) = [r EXCEPT !.handled = TRUE, !.checks = r.checks + 1]
    BY <1>1 DEF Looked
  <2>4. QED
    BY <2>2, <2>3 DEF Answered
<1>2. CASE ~Checked(r, body)
  BY <1>2 DEF Looked
<1>3. QED
  BY <1>1, <1>2

LEMMA SendAnswered ==
  ASSUME NEW r, NEW by, NEW body, Answered(r), by # "none" PROVE Answered(Send(r, by, body))
<1>1. ASSUME NEW q, NEW text, Answered(q) PROVE Answered(SendOnce(q, by, text))
  <2>1. Answered(Looked(q, text))
    BY <1>1, LookedAnswered
  <2>2. CASE Checked(q, text) /\ text.bad
    <3>1. Looked(q, text).checks = 1
      BY <1>1, <2>2, LookedAnswered
    <3>2. QED
      BY <2>1, <2>2, <3>1 DEF SendOnce, Answered
  <2>3. CASE ~(Checked(q, text) /\ text.bad)
    BY <2>1, <2>3, WireAnswered DEF SendOnce
  <2>4. QED
    BY <2>2, <2>3
<1>2. Answered(IF Serialized(body) = body THEN r ELSE Looked(r, body))
  BY LookedAnswered
<1>3. QED
  BY <1>1, <1>2 DEF Send

LEMMA AnsweredNext == Answered(res) /\ [Next]_vars => Answered(res)'
<1>1. SUFFICES ASSUME Answered(res), [Next]_vars PROVE Answered(res')
  OBVIOUS
<1>2. CASE RefusalSends
  BY <1>1, <1>2, SendAnswered DEF RefusalSends
<1>3. CASE ReportSends
  BY <1>1, <1>3, SendAnswered DEF ReportSends
<1>4. CASE HandlerSends
  BY <1>1, <1>4, SendAnswered DEF HandlerSends
<1>5. CASE ErrorHandler
  BY <1>1, <1>5, SendAnswered DEF ErrorHandler
<1>6. CASE MountResponses
  BY <1>1, <1>6 DEF MountResponses, Answered
<1>7. CASE ReportSettles
  <2>1. Answered(SendIfUnsent(res))
    BY <1>1, WireAnswered DEF SendIfUnsent
  <2>2. res.report = "running"
    BY <1>7 DEF ReportSettles
  <2>3. SendIfUnsent(res).report = "running"
    BY <1>1, <2>2 DEF SendIfUnsent, Wire, Answered
  <2>4. ASSUME NEW r, Answered(r), r.report = "running" PROVE Answered([r EXCEPT !.report = "settled"])
    BY <2>4 DEF Answered
  <2>5. QED
    BY <1>1, <1>7, <2>1, <2>2, <2>3, <2>4 DEF ReportSettles
<1>8. CASE ValidateRequest \/ RefusalWaves \/ RefusalSettles \/ HandlerFails \/ UNCHANGED vars
  BY <1>1, <1>8 DEF ValidateRequest, RefusalWaves, RefusalSettles, HandlerFails, vars
<1>9. QED
  BY <1>1, <1>2, <1>3, <1>4, <1>5, <1>6, <1>7, <1>8 DEF Next

(* A response is checked at most once and the answer to a failed check never
   is, for every body and every order of answers (validate-responses.ts). *)
THEOREM CheckedOnceAlways == Spec => []CheckedOnce
<1>1. Init => Answered(res)
  BY DEF Init, NewResponse, Answered
<1>2. Answered(res) => CheckedOnce
  BY DEF Answered, CheckedOnce
<1>3. QED
  BY <1>1, <1>2, AnsweredNext, PTL DEF Spec

-----------------------------------------------------------------------------
(* The handler is reached once: after its first send no layer is left that
   could still replace send, and no refusal that could go on from one. *)
Passing ==
  /\ app \in Apps /\ at \in Nat /\ sends \in Nat
  /\ refusal = "running" /\ ~waved => at = 0
  /\ sends # 0 => at \in {0, Len(app.chain) + 1} /\ (refusal = "running" => waved)
  /\ res.wire.by = "handler" \/ res.held.by = "handler" => sends # 0

LEMMA SendBy ==
  ASSUME NEW r, NEW by, NEW body, Answered(r)
  PROVE  /\ Send(r, by, body).wire.by \in {r.wire.by, by}
         /\ Send(r, by, body).held.by \in {r.held.by, by}
<1>1. ASSUME NEW q, NEW text, Answered(q)
      PROVE  /\ Looked(q, text).wire = q.wire /\ Looked(q, text).held = q.held
             /\ Answered(Looked(q, text))
  BY <1>1, LookedAnswered DEF Looked, Answered
<1>2. ASSUME NEW q, NEW text, Answered(q)
      PROVE  Wire(q, by, text).wire.by \in {q.wire.by, by} /\ Wire(q, by, text).held = q.held
  BY <1>2 DEF Wire, Answered
<1>3. ASSUME NEW q, NEW text, Answered(q)
      PROVE  /\ SendOnce(q, by, text).wire.by \in {q.wire.by, by}
             /\ SendOnce(q, by, text).held.by \in {q.held.by, by}
  <2>1. CASE Checked(q, text) /\ text.bad
    BY <1>1, <1>3, <2>1 DEF SendOnce, Answered
  <2>2. CASE ~(Checked(q, text) /\ text.bad)
    BY <1>1, <1>2, <1>3, <2>2 DEF SendOnce
  <2>3. QED
    BY <2>1, <2>2
<1>4. QED
  BY <1>1, <1>3 DEF Send

LEMMA PassingNext == Passing /\ Answered(res) /\ [Next]_vars => Passing'
<1>1. SUFFICES ASSUME Passing, Answered(res), [Next]_vars PROVE Passing'
  OBVIOUS
<1>2. app.chain \in Seq({"requests", "responses"})
  BY <1>1, AppsAssumption DEF Passing
<1>3. ASSUME ValidateRequest PROVE Passing'
  <2>1. at \in DOMAIN app.chain /\ at # 0 /\ at # Len(app.chain) + 1
    BY <1>2, <1>3 DEF ValidateRequest, Here
  <2>2. sends = 0
    BY <1>1, <2>1 DEF Passing
  <2>3. QED
    BY <1>1, <1>3, <2>1, <2>2 DEF ValidateRequest, Passing
<1>4. ASSUME MountResponses PROVE Passing'
  <2>1. at \in DOMAIN app.chain /\ at # 0 /\ at # Len(app.chain) + 1
    BY <1>2, <1>4 DEF MountResponses, Here
  <2>2. sends = 0 /\ (refusal = "running" => waved)
    BY <1>1, <2>1 DEF Passing
  <2>3. res'.wire = res.wire /\ res'.held = res.held
    BY <1>1, <1>4 DEF MountResponses, Answered
  <2>4. UNCHANGED <<app, sends, refusal, waved>> /\ at' \in {0, at + 1}
    BY <1>4 DEF MountResponses
  <2>5. QED
    BY <1>1, <2>2, <2>3, <2>4 DEF Passing
<1>5. ASSUME RefusalWaves PROVE Passing'
  <2>1. \E i \in DOMAIN app.chain : app.chain[i] = "requests"
    BY <1>1, AppsAssumption DEF Passing
  <2>2. AfterRequests \in Nat
    BY <1>2, <2>1 DEF AfterRequests
  <2>3. QED
    BY <1>1, <1>5, <2>2 DEF RefusalWaves, Passing
<1>6. ASSUME RefusalSettles PROVE Passing'
  BY <1>1, <1>6 DEF RefusalSettles, Reject, Forwardable, Passing
<1>7. ASSUME HandlerFails PROVE Passing'
  BY <1>1, <1>7 DEF HandlerFails, Passing
<1>8. ASSUME HandlerSends PROVE Passing'
  <2>1. /\ at = Len(app.chain) + 1 /\ at # 0 /\ sends' = sends + 1 /\ sends' # 0
        /\ UNCHANGED <<app, at, refusal, waved>>
    BY <1>1, <1>2, <1>8 DEF HandlerSends, Passing
  <2>2. QED
    BY <1>1, <2>1 DEF Passing
<1>9. ASSUME NEW by, by # "handler", NEW body, res' = Send(res, by, body),
             UNCHANGED <<app, at, sends, refusal, waved>>
      PROVE  Passing'
  BY <1>1, <1>9, SendBy DEF Passing
<1>10. ASSUME RefusalSends \/ ReportSends \/ ErrorHandler PROVE Passing'
  BY <1>9, <1>10 DEF RefusalSends, ReportSends, ErrorHandler
<1>11. ASSUME ReportSettles PROVE Passing'
  <2>1. Answered(SendIfUnsent(res))
    BY <1>1, WireAnswered DEF SendIfUnsent
  <2>2. /\ SendIfUnsent(res).wire.by \in {res.wire.by, res.held.by}
        /\ SendIfUnsent(res).held = res.held
    BY <1>1 DEF SendIfUnsent, Wire, Answered
  <2>3. res'.wire.by \in {res.wire.by, res.held.by} /\ res'.held = res.held
    BY <1>1, <1>11, <2>1, <2>2 DEF ReportSettles, Answered
  <2>4. UNCHANGED <<app, at, sends, refusal, waved>>
    BY <1>11 DEF ReportSettles
  <2>5. QED
    BY <1>1, <2>3, <2>4 DEF Passing
<1>12. CASE UNCHANGED vars
  BY <1>1, <1>12 DEF vars, Passing
<1>13. QED
  BY <1>1, <1>3, <1>4, <1>5, <1>6, <1>7, <1>8, <1>10, <1>11, <1>12 DEF Next

(* Once the flag is up, something is on the wire or with onError. *)
Unreported(r) ==
  r.wire.by = "handler" /\ r.wire.body.bad /\ r.wire.body.form # "two" /\ r.patched /\ r.report = "none"

Told(r) ==
  /\ r.handled => r.report # "none" \/ r.wire # NoWire
  /\ ~Unreported(r)

(* What goes through the wrapped send is checked, or has another's check
   before it. *)
LEMMA OnceTold ==
  ASSUME NEW r, Answered(r), Told(r), NEW by, by # "none", NEW body,
         body.form \in {"text", "two"} \/ (body.form = "number" /\ app.version = 4)
  PROVE  Told(SendOnce(r, by, body))
<1>1. CASE Checked(r, body) /\ body.bad
  BY <1>1 DEF SendOnce, Looked, Told, Unreported, Answered
<1>2. CASE Checked(r, body) /\ ~body.bad
  BY <1>2 DEF SendOnce, Looked, Wire, Told, Unreported, Answered, NoWire
<1>3. CASE ~Checked(r, body)
  <2>1. SendOnce(r, by, body) = Wire(r, by, body)
    BY <1>3 DEF SendOnce, Looked
  <2>2. r.patched /\ body.form # "two" => r.handled
    BY <1>3 DEF Checked, WillResend, WillResend4, WillResend5
  <2>3. CASE r.wire # NoWire
    BY <2>1, <2>3 DEF Wire
  <2>4. CASE r.wire = NoWire
    BY <2>1, <2>2, <2>4 DEF Wire, Told, Unreported, Answered, NoWire
  <2>5. QED
    BY <2>3, <2>4
<1>4. QED
  BY <1>1, <1>2, <1>3

LEMMA SendTold ==
  ASSUME app.version \in {4, 5}, NEW r, Answered(r), Told(r), NEW by, by # "none", NEW body \in Bodies
  PROVE  Told(Send(r, by, body))
<1>1. \/ Serialized(body).form \in {"text", "two"}
      \/ Serialized(body).form = "number" /\ app.version = 4
  BY DEF Serialized, Bodies, Text
<1>2. Serialized(body) # body => Looked(r, body) = r
  BY DEF Serialized, Looked, Checked, WillResend, WillResend4, WillResend5, Bodies
<1>3. QED
  BY <1>1, <1>2, OnceTold DEF Send

LEMMA ToldNext == Passing /\ Answered(res) /\ Told(res) /\ [Next]_vars => Told(res)'
<1>1. SUFFICES ASSUME Passing, Answered(res), Told(res), [Next]_vars PROVE Told(res')
  BY DEF Told, Unreported
<1>2. app.chain \in Seq({"requests", "responses"}) /\ app.version \in {4, 5}
  BY <1>1, AppsAssumption DEF Passing
<1>3. ASSUME NEW bad \in BOOLEAN PROVE [form |-> "object", bad |-> bad] \in Bodies
  BY DEF Bodies
<1>4. ASSUME RefusalSends \/ ReportSends \/ ErrorHandler \/ HandlerSends PROVE Told(res')
  <2> DEFINE senders == {"refusal", "report", "page", "handler"}
  <2>1. PICK by \in senders, body \in Bodies : res' = Send(res, by, body)
    BY <1>3, <1>4 DEF RefusalSends, ReportSends, ErrorHandler, HandlerSends
  <2>2. QED
    BY <1>1, <1>2, <2>1, SendTold
<1>5. ASSUME MountResponses PROVE Told(res')
  <2>1. at \in DOMAIN app.chain /\ at # 0 /\ at # Len(app.chain) + 1
    BY <1>2, <1>5 DEF MountResponses, Here
  <2>2. res.wire.by # "handler"
    BY <1>1, <2>1 DEF Passing
  <2>3. /\ res'.wire = res.wire /\ res'.handled = res.handled
        /\ res'.report = res.report
    BY <1>1, <1>5 DEF MountResponses, Answered
  <2>4. QED
    BY <1>1, <2>2, <2>3 DEF Told, Unreported
<1>6. ASSUME ReportSettles PROVE Told(res')
  <2>1. Answered(SendIfUnsent(res))
    BY <1>1, WireAnswered DEF SendIfUnsent
  <2>2. res'.report = "settled"
    BY <1>1, <1>6, <2>1 DEF ReportSettles, Answered
  <2>3. QED
    BY <2>2 DEF Told, Unreported
<1>7. CASE ValidateRequest \/ RefusalWaves \/ RefusalSettles \/ HandlerFails \/ UNCHANGED vars
  BY <1>1, <1>7 DEF ValidateRequest, RefusalWaves, RefusalSettles, HandlerFails, vars
<1>8. QED
  BY <1>1, <1>4, <1>5, <1>6, <1>7 DEF Next

(* A bad body of the handler that its wrapped send took whole is on the wire
   only after onError was told, for every chain, every form of body and every
   order of answers (validate-responses.ts). *)
THEOREM BadIsReportedAlways == Spec => []BadIsReported
<1>1. Init => Passing /\ Answered(res) /\ Told(res)
  BY AppsAssumption DEF Init, NewResponse, NoWire, Passing, Answered, Told, Unreported
<1>2. Told(res) => BadIsReported
  BY DEF Told, Unreported, BadIsReported
<1>3. QED
  BY <1>1, <1>2, AnsweredNext, PassingNext, ToldNext, PTL DEF Spec
=============================================================================
