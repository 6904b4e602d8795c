------------------------ MODULE FastifyAdapterProofs ------------------------
(***************************************************************************)
(* The safety of FastifyAdapter for every list of onSend hooks, however    *)
(* often a reply is sent and in whatever order hooks and callbacks settle. *)
(***************************************************************************)
EXTENDS FastifyAdapter, TLAPS

LEMMA NowTurns ==
  ASSUME NEW all \in Seq(Reply), NEW i \in DOMAIN all, NEW now \in {"ready", "held", "report", "done"}
  PROVE  LET new == [all EXCEPT ![i].now = now] IN
         /\ new \in Seq(Reply) /\ DOMAIN new = DOMAIN all
         /\ \A j \in DOMAIN all : j # i => new[j] = all[j]
         /\ new[i].by = all[i].by /\ new[i].now = now /\ new[i].next = all[i].next
         /\ new[i].bad = all[i].bad /\ new[i].watched = all[i].watched
<1>1. all[i] \in Reply
  OBVIOUS
<1>2. [all[i] EXCEPT !.now = now] \in Reply
  BY <1>1 DEF Reply
<1>3. [all EXCEPT ![i].now = now] = [all EXCEPT ![i] = [all[i] EXCEPT !.now = now]]
  OBVIOUS
<1>4. [all EXCEPT ![i] = [all[i] EXCEPT !.now = now]] \in Seq(Reply)
  BY <1>2
<1>5. QED
  BY <1>1, <1>3, <1>4 DEF Reply

LEMMA ReplyAdvances ==
  ASSUME NEW all \in Seq(Reply), NEW i \in DOMAIN all
  PROVE  LET new == Advanced(all, i) IN
         /\ new \in Seq(Reply) /\ DOMAIN new = DOMAIN all
         /\ \A j \in DOMAIN all : j # i => new[j] = all[j]
         /\ new[i].by = all[i].by /\ new[i].now = "ready" /\ new[i].next = all[i].next + 1
         /\ new[i].bad = all[i].bad /\ new[i].watched = all[i].watched
<1> DEFINE r == [all[i] EXCEPT !.next = @ + 1, !.now = "ready"]
<1>1. all[i] \in Reply
  OBVIOUS
<1>2. r \in Reply
  <2>1. all[i].next + 1 \in Nat \ {0}
    BY <1>1 DEF Reply
  <2>2. \A n \in Nat \ {0} : [all[i] EXCEPT !.next = n] \in Reply
    BY <1>1 DEF Reply
  <2>3. \A q \in Reply : [q EXCEPT !.now = "ready"] \in Reply
    BY DEF Reply
  <2>4. QED
    BY <2>1, <2>2, <2>3
<1>3. Advanced(all, i) = [all EXCEPT ![i] = r]
  BY DEF Advanced
<1>4. [all EXCEPT ![i] = r] \in Seq(Reply)
  BY <1>2
<1>5. r.by = all[i].by /\ r.now = "ready" /\ r.next = all[i].next + 1
      /\ r.bad = all[i].bad /\ r.watched = all[i].watched
  BY <1>1 DEF Reply
<1>6. DOMAIN [all EXCEPT ![i] = r] = DOMAIN all /\ [all EXCEPT ![i] = r][i] = r
      /\ \A j \in DOMAIN all : j # i => [all EXCEPT ![i] = r][j] = all[j]
  OBVIOUS
<1> HIDE DEF r
<1>7. QED
  BY <1>3, <1>4, <1>5, <1>6

(* What a send adds, if it adds anything. *)
New(by, all, new) ==
  \/ new = all
  \/ /\ ~ReplySent /\ Len(new) = Len(all) + 1
     /\ \A i \in DOMAIN all : new[i] = all[i]
     /\ new[Len(new)].by = by /\ new[Len(new)].now = "ready" /\ new[Len(new)].next = 1

LEMMA SendAdds ==
  ASSUME NEW by \in Senders, NEW all \in Seq(Reply), NEW new \in ReplySend(by, all)
  PROVE  new \in Seq(Reply) /\ New(by, all, new)
<1>1. CASE ReplySent
  BY <1>1 DEF ReplySend, New
<1>2. CASE ~ReplySent
  <2>1. PICK r \in [by : {by}, bad : BOOLEAN, watched : BOOLEAN, next : {1}, now : {"ready"}] :
          new = Append(all, r)
    BY <1>2 DEF ReplySend
  <2>2. r \in Reply /\ r.by = by /\ r.now = "ready" /\ r.next = 1
    BY DEF Reply
  <2>3. QED
    BY <1>2, <2>1, <2>2 DEF New
<1>3. QED
  BY <1>1, <1>2

-----------------------------------------------------------------------------
LEMMA TypeInit == Init => TypeOK
<1>1. <<>> \in Seq(Reply)
  OBVIOUS
<1>2. QED
  BY <1>1 DEF Init, TypeOK

LEMMA TypeNext == TypeOK /\ [Next]_vars => TypeOK'
<1>1. SUFFICES ASSUME TypeOK, [Next]_vars PROVE TypeOK'
  OBVIOUS
<1>2. replies \in Seq(Reply)
  BY <1>1 DEF TypeOK
<1>3. "page" \in Senders /\ "refusal" \in Senders /\ "handler" \in Senders
  BY DEF Senders
<1>4. CASE ValidateRequest
  BY <1>1, <1>2, <1>3, <1>4, SendAdds DEF ValidateRequest, TypeOK, Marked
<1>5. CASE OnErrorSends \/ OnErrorThrows \/ HandlerSends \/ HandlerFails
  BY <1>1, <1>2, <1>3, <1>5, SendAdds DEF OnErrorSends, OnErrorThrows, HandlerSends, HandlerFails, TypeOK
<1>6. CASE OnErrorReturns
  BY <1>1, <1>6 DEF OnErrorReturns, TypeOK, Unmark, ReplySent
<1>7. ASSUME NEW i \in DOMAIN replies, ReplyWrites(i) PROVE TypeOK'
  <2>1. replies' \in Seq(Reply)
    BY <1>2, <1>7, NowTurns DEF ReplyWrites
  <2>2. wire' \in Reply \union {NoReply}
    BY <1>1, <1>2, <1>7 DEF ReplyWrites, TypeOK
  <2>3. QED
    BY <1>1, <1>7, <2>1, <2>2 DEF ReplyWrites, TypeOK
<1>8. ASSUME NEW i \in DOMAIN replies, OtherHook(i) PROVE TypeOK'
  BY <1>1, <1>2, <1>8, NowTurns DEF OtherHook, TypeOK
<1>9. ASSUME NEW i \in DOMAIN replies, OtherHookAnswers(i) \/ ReportReturns(i) PROVE TypeOK'
  BY <1>1, <1>2, <1>9, ReplyAdvances DEF OtherHookAnswers, ReportReturns, ReportedGoesOn, TypeOK
<1>10. ASSUME NEW i \in DOMAIN replies, ReportThrows(i) PROVE TypeOK'
  <2>1. replies' \in Seq(Reply)
    BY <1>2, <1>3, <1>10, NowTurns, SendAdds DEF ReportThrows
  <2>2. QED
    BY <1>1, <1>10, <2>1 DEF ReportThrows, TypeOK
<1>11. ASSUME NEW i \in DOMAIN replies, ValidateResponse(i) PROVE TypeOK'
  <2>1. replies' \in Seq(Reply)
    <3>1. Advanced(replies, i) \in Seq(Reply) /\ [replies EXCEPT ![i].now = "report"] \in Seq(Reply)
          /\ [replies EXCEPT ![i].now = "done"] \in Seq(Reply)
      BY <1>2, NowTurns, ReplyAdvances
    <3>2. \A new \in ReplySend("page", [replies EXCEPT ![i].now = "done"]) : new \in Seq(Reply)
      BY <1>3, <3>1, SendAdds
    <3>3. QED
      BY <1>11, <3>1, <3>2 DEF ValidateResponse
  <2>2. replies[i] \in Reply
    BY <1>2
  <2>3. replies[i].by \in Senders
    BY <2>2 DEF Reply
  <2>4. QED
    BY <1>1, <1>11, <2>1, <2>3 DEF ValidateResponse, TypeOK
<1>12. CASE UNCHANGED vars
  BY <1>1, <1>12 DEF vars, TypeOK
<1>13. QED
  BY <1>1, <1>4, <1>5, <1>6, <1>7, <1>8, <1>9, <1>10, <1>11, <1>12 DEF Next, OnSend, Callback

-----------------------------------------------------------------------------
(* The mark is up while onError runs, and a report is of the first reply the
   hook saw, with the mark down, where it stays. *)
Marking ==
  /\ at = "preValidation" => replies = <<>> /\ reported = {} /\ wire = NoReply
  /\ at = "onError" => refused
  /\ reported # {} => validated /\ routed /\ ~refused
  /\ \A p, q \in reported : p = q

(* Where nothing awaits, a refusal is under way in its onError, and is the
   response when it is through. *)
Refusing ==
  Prompt =>
    /\ "refusal" \notin reported
    /\ at = "onError" => /\ \A i \in DOMAIN replies : replies[i].by = "refusal"
                         /\ ReplySent => wire.by = "refusal"
    /\ \A i \in DOMAIN replies :
         replies[i].by = "refusal" =>
           \/ replies[i].now = "ready" /\ at = "onError"
           \/ replies[i].now = "done" /\ ReplySent /\ wire.by = "refusal" /\ at \in {"onError", "over"}

LEMMA MarkingNext == TypeOK /\ Marking /\ [Next]_vars => Marking'
<1>1. SUFFICES ASSUME TypeOK, Marking, [Next]_vars PROVE Marking'
  OBVIOUS
<1>2. refused \in BOOLEAN /\ validated \in BOOLEAN
  BY <1>1 DEF TypeOK
<1>3. ASSUME NEW i \in DOMAIN replies PROVE at # "preValidation"
  BY <1>1 DEF Marking
<1>4. CASE ValidateRequest
  BY <1>1, <1>4 DEF ValidateRequest, Marking, Marked
<1>5. CASE OnErrorSends \/ OnErrorThrows \/ HandlerSends \/ HandlerFails
  BY <1>1, <1>5 DEF OnErrorSends, OnErrorThrows, HandlerSends, HandlerFails, Marking
<1>6. CASE OnErrorReturns
  BY <1>1, <1>2, <1>6 DEF OnErrorReturns, Marking, Unmark
<1>7. ASSUME NEW i \in DOMAIN replies, ValidateResponse(i) PROVE Marking'
  <2>1. CASE UNCHANGED reported
    BY <1>1, <1>3, <1>7, <2>1 DEF ValidateResponse, Marking
  <2>2. CASE FirstReply /\ InScope(replies[i]) /\ reported' = reported \union {replies[i].by}
    <3>1. reported = {}
      BY <1>1, <2>2 DEF Marking, FirstReply
    <3>2. QED
      BY <1>1, <1>3, <1>7, <2>2, <3>1 DEF ValidateResponse, Marking, InScope, RouteWasMatched
  <2>3. QED
    BY <1>7, <2>1, <2>2 DEF ValidateResponse
<1>8. ASSUME NEW i \in DOMAIN replies,
             ReplyWrites(i) \/ OtherHook(i) \/ OtherHookAnswers(i) \/ ReportReturns(i) \/ ReportThrows(i)
      PROVE  Marking'
  BY <1>1, <1>3, <1>8 DEF ReplyWrites, OtherHook, OtherHookAnswers, ReportReturns, ReportThrows, Marking
<1>9. CASE UNCHANGED vars
  BY <1>1, <1>9 DEF vars, Marking
<1>10. QED
  BY <1>1, <1>4, <1>5, <1>6, <1>7, <1>8, <1>9 DEF Next, OnSend, Callback

(* A send of somebody else leaves the refusals as they are. *)
LEMMA SendKeepsRefusal ==
  ASSUME NEW all \in Seq(Reply), NEW by \in Senders, by # "refusal",
         NEW new \in ReplySend(by, all), NEW k \in DOMAIN new, new[k].by = "refusal"
  PROVE  k \in DOMAIN all /\ new[k] = all[k]
<1>1. new \in Seq(Reply) /\ New(by, all, new)
  BY SendAdds
<1>2. CASE new = all
  BY <1>2
<1>3. CASE new # all
  <2>1. k # Len(new)
    BY <1>1, <1>3 DEF New
  <2>2. QED
    BY <1>1, <1>3, <2>1 DEF New
<1>4. QED
  BY <1>2, <1>3

LEMMA RefusingNext == TypeOK /\ Marking /\ Refusing /\ [Next]_vars => Refusing'
<1>1. SUFFICES ASSUME TypeOK, Marking, Refusing, [Next]_vars, Prompt' PROVE Refusing'
  BY DEF Refusing
<1>2. Prompt
  <2>1. hooks' = hooks
    BY <1>1 DEF Next, vars, ValidateRequest, OnErrorSends, OnErrorReturns, OnErrorThrows, HandlerSends,
                HandlerFails, OnSend, Callback, ReplyWrites, OtherHook, ValidateResponse,
                OtherHookAnswers, ReportReturns, ReportThrows
  <2>2. QED
    BY <1>1, <2>1 DEF Prompt
<1>3. replies \in Seq(Reply) /\ refused \in BOOLEAN /\ (ReplySent => wire \in Reply)
  BY <1>1 DEF TypeOK, ReplySent
<1>4. "page" \in Senders /\ "refusal" \in Senders /\ "handler" \in Senders
  BY DEF Senders
<1>5. CASE ValidateRequest
  <2>1. replies = <<>> /\ reported = {} /\ wire = NoReply
    BY <1>1, <1>5 DEF ValidateRequest, Marking
  <2>2. ASSUME NEW k \in DOMAIN replies' PROVE replies'[k].by # "refusal" /\ at' # "onError"
    <3>1. replies' # replies
      BY <2>1, <2>2
    <3>2. at' = "over" /\ replies' \in ReplySend("page", replies)
      BY <1>5, <3>1 DEF ValidateRequest
    <3>3. replies' \in Seq(Reply) /\ New("page", replies, replies')
      BY <1>3, <1>4, <3>2, SendAdds
    <3>4. k = Len(replies')
      BY <2>1, <3>1, <3>3 DEF New
    <3>5. QED
      BY <3>1, <3>2, <3>3, <3>4 DEF New
  <2>3. QED
    BY <1>5, <2>1, <2>2 DEF ValidateRequest, Refusing, ReplySent
<1>6. CASE OnErrorSends
  <2>1. replies = <<>>
    BY <1>1, <1>2, <1>3, <1>6 DEF OnErrorSends, Refusing, RefusalSent
  <2>2. replies' \in Seq(Reply) /\ New("refusal", replies, replies')
    BY <1>3, <1>4, <1>6, SendAdds DEF OnErrorSends
  <2>3. ASSUME NEW k \in DOMAIN replies' PROVE replies'[k].by = "refusal" /\ replies'[k].now = "ready"
    BY <2>1, <2>2 DEF New
  <2>4. QED
    BY <1>1, <1>2, <1>6, <2>3 DEF OnErrorSends, Refusing, ReplySent
<1>7. CASE OnErrorReturns
  BY <1>1, <1>2, <1>7 DEF OnErrorReturns, Refusing, Settled, Ready, ReplySent
<1>8. CASE OnErrorThrows
  <2>1. CASE ReplySent
    BY <1>1, <1>2, <1>8, <2>1 DEF OnErrorThrows, Refusing, Settled, Ready, ReplySent, ReplySend
  <2>2. CASE ~ReplySent
    <3>1. ASSUME NEW k \in DOMAIN replies PROVE FALSE
      BY <1>1, <1>2, <1>8, <2>2 DEF OnErrorThrows, Refusing, Settled, Ready
    <3>2. replies = <<>>
      BY <1>3, <3>1
    <3>3. replies' \in Seq(Reply) /\ New("page", replies, replies')
      BY <1>3, <1>4, <1>8, SendAdds DEF OnErrorThrows
    <3>4. ASSUME NEW k \in DOMAIN replies' PROVE replies'[k].by # "refusal"
      BY <3>2, <3>3 DEF New
    <3>5. QED
      BY <1>1, <1>2, <1>8, <3>4 DEF OnErrorThrows, Refusing
  <2>3. QED
    BY <2>1, <2>2
<1>9. CASE HandlerSends
  <2>1. ASSUME NEW k \in DOMAIN replies', replies'[k].by = "refusal"
        PROVE  k \in DOMAIN replies /\ replies'[k] = replies[k]
    BY <1>3, <1>4, <1>9, <2>1, SendKeepsRefusal DEF HandlerSends
  <2>2. QED
    BY <1>1, <1>2, <1>9, <2>1 DEF HandlerSends, Refusing, ReplySent
<1>10. CASE HandlerFails
  <2>1. ASSUME NEW k \in DOMAIN replies', replies'[k].by = "refusal"
        PROVE  k \in DOMAIN replies /\ replies'[k] = replies[k]
    BY <1>3, <1>4, <1>10, <2>1, SendKeepsRefusal DEF HandlerFails
  <2>2. QED
    BY <1>1, <1>2, <1>10, <2>1 DEF HandlerFails, Refusing, ReplySent
<1>11. ASSUME NEW i \in DOMAIN replies, ReplyWrites(i) PROVE Refusing'
  <2>1. /\ DOMAIN replies' = DOMAIN replies /\ replies'[i].by = replies[i].by /\ replies'[i].now = "done"
        /\ \A j \in DOMAIN replies : j # i => replies'[j] = replies[j]
    BY <1>3, <1>11, NowTurns DEF ReplyWrites
  <2>2. replies[i] \in Reply
    BY <1>3
  <2>3. replies[i].by # "none"
    BY <2>2 DEF Reply, Senders
  <2>4. replies[i] # NoReply /\ ReplySent'
    BY <1>11, <2>3 DEF ReplyWrites, ReplySent, NoReply
  <2>5. ReplySent /\ wire.by = "refusal" => wire' = wire
    BY <1>11 DEF ReplyWrites
  <2>6. at = "onError" => wire'.by = "refusal" /\ replies[i].by = "refusal"
    BY <1>1, <1>2, <1>11 DEF ReplyWrites, Refusing
  <2>7. replies[i].by = "refusal" => at = "onError"
    BY <1>1, <1>2, <1>11 DEF ReplyWrites, Refusing, Ready
  <2>8. QED
    BY <1>1, <1>2, <1>11, <2>1, <2>4, <2>5, <2>6, <2>7 DEF ReplyWrites, Refusing
<1>12. ASSUME NEW i \in DOMAIN replies, OtherHook(i) PROVE Refusing'
  <2>1. hooks[replies[i].next] = "responses"
    <3>1. replies[i] \in Reply
      BY <1>3
    <3>2. replies[i].next \in 1 .. Len(hooks)
      BY <1>12, <3>1 DEF OtherHook, Reply
    <3>3. hooks \in Seq({"responses", "other"})
      BY <1>1, AppsAssumption DEF TypeOK
    <3>4. QED
      BY <1>2, <3>2, <3>3 DEF Prompt
  <2>2. QED
    BY <1>12, <2>1 DEF OtherHook
<1>13. ASSUME NEW i \in DOMAIN replies, OtherHookAnswers(i) \/ ReportReturns(i) PROVE Refusing'
  <2>1. replies[i].by # "refusal"
    BY <1>1, <1>2, <1>13 DEF OtherHookAnswers, ReportReturns, Refusing
  <2>2. /\ DOMAIN replies' = DOMAIN replies /\ replies'[i].by = replies[i].by
        /\ \A j \in DOMAIN replies : j # i => replies'[j] = replies[j]
    BY <1>3, <1>13, ReplyAdvances DEF OtherHookAnswers, ReportReturns, ReportedGoesOn
  <2>3. QED
    BY <1>1, <1>2, <1>13, <2>1, <2>2 DEF OtherHookAnswers, ReportReturns, Refusing, ReplySent
<1>14. ASSUME NEW i \in DOMAIN replies, ReportThrows(i) PROVE Refusing'
  <2>1. replies[i].by # "refusal" /\ at # "onError"
    BY <1>1, <1>2, <1>14 DEF ReportThrows, Refusing
  <2>2. ASSUME NEW k \in DOMAIN replies', replies'[k].by = "refusal"
        PROVE  k \in DOMAIN replies /\ replies'[k] = replies[k]
    <3> DEFINE through == [replies EXCEPT ![i].now = "done"]
    <3>1. /\ through \in Seq(Reply) /\ DOMAIN through = DOMAIN replies
          /\ through[i].by # "refusal" /\ \A j \in DOMAIN replies : j # i => through[j] = replies[j]
      BY <1>3, <2>1, NowTurns
    <3>2. replies' \in ReplySend("page", through)
      BY <1>14 DEF ReportThrows
    <3> HIDE DEF through
    <3>3. k \in DOMAIN through /\ replies'[k] = through[k]
      BY <1>4, <2>2, <3>1, <3>2, SendKeepsRefusal
    <3>4. QED
      BY <2>2, <3>1, <3>3
  <2>3. QED
    BY <1>1, <1>2, <1>14, <2>1, <2>2 DEF ReportThrows, Refusing, ReplySent
<1>15. ASSUME NEW i \in DOMAIN replies, ValidateResponse(i) PROVE Refusing'
  <2>1. CASE replies[i].by = "refusal"
    <3>1. at = "onError" /\ refused
      BY <1>1, <1>2, <1>15, <2>1 DEF ValidateResponse, Ready, Refusing, Marking
    <3>2. replies' = Advanced(replies, i) /\ UNCHANGED <<reported, at, wire>>
      BY <1>15, <3>1 DEF ValidateResponse, InScope
    <3>3. /\ DOMAIN replies' = DOMAIN replies /\ replies'[i].by = "refusal" /\ replies'[i].now = "ready"
          /\ \A j \in DOMAIN replies : j # i => replies'[j] = replies[j]
      BY <1>3, <2>1, <3>2, ReplyAdvances
    <3>4. QED
      BY <1>1, <1>2, <3>1, <3>2, <3>3 DEF Refusing, ReplySent
  <2>2. CASE replies[i].by # "refusal"
    <3>1. at # "onError"
      BY <1>1, <1>2, <2>2 DEF Refusing
    <3>2. ASSUME NEW all, all \in {Advanced(replies, i), [replies EXCEPT ![i].now = "report"],
                                  [replies EXCEPT ![i].now = "done"]}
          PROVE  /\ all \in Seq(Reply) /\ DOMAIN all = DOMAIN replies
                 /\ all[i].by # "refusal" /\ \A j \in DOMAIN replies : j # i => all[j] = replies[j]
      <4>1. CASE all = Advanced(replies, i)
        BY <1>3, <2>2, <4>1, ReplyAdvances
      <4>2. CASE all = [replies EXCEPT ![i].now = "report"]
        BY <1>3, <2>2, <4>2, NowTurns
      <4>3. CASE all = [replies EXCEPT ![i].now = "done"]
        BY <1>3, <2>2, <4>3, NowTurns
      <4>4. QED
        BY <3>2, <4>1, <4>2, <4>3
    <3>3. ASSUME NEW k \in DOMAIN replies', replies'[k].by = "refusal"
          PROVE  k \in DOMAIN replies /\ replies'[k] = replies[k]
      <4>1. CASE replies' \in {Advanced(replies, i), [replies EXCEPT ![i].now = "report"]}
        BY <3>2, <3>3, <4>1
      <4>2. CASE replies' \in ReplySend("page", [replies EXCEPT ![i].now = "done"])
        BY <1>4, <3>2, <3>3, <4>2, SendKeepsRefusal
      <4>3. QED
        BY <1>15, <4>1, <4>2 DEF ValidateResponse
    <3>4. "refusal" \notin reported'
      BY <1>1, <1>2, <1>15, <2>2 DEF ValidateResponse, Refusing
    <3>5. QED
      BY <1>1, <1>2, <1>15, <3>1, <3>3, <3>4 DEF ValidateResponse, Refusing, ReplySent
  <2>3. QED
    BY <2>1, <2>2
<1>16. CASE UNCHANGED vars
  BY <1>1, <1>2, <1>16 DEF vars, Refusing, ReplySent
<1>17. QED
  BY <1>1, <1>5, <1>6, <1>7, <1>8, <1>9, <1>10, <1>11, <1>12, <1>13, <1>14, <1>15, <1>16 DEF Next, OnSend, Callback

-----------------------------------------------------------------------------
MarkInvariant == TypeOK /\ Marking /\ Refusing

LEMMA MarkInvariantHolds == Spec => []MarkInvariant
<1>1. Init => MarkInvariant
  <2>1. Init => Marking /\ Refusing
    BY DEF Init, Marking, Refusing
  <2>2. QED
    BY <2>1, TypeInit DEF MarkInvariant
<1>2. MarkInvariant /\ [Next]_vars => MarkInvariant'
  BY TypeNext, MarkingNext, RefusingNext DEF MarkInvariant
<1>3. QED
  BY <1>1, <1>2, PTL DEF Spec

(* A refusal that onError sends is the response and the route handler does
   not run, for every number of response hooks, as long as no other onSend
   hook awaits anything (validateRequests, REQUEST_REFUSED). *)
THEOREM RefusalStandsAlways == Spec => []RefusalStands
<1>1. MarkInvariant => RefusalStands
  <2>1. SUFFICES ASSUME MarkInvariant, Prompt, NEW i \in DOMAIN replies, replies[i].by = "refusal"
                 PROVE  at \notin {"handler", "answered"} /\ (ReplySent => wire.by = "refusal")
    BY DEF RefusalStands, RefusalSent
  <2>2. QED
    BY <2>1 DEF MarkInvariant, Refusing
<1>2. QED
  BY <1>1, MarkInvariantHolds, PTL

(* At most one reply of a request is reported, none of an unmatched request,
   none while the mark is up, for every list of hooks (validateResponses). *)
THEOREM ReportScopeAlways == Spec => []ReportScope
<1>1. MarkInvariant => ReportScope
  BY DEF MarkInvariant, Marking, Refusing, ReportScope
<1>2. QED
  BY <1>1, MarkInvariantHolds, PTL

-----------------------------------------------------------------------------
(* What a step does to a reply that is under way: whose it is stays, and what
   is done stays done. *)
Onward(i) ==
  /\ replies'[i].by = replies[i].by
  /\ replies'[i].bad = replies[i].bad /\ replies'[i].watched = replies[i].watched
  /\ replies[i].now = "done" => replies'[i] = replies[i]
  /\ \/ replies'[i] = replies[i]
     \/ /\ replies'[i].next = replies[i].next
        /\ replies'[i].now = "held" => replies[i].next <= Len(hooks) /\ hooks[replies[i].next] = "other"
        /\ replies'[i].now = "report" => validated'
     \/ /\ replies'[i].next = replies[i].next + 1 /\ replies'[i].now = "ready"
        /\ replies[i].now \in {"held", "report"} \/ validated'

(* What a step adds to the replies: one, of whoever has sent it. *)
Added(k) ==
  /\ replies'[k].next = 1 /\ replies'[k].now = "ready" /\ ~ReplySent
  /\ replies'[k].by = "handler" => HandlerSends
  /\ \A l \in DOMAIN replies' \ DOMAIN replies : l = k

Grown ==
  /\ replies' \in Seq(Reply) /\ DOMAIN replies \subseteq DOMAIN replies'
  /\ \A i \in DOMAIN replies : Onward(i)
  /\ \A k \in DOMAIN replies' \ DOMAIN replies : Added(k)

LEMMA SendGrows ==
  ASSUME NEW by \in Senders, NEW all \in Seq(Reply), NEW new \in ReplySend(by, all)
  PROVE  /\ new \in Seq(Reply) /\ DOMAIN all \subseteq DOMAIN new
         /\ \A i \in DOMAIN all : new[i] = all[i]
         /\ \A k \in DOMAIN new \ DOMAIN all :
              /\ new[k].by = by /\ new[k].next = 1 /\ new[k].now = "ready" /\ ~ReplySent
              /\ \A l \in DOMAIN new \ DOMAIN all : l = k
<1>1. new \in Seq(Reply) /\ New(by, all, new)
  BY SendAdds
<1>2. CASE new = all
  BY <1>1, <1>2
<1>3. CASE new # all
  <2>1. /\ ~ReplySent /\ Len(new) = Len(all) + 1 /\ Len(all) \in Nat
        /\ DOMAIN new = 1 .. Len(new) /\ DOMAIN all = 1 .. Len(all)
    BY <1>1, <1>3 DEF New
  <2>2. DOMAIN new = DOMAIN all \union {Len(new)}
    BY <2>1
  <2>3. QED
    BY <1>1, <1>3, <2>1, <2>2 DEF New
<1>4. QED
  BY <1>2, <1>3

(* A turn of one reply, and possibly a page after it. *)
LEMMA TurnGrows ==
  ASSUME replies \in Seq(Reply), NEW i \in DOMAIN replies, replies[i].now # "done",
         NEW all \in Seq(Reply), DOMAIN all = DOMAIN replies,
         \A j \in DOMAIN replies : j # i => all[j] = replies[j],
         all[i].by = replies[i].by, all[i].bad = replies[i].bad, all[i].watched = replies[i].watched,
         \/ /\ all[i].next = replies[i].next
            /\ all[i].now = "held" => replies[i].next <= Len(hooks) /\ hooks[replies[i].next] = "other"
            /\ all[i].now = "report" => validated'
         \/ /\ all[i].next = replies[i].next + 1 /\ all[i].now = "ready"
            /\ replies[i].now \in {"held", "report"} \/ validated',
         replies' = all \/ replies' \in ReplySend("page", all)
  PROVE  Grown
<1>1. /\ replies' \in Seq(Reply) /\ DOMAIN replies \subseteq DOMAIN replies'
      /\ \A j \in DOMAIN replies : replies'[j] = all[j]
      /\ \A k \in DOMAIN replies' \ DOMAIN replies :
              /\ replies'[k].by = "page" /\ replies'[k].next = 1 /\ replies'[k].now = "ready" /\ ~ReplySent
              /\ \A l \in DOMAIN replies' \ DOMAIN replies : l = k
  <2>1. CASE replies' = all
    BY <2>1
  <2>2. CASE replies' \in ReplySend("page", all)
    BY <2>2, SendGrows DEF Senders
  <2>3. QED
    BY <2>1, <2>2
<1>2. ASSUME NEW j \in DOMAIN replies PROVE Onward(j)
  BY <1>1 DEF Onward
<1>3. ASSUME NEW k \in DOMAIN replies' \ DOMAIN replies PROVE Added(k)
  BY <1>1 DEF Added
<1>4. QED
  BY <1>1, <1>2, <1>3 DEF Grown

(* What a reply of the list becomes when only where it is changes. *)
Turned(all, i, now) ==
  /\ all \in Seq(Reply) /\ DOMAIN all = DOMAIN replies
  /\ \A j \in DOMAIN replies : j # i => all[j] = replies[j]
  /\ all[i].by = replies[i].by /\ all[i].now = now /\ all[i].next = replies[i].next
  /\ all[i].bad = replies[i].bad /\ all[i].watched = replies[i].watched

LEMMA RepliesGrow == TypeOK /\ Next => Grown
<1>1. SUFFICES ASSUME TypeOK, Next PROVE Grown
  OBVIOUS
<1>2. replies \in Seq(Reply) /\ \A i \in DOMAIN replies : replies[i] \in Reply
  BY <1>1 DEF TypeOK
<1>3. ASSUME replies' = replies PROVE Grown
  BY <1>2, <1>3 DEF Grown, Onward, Added
<1>4. ASSUME NEW by \in Senders, replies' \in ReplySend(by, replies), by = "handler" => HandlerSends
      PROVE  Grown
  <2>1. ASSUME NEW i \in DOMAIN replies PROVE Onward(i)
    BY <1>2, <1>4, SendGrows DEF Onward
  <2>2. ASSUME NEW k \in DOMAIN replies' \ DOMAIN replies PROVE Added(k)
    BY <1>2, <1>4, SendGrows DEF Added
  <2>3. QED
    BY <1>2, <1>4, <2>1, <2>2, SendGrows DEF Grown
<1>5. CASE ValidateRequest
  BY <1>3, <1>4, <1>5 DEF ValidateRequest, Senders
<1>6. CASE OnErrorSends \/ OnErrorReturns \/ OnErrorThrows \/ HandlerSends \/ HandlerFails
  BY <1>3, <1>4, <1>6 DEF OnErrorSends, OnErrorReturns, OnErrorThrows, HandlerSends, HandlerFails, Senders
<1>7. \A i \in DOMAIN replies, now \in {"ready", "held", "report", "done"} :
         Turned([replies EXCEPT ![i].now = now], i, now)
  BY <1>2, NowTurns DEF Turned
<1>8. ASSUME NEW i \in DOMAIN replies, ReplyWrites(i) \/ OtherHook(i) PROVE Grown
  <2>1. PICK now \in {"done", "held"} :
          /\ replies' = [replies EXCEPT ![i].now = now] /\ Ready(i)
          /\ now = "held" => replies[i].next <= Len(hooks) /\ hooks[replies[i].next] = "other"
    BY <1>8 DEF ReplyWrites, OtherHook
  <2> DEFINE all == [replies EXCEPT ![i].now = now]
  <2>2. /\ all \in Seq(Reply) /\ DOMAIN all = DOMAIN replies
        /\ \A j \in DOMAIN replies : j # i => all[j] = replies[j]
        /\ all[i].by = replies[i].by /\ all[i].now = now /\ all[i].next = replies[i].next
        /\ all[i].bad = replies[i].bad /\ all[i].watched = replies[i].watched
    <3>1. now \in {"ready", "held", "report", "done"}
      OBVIOUS
    <3>2. Turned(all, i, now)
      BY <1>7, <3>1
    <3> HIDE DEF all
    <3>3. QED
      BY <3>2 DEF Turned
  <2>3. replies' = all
    BY <2>1
  <2> HIDE DEF all
  <2>4. QED
    BY <1>2, <2>1, <2>2, <2>3, TurnGrows DEF Ready
<1>9. ASSUME NEW i \in DOMAIN replies,
             \/ OtherHookAnswers(i)
             \/ ReportReturns(i)
             \/ ValidateResponse(i) /\ replies' = Advanced(replies, i)
      PROVE  Grown
  <2> DEFINE all == Advanced(replies, i)
  <2>1. /\ replies' = all /\ replies[i].now \in {"held", "report", "ready"}
        /\ replies[i].now \in {"held", "report"} \/ validated'
    BY <1>9 DEF OtherHookAnswers, ReportReturns, ReportedGoesOn, ValidateResponse, Ready
  <2>2. /\ all \in Seq(Reply) /\ DOMAIN all = DOMAIN replies
        /\ \A j \in DOMAIN replies : j # i => all[j] = replies[j]
        /\ all[i].by = replies[i].by /\ all[i].now = "ready" /\ all[i].next = replies[i].next + 1
        /\ all[i].bad = replies[i].bad /\ all[i].watched = replies[i].watched
    BY <1>2, ReplyAdvances
  <2> HIDE DEF all
  <2>3. QED
    BY <1>2, <2>1, <2>2, TurnGrows
<1>10. ASSUME NEW i \in DOMAIN replies, NEW now \in {"report", "done"}, replies[i].now # "done",
             now = "report" => validated',
             LET all == [replies EXCEPT ![i].now = now]
             IN  replies' = all \/ replies' \in ReplySend("page", all)
      PROVE  Grown
  <2> DEFINE all == [replies EXCEPT ![i].now = now]
  <2>1. /\ all \in Seq(Reply) /\ DOMAIN all = DOMAIN replies
        /\ \A j \in DOMAIN replies : j # i => all[j] = replies[j]
        /\ all[i].by = replies[i].by /\ all[i].now = now /\ all[i].next = replies[i].next
        /\ all[i].bad = replies[i].bad /\ all[i].watched = replies[i].watched
    <3>1. now \in {"ready", "held", "report", "done"}
      OBVIOUS
    <3>2. Turned(all, i, now)
      BY <1>7, <3>1
    <3> HIDE DEF all
    <3>3. QED
      BY <3>2 DEF Turned
  <2>2. replies' = all \/ replies' \in ReplySend("page", all)
    BY <1>10
  <2> HIDE DEF all
  <2>3. QED
    BY <1>2, <1>10, <2>1, <2>2, TurnGrows
<1>11. ASSUME NEW i \in DOMAIN replies, ReportThrows(i) PROVE Grown
  BY <1>10, <1>11 DEF ReportThrows
<1>12. ASSUME NEW i \in DOMAIN replies, ValidateResponse(i) PROVE Grown
  <2>1. replies[i].now # "done" /\ validated'
    BY <1>12 DEF ValidateResponse, Ready
  <2>2. QED
    BY <1>9, <1>10, <1>12, <2>1 DEF ValidateResponse
<1>13. QED
  BY <1>1, <1>5, <1>6, <1>8, <1>9, <1>11, <1>12 DEF Next, OnSend, Callback

LEMMA Standing ==
  TypeOK /\ Next => /\ hooks' = hooks /\ routed' = routed /\ reported \subseteq reported'
                    /\ validated => validated'
BY DEF TypeOK, Next, ValidateRequest, OnErrorSends, OnErrorReturns, OnErrorThrows, HandlerSends,
       HandlerFails, OnSend, Callback, ReplyWrites, OtherHook, ValidateResponse,
       OtherHookAnswers, ReportReturns, ReportThrows

-----------------------------------------------------------------------------
(* The handler runs with the mark down, and answers once. *)
Handling ==
  /\ at \in {"preValidation", "handler", "answered"} => ~refused
  /\ \A i \in DOMAIN replies : replies[i].by = "handler" => at \in {"answered", "over"} /\ ~refused
  /\ \A i, j \in DOMAIN replies : replies[i].by = "handler" /\ replies[j].by = "handler" => i = j

(* What has gone past a response hook has been looked at, and what waits
   waits for a hook of its own kind. *)
Looking ==
  /\ validated => replies # <<>>
  /\ \A i \in DOMAIN replies :
       /\ replies[i].now = "held" => replies[i].next <= Len(hooks) /\ hooks[replies[i].next] = "other"
       /\ replies[i].now = "report" => validated
       /\ \A h \in DOMAIN hooks : h < replies[i].next /\ hooks[h] = "responses" => validated

(* The response is a reply that went through all the hooks. *)
Written ==
  ReplySent => \E k \in DOMAIN replies :
                 /\ replies[k].now = "done" /\ replies[k].next > Len(hooks)
                 /\ replies[k].by = wire.by /\ replies[k].bad = wire.bad
                 /\ replies[k].watched = wire.watched

Clean == \A i \in DOMAIN replies : replies[i].by = "handler"

(* The look at the one reply has reported it, if it had to. *)
Checked ==
  Clean /\ validated =>
    \A i \in DOMAIN replies :
      replies[i].bad /\ replies[i].watched /\ routed => "handler" \in reported

LEMMA HandlingNext == TypeOK /\ Handling /\ Next => Handling'
<1>1. SUFFICES ASSUME TypeOK, Handling, Next PROVE Handling'
  OBVIOUS
<1>2. Grown
  BY <1>1, RepliesGrow
<1>3. ASSUME NEW k \in DOMAIN replies', replies'[k].by = "handler"
      PROVE  \/ k \in DOMAIN replies /\ replies[k].by = "handler"
             \/ k \notin DOMAIN replies /\ HandlerSends
  BY <1>2, <1>3 DEF Grown, Onward, Added
<1>4. \A k \in DOMAIN replies : replies[k].by = "handler" => at \in {"answered", "over"} /\ ~refused
  BY <1>1 DEF Handling
<1>5. CASE HandlerSends
  <2>1. at' = "answered" /\ ~refused /\ ~refused' /\ at = "handler"
    BY <1>1, <1>5 DEF HandlerSends, Handling
  <2>2. \A k \in DOMAIN replies' : replies'[k].by = "handler" => k \notin DOMAIN replies
    BY <1>3, <1>4, <2>1
  <2>3. \A k, l \in DOMAIN replies' : replies'[k].by = "handler" /\ replies'[l].by = "handler" => k = l
    BY <1>2, <2>2 DEF Grown, Added
  <2>4. QED
    BY <2>1, <2>3 DEF Handling
<1>6. CASE ~HandlerSends
  <2>1. \A k \in DOMAIN replies' : replies'[k].by = "handler" => k \in DOMAIN replies /\ replies[k].by = "handler"
    BY <1>3, <1>6
  <2>2. \A k, l \in DOMAIN replies' : replies'[k].by = "handler" /\ replies'[l].by = "handler" => k = l
    BY <1>1, <2>1 DEF Handling
  <2>3. /\ at' \in {"preValidation", "handler", "answered"} => ~refused'
        /\ at \in {"answered", "over"} /\ ~refused => at' \in {"answered", "over"} /\ ~refused'
    <3>1. CASE OnErrorReturns
      BY <1>1, <3>1 DEF OnErrorReturns, Unmark
    <3>2. CASE ValidateRequest
      BY <1>1, <3>2 DEF ValidateRequest, Handling
    <3>3. CASE ~(OnErrorReturns \/ ValidateRequest)
      <4>1. refused' = refused /\ (at' = at \/ at' = "over")
        BY <1>1, <1>6, <3>3 DEF Next, OnErrorSends, OnErrorThrows, HandlerFails, OnSend, Callback,
           ReplyWrites, OtherHook, ValidateResponse, OtherHookAnswers, ReportReturns, ReportThrows
      <4>2. QED
        BY <1>1, <4>1 DEF Handling
    <3>4. QED
      BY <3>1, <3>2, <3>3
  <2>4. QED
    BY <1>4, <2>1, <2>2, <2>3 DEF Handling
<1>7. QED
  BY <1>5, <1>6

LEMMA LookingNext == TypeOK /\ Looking /\ Next => Looking'
<1>1. SUFFICES ASSUME TypeOK, Looking, Next PROVE Looking'
  OBVIOUS
<1>2. Grown /\ hooks' = hooks /\ (validated => validated')
  BY <1>1, RepliesGrow, Standing
<1>3. replies \in Seq(Reply) /\ hooks \in Seq({"responses", "other"})
  BY <1>1, AppsAssumption DEF TypeOK
<1>4. validated' => replies' # <<>>
  <2>1. validated' => replies # <<>>
    <3>1. CASE validated' = validated
      BY <1>1, <3>1 DEF Looking
    <3>2. CASE \E i \in DOMAIN replies : ValidateResponse(i)
      BY <3>2
    <3>3. QED
      BY <1>1, <3>1, <3>2 DEF Next, ValidateRequest, OnErrorSends, OnErrorReturns, OnErrorThrows,
         HandlerSends, HandlerFails, OnSend, Callback, ReplyWrites, OtherHook,
         OtherHookAnswers, ReportReturns, ReportThrows
  <2>2. replies # <<>> => replies' # <<>>
    BY <1>2, <1>3 DEF Grown
  <2>3. QED
    BY <2>1, <2>2
<1>5. ASSUME NEW k \in DOMAIN replies'
      PROVE  /\ replies'[k].now = "held" => replies'[k].next <= Len(hooks) /\ hooks[replies'[k].next] = "other"
             /\ replies'[k].now = "report" => validated'
             /\ \A h \in DOMAIN hooks : h < replies'[k].next /\ hooks[h] = "responses" => validated'
  <2>1. CASE k \notin DOMAIN replies
    BY <1>2, <1>3, <2>1 DEF Grown, Added
  <2>2. CASE k \in DOMAIN replies
    <3>1. /\ replies[k].now = "held" => replies[k].next <= Len(hooks) /\ hooks[replies[k].next] = "other"
          /\ replies[k].now = "report" => validated
          /\ \A h \in DOMAIN hooks : h < replies[k].next /\ hooks[h] = "responses" => validated
      BY <1>1, <2>2 DEF Looking
    <3>2. Onward(k)
      BY <1>2, <2>2 DEF Grown
    <3>3. replies[k].next \in Nat \ {0}
      <4>1. replies[k] \in Reply
        BY <1>3, <2>2
      <4>2. QED
        BY <4>1 DEF Reply
    <3>4. CASE replies'[k].next = replies[k].next + 1 /\ replies'[k].now = "ready"
      <4>1. ASSUME NEW h \in DOMAIN hooks, h < replies'[k].next, hooks[h] = "responses", ~validated'
            PROVE  FALSE
        <5>1. replies[k].now = "held"
          BY <1>2, <3>1, <3>2, <3>3, <3>4, <4>1 DEF Onward
        <5>2. h = replies[k].next
          BY <1>2, <1>3, <3>1, <3>3, <3>4, <4>1
        <5>3. QED
          BY <3>1, <4>1, <5>1, <5>2
      <4>2. QED
        BY <3>4, <4>1
    <3>5. CASE ~(replies'[k].next = replies[k].next + 1 /\ replies'[k].now = "ready")
      BY <1>2, <3>1, <3>2, <3>5 DEF Onward
    <3>6. QED
      BY <3>4, <3>5
  <2>3. QED
    BY <2>1, <2>2
<1>6. QED
  BY <1>2, <1>4, <1>5 DEF Looking

LEMMA WrittenNext == TypeOK /\ Written /\ Next => Written'
<1>1. SUFFICES ASSUME TypeOK, Written, Next PROVE Written'
  OBVIOUS
<1>2. Grown /\ hooks' = hooks
  BY <1>1, RepliesGrow, Standing
<1>3. CASE wire' = wire
  <2>1. ASSUME NEW k \in DOMAIN replies, replies[k].now = "done"
        PROVE  k \in DOMAIN replies' /\ replies'[k] = replies[k]
    BY <1>2, <2>1 DEF Grown, Onward
  <2>2. QED
    BY <1>1, <1>2, <1>3, <2>1 DEF Written, ReplySent
<1>4. CASE wire' # wire
  <2>1. PICK i \in DOMAIN replies : ReplyWrites(i) /\ wire' = replies[i]
    BY <1>1, <1>4 DEF Next, ValidateRequest, OnErrorSends, OnErrorReturns, OnErrorThrows, HandlerSends,
       HandlerFails, OnSend, Callback, ReplyWrites, OtherHook, ValidateResponse,
       OtherHookAnswers, ReportReturns, ReportThrows
  <2>2. replies \in Seq(Reply)
    BY <1>1 DEF TypeOK
  <2>3. /\ i \in DOMAIN replies' /\ replies'[i].by = replies[i].by /\ replies'[i].now = "done"
        /\ replies'[i].next = replies[i].next
        /\ replies'[i].bad = replies[i].bad /\ replies'[i].watched = replies[i].watched
    BY <2>1, <2>2, NowTurns DEF ReplyWrites
  <2>4. replies[i].next > Len(hooks')
    BY <1>2, <2>1 DEF ReplyWrites
  <2>5. QED
    BY <2>1, <2>3, <2>4 DEF Written
<1>5. QED
  BY <1>3, <1>4

LEMMA CheckedNext ==
  TypeOK /\ Marking /\ Handling /\ Looking /\ Written /\ Checked /\ Next => Checked'
<1>1. SUFFICES ASSUME TypeOK, Marking, Handling, Looking, Written, Checked, Next,
                      Clean', validated',
                      NEW i \in DOMAIN replies', replies'[i].bad, replies'[i].watched, routed'
               PROVE  "handler" \in reported'
  BY DEF Checked
<1>2. Grown /\ routed' = routed /\ reported \subseteq reported'
  BY <1>1, RepliesGrow, Standing
<1>3. replies \in Seq(Reply) /\ validated \in BOOLEAN /\ refused \in BOOLEAN
  BY <1>1 DEF TypeOK
<1>4. Clean
  BY <1>1, <1>2 DEF Clean, Grown, Onward
<1>5. ASSUME NEW k \in DOMAIN replies' \ DOMAIN replies PROVE replies = <<>> /\ ~validated /\ HandlerSends
  <2>1. HandlerSends
    BY <1>1, <1>2, <1>5 DEF Clean, Grown, Added
  <2>2. replies = <<>>
    BY <1>1, <1>3, <1>4, <2>1 DEF Clean, Handling, HandlerSends
  <2>3. QED
    BY <1>1, <2>1, <2>2 DEF Looking
<1>6. CASE validated
  <2>1. i \in DOMAIN replies
    BY <1>5, <1>6
  <2>2. replies[i].bad /\ replies[i].watched
    BY <1>1, <1>2, <2>1 DEF Grown, Onward
  <2>3. QED
    BY <1>1, <1>2, <1>4, <1>6, <2>1, <2>2 DEF Checked
<1>7. CASE ~validated
  <2>1. PICK j \in DOMAIN replies : ValidateResponse(j)
    BY <1>1, <1>3, <1>7 DEF Next, ValidateRequest, OnErrorSends, OnErrorReturns, OnErrorThrows, HandlerSends,
       HandlerFails, OnSend, Callback, ReplyWrites, OtherHook,
       OtherHookAnswers, ReportReturns, ReportThrows
  <2>2. i \in DOMAIN replies
    BY <1>5, <2>1
  <2>3. i = j /\ replies[j].by = "handler" /\ ~refused
    BY <1>1, <1>4, <2>1, <2>2 DEF Clean, Handling
  <2>4. FirstReply /\ InScope(replies[j]) /\ replies[j].bad
    BY <1>1, <1>2, <1>7, <2>2, <2>3 DEF FirstReply, InScope, RouteWasMatched, Grown, Onward
  <2>5. ~ReplySent
    <3>1. SUFFICES ASSUME ReplySent PROVE FALSE
      OBVIOUS
    <3>2. PICK k \in DOMAIN replies : replies[k].now = "done"
      BY <1>1, <3>1 DEF Written
    <3>3. k = j
      BY <1>1, <1>4, <2>3 DEF Clean, Handling
    <3>4. QED
      BY <2>1, <3>2, <3>3 DEF ValidateResponse, Ready
  <2>6. replies' \notin ReplySend("page", [replies EXCEPT ![j].now = "done"])
    <3>1. [replies EXCEPT ![j].now = "done"] \in Seq(Reply)
      BY <1>3, NowTurns
    <3>2. \A new \in ReplySend("page", [replies EXCEPT ![j].now = "done"]) :
            \E k \in DOMAIN new : new[k].by = "page"
      BY <2>5, <3>1 DEF ReplySend
    <3>3. QED
      BY <1>1, <3>2 DEF Clean
  <2>7. QED
    BY <2>1, <2>3, <2>4, <2>6 DEF ValidateResponse
<1>8. QED
  BY <1>3, <1>6, <1>7

HandlerInvariant == TypeOK /\ Marking /\ Handling /\ Looking /\ Written /\ Checked

(* A bad reply of the route handler is never written without a report, for
   every list of onSend hooks and also after an onError that only reported
   (validateRequests and validateResponses, REQUEST_REFUSED and VALIDATED). *)
THEOREM HandlerOutputCheckedAlways == Spec => []HandlerOutputChecked
<1>1. Init => HandlerInvariant
  <2>1. Init => Marking /\ Handling /\ Looking /\ Written /\ Checked
    BY DEF Init, Marking, Handling, Looking, Written, Checked, ReplySent
  <2>2. QED
    BY <2>1, TypeInit DEF HandlerInvariant
<1>2. HandlerInvariant /\ [Next]_vars => HandlerInvariant'
  <2>1. CASE Next
    BY <2>1, TypeNext, MarkingNext, HandlingNext, LookingNext, WrittenNext, CheckedNext DEF HandlerInvariant
  <2>2. CASE UNCHANGED vars
    BY <2>2 DEF vars, HandlerInvariant, TypeOK, Marking, Handling, Looking, Written, Checked, Clean, ReplySent
  <2>3. QED
    BY <2>1, <2>2
<1>3. HandlerInvariant => HandlerOutputChecked
  <2>1. SUFFICES ASSUME HandlerInvariant, wire.by = "handler", wire.bad, wire.watched, routed,
                        NEW h \in DOMAIN hooks, hooks[h] = "responses",
                        ~RefusalSent, \A i \in DOMAIN replies : replies[i].by # "page"
                 PROVE  "handler" \in reported
    BY DEF HandlerOutputChecked
  <2>2. replies \in Seq(Reply) /\ hooks \in Seq({"responses", "other"})
    BY <2>1, AppsAssumption DEF HandlerInvariant, TypeOK
  <2>3. Clean
    <3>1. ASSUME NEW i \in DOMAIN replies PROVE replies[i] \in Reply
      BY <2>2
    <3>2. QED
      BY <2>1, <3>1 DEF RefusalSent, Clean, Reply, Senders
  <2>4. ReplySent
    BY <2>1 DEF ReplySent, NoReply
  <2>5. PICK k \in DOMAIN replies :
          replies[k].next > Len(hooks) /\ replies[k].bad = wire.bad /\ replies[k].watched = wire.watched
    BY <2>1, <2>4 DEF HandlerInvariant, Written
  <2>6. h < replies[k].next
    <3>1. replies[k] \in Reply
      BY <2>2
    <3>2. QED
      BY <2>2, <2>5, <3>1 DEF Reply
  <2>7. QED
    BY <2>1, <2>3, <2>5, <2>6 DEF HandlerInvariant, Looking, Checked
<1>4. QED
  BY <1>1, <1>2, <1>3, PTL DEF Spec
=============================================================================
