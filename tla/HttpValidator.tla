--------------------------- MODULE HttpValidator ---------------------------
(***************************************************************************)
(* createValidator and combineValidators (validator/src/validator.ts and    *)
(* combine.ts): documents, each with a router and a cache of compiled       *)
(* operations that requests, lookups and precompile fill, behind one        *)
(* validator that sends each request to the member that owns its route.     *)
(* A Fetch message is read before it is validated, so other calls come in   *)
(* between.                                                                *)
(*                                                                         *)
(* An operation has a request schema and a response schema, each of which   *)
(* may be malformed; what a valid schema says of a body is left out, and so *)
(* are security, the path filters, and compiledCache, which spares work.    *)
(***************************************************************************)
EXTENDS Router, FetchBody

CONSTANTS
  Worlds,   \* [members, malformed, disjoint, requests], see below
  Requests, \* the requests there are: [method, path]
  Fetches,  \* those of them whose message may come from Fetch
  Sizes,    \* what a body may hold and a sender may declare
  Limits    \* maxTotalBytes: numbers, or Infinity

ASSUME ValidatorAssumption ==
  /\ Fetches \subseteq Requests
  /\ Sizes \subseteq Nat /\ Chunks \subseteq Nat /\ Limits \subseteq Nat \union {Infinity}
  /\ \A w \in Worlds : DOMAIN w.members \subseteq Nat /\ w.requests \subseteq Requests
  /\ \A w \in Worlds : \A r \in UNION Range(w.members) : \A s \in Range(r.segments) : Segmented(s)
  /\ \A q \in Requests : q.path \in Seq(Seq(DOMAIN Wire))

VARIABLES
  world,   \* fixed; members: the documents; malformed: [member, operation, side]
           \* of the malformed schemas; disjoint: onOverlap is "error"; requests:
           \* those that are made
  built,   \* "new", "ready" or "refused"
  cached,  \* operationCache: the operations memoized, [member, op]
  bodies,  \* of those, the ones whose response validator is memoized
  reads,   \* Fetch messages being read: [call, request, limit, read]
  last     \* the last call and what it answered

NoCall == [call |-> "none"]

caches == <<cached, bodies>>
vars == <<world, built, cached, bodies, reads, last>>

Members == DOMAIN world.members

Malformed(i, op, side) == [member |-> i, op |-> op, side |-> side] \in world.malformed
Entry(i, op) == [member |-> i, op |-> op]

(* combineValidators throws: two members, or two routes of one, share a route. *)
Overlap ==
  \E i, j \in Members : \E r \in world.members[i], s \in world.members[j] :
    <<i, r>> # <<j, s>> /\ Ambiguous(r, s)

Construct ==
  /\ built = "new"
  /\ built' = IF (\E i \in Members : RouterRefused(world.members[i])) \/ (world.disjoint /\ Overlap)
              THEN "refused" ELSE "ready"
  /\ UNCHANGED <<world, caches, reads, last>>

-----------------------------------------------------------------------------
(* Dispatch: each request with what the router of each member answers, and
   with the member it is sent to. *)

Documents == UNION {Range(w.members) : w \in Worlds}
Sorted == [doc \in Documents |-> SetToSortSeq(doc, Before)]

(* A template, taken for a path. *)
PatternPath(r) == [k \in DOMAIN r.segments |-> SegmentText(r.segments[k])]

Looked == Requests \union [method : Methods, path : {PatternPath(r) : r \in UNION Documents}]

Answers == [sorted \in Range(Sorted) |-> [q \in Looked |-> Answer(sorted, q.method, q.path)]]

Asked(w) ==
  {[method |-> q.method, path |-> q.path,
    answers |-> [i \in DOMAIN w.members |-> Answers[Sorted[w.members[i]]][q]]] : q \in w.requests}

Answering(q, kind) == {i \in DOMAIN q.answers : q.answers[i].kind = kind}

(* ownerFor: a match in any member wins over a path without the method. *)
Owners(q) ==
  IF Answering(q, "match") # {} THEN Answering(q, "match") ELSE Answering(q, "method-not-allowed")

(* validateRequest and validateResponse go to the first owner: a path without
   the method is refused by it, with its own methods and no other member's. *)
Dispatched(q) ==
  IF Owners(q) = {}
  THEN [method |-> q.method, path |-> q.path, kind |-> "no-match", allowed |-> {}]
  ELSE LET i == CHOOSE j \in Owners(q) : \A k \in Owners(q) : j <= k
       IN  [method |-> q.method, path |-> q.path, kind |-> q.answers[i].kind, member |-> i,
            op |-> Operation(q.answers[i].route, q.method), allowed |-> q.answers[i].allowed]

(* matchRoute of the composite: of a path without the method it gives the
   methods of every member that has the path. *)
Routed(q) ==
  [method |-> q.method, path |-> q.path, kind |-> Dispatched(q).kind,
   allowed |-> UNION {q.answers[k].allowed : k \in Owners(q)}]

Dispatches == [w \in Worlds |-> {Dispatched(q) : q \in Asked(w)}]
Routings == [w \in Worlds |-> {Routed(q) : q \in Asked(w)}]

Matched(d) == d.kind = "match"

-----------------------------------------------------------------------------
(* Calls. *)

(* cacheFor builds the operation's request side once, and throws, memoizing
   nothing, when a schema of it is malformed. *)
Builds(i, op) == Entry(i, op) \in cached \/ ~Malformed(i, op, "request")

CacheFor(i, op) == cached' = IF Builds(i, op) THEN cached \union {Entry(i, op)} ELSE cached

Called(call, d, kind) == last' = [call |-> call, request |-> d, kind |-> kind]

(* validateRequest, of a composite or of a single validator. *)
Validate(call, d) ==
  /\ \/ ~Matched(d) /\ Called(call, d, d.kind) /\ UNCHANGED cached
     \/ /\ Matched(d) /\ CacheFor(d.member, d.op)
        /\ Called(call, d, IF Builds(d.member, d.op) THEN "validated" ELSE "throws")
  /\ UNCHANGED bodies

(* validateResponse: the response schema compiles on first use. *)
Checks(i, op) == Entry(i, op) \in bodies \/ ~Malformed(i, op, "response")

ValidateAnswer(call, d) ==
  \/ ~Matched(d) /\ Called(call, d, d.kind) /\ UNCHANGED caches
  \/ /\ Matched(d) /\ CacheFor(d.member, d.op)
     /\ LET validates == Builds(d.member, d.op) /\ Checks(d.member, d.op)
        IN  /\ bodies' = IF validates THEN bodies \union {Entry(d.member, d.op)} ELSE bodies
            /\ Called(call, d, IF validates THEN "validated" ELSE "throws")

ValidateRequest(d) ==
  /\ built = "ready"
  /\ Validate("request", d)
  /\ UNCHANGED <<world, built, reads>>

ValidateResponse(d) ==
  /\ built = "ready"
  /\ ValidateAnswer("response", d)
  /\ UNCHANGED <<world, built, reads>>

(* getOperation warms the cache of the member that matches. *)
GetOperation(d) ==
  /\ built = "ready"
  /\ \/ ~Matched(d) /\ Called("lookup", d, "none") /\ UNCHANGED cached
     \/ /\ Matched(d) /\ CacheFor(d.member, d.op)
        /\ Called("lookup", d, IF Builds(d.member, d.op) THEN "found" ELSE "throws")
  /\ UNCHANGED <<world, built, bodies, reads>>

(* matchRoute asks the routers, and compiles nothing. *)
MatchRoute(d) ==
  /\ built = "ready"
  /\ Called("route", d, d.kind)
  /\ UNCHANGED <<world, built, caches, reads>>

-----------------------------------------------------------------------------
(* validateFetchRequest and validateFetchResponse, of a message to or from
   the operation.  One body is read at a time: a bound. *)

Fetching == {"fetch", "fetch response"}

Fetched(call, d) == IF call = "fetch" THEN Validate(call, d) ELSE ValidateAnswer(call, d)

FetchStart(call, d, media, size, declared, limit) ==
  /\ built = "ready" /\ reads = {}
  /\ IF call = "fetch" /\ d.method \in Bodyless THEN Validate(call, d) /\ UNCHANGED reads
     ELSE IF DeclaredTooLarge(declared, limit)
       THEN Called(call, d, "too-large") /\ UNCHANGED <<caches, reads>>
     ELSE /\ reads' = {[call |-> call, request |-> d, limit |-> limit, read |-> NewRead(media, size)]}
          /\ last' = NoCall /\ UNCHANGED caches
  /\ UNCHANGED <<world, built>>

FetchChunk(f, n) ==
  /\ f.read.over = 0 /\ f.read.seen + n <= f.read.size
  /\ reads' = (reads \ {f}) \union {[f EXCEPT !.read = Transformed(@, n, f.limit)]}
  /\ UNCHANGED <<world, built, caches, last>>

(* The parser answers: at the end of the body, after the counter failed the
   stream, or, "broken", after the sender did. *)
FetchParsed(f, broken) ==
  /\ broken => f.read.over = 0 /\ f.read.seen < f.read.size
  /\ f.read.over > 0 \/ broken \/ f.read.seen = f.read.size
  /\ reads' = reads \ {f}
  /\ \E outcome \in ParserOutcomes(f.read, f.read.over > 0 \/ broken) :
       /\ broken => outcome # "value"
       /\ \/ Settled(f.read, outcome) = "value" /\ Fetched(f.call, f.request)
          \/ /\ Settled(f.read, outcome) # "value"
             /\ Called(f.call, f.request, Settled(f.read, outcome)) /\ UNCHANGED caches
  /\ UNCHANGED <<world, built>>

-----------------------------------------------------------------------------
(* precompile, of a member: the operation of each declared route is looked
   up by its template, taken for a path. *)

(* routes(): in the order of the router and of the methods. *)
RouteList(sorted) ==
  FlattenSeq([k \in DOMAIN sorted |->
                SetToSeq({[route |-> sorted[k], method |-> m] : m \in sorted[k].methods})])

PrecompileTarget(a, method) == IF a.kind = "match" THEN {Operation(a.route, method)} ELSE {}

(* The operations a precompile comes to, in order; a route may have none. *)
Targets ==
  [sorted \in Range(Sorted) |->
     LET routes == RouteList(sorted)
         looked(op) == [method |-> op.method, path |-> PatternPath(op.route)]
     IN  [k \in DOMAIN routes |->
            PrecompileTarget(Answers[sorted][looked(routes[k])], routes[k].method)]]

Fails(i, op) == Malformed(i, op, "request") \/ Malformed(i, op, "response")

(* Mutant: what could be built of an operation is memoized. *)
CleanAlways(i, op) == TRUE

(* collect: an operation whose request side failed is not memoized. *)
Clean(i, op) == ~Malformed(i, op, "request")

(* It reaches the first operation that throws, or all of them to collect. *)
Precompile(i, collect) ==
  /\ built = "ready" /\ reads = {}
  /\ \E targets \in {Targets[Sorted[world.members[i]]]} :
       LET failing == {k \in DOMAIN targets : \E op \in targets[k] : Fails(i, op)}
           reached == {k \in DOMAIN targets : collect \/ \A j \in failing : k <= j}
           clean == {op \in UNION {targets[k] : k \in reached} : Clean(i, op)}
       IN  /\ cached' = cached \union {Entry(i, op) : op \in clean}
           /\ bodies' = bodies \union {Entry(i, op) : op \in {o \in clean : ~Malformed(i, o, "response")}}
           /\ last' = [call |-> IF collect THEN "collect" ELSE "precompile", member |-> i,
                       kind |-> IF failing = {} THEN "returns" ELSE "throws"]
  /\ UNCHANGED <<world, built, reads>>

-----------------------------------------------------------------------------
Init ==
  /\ world \in Worlds
  /\ built = "new" /\ cached = {} /\ bodies = {} /\ reads = {} /\ last = NoCall

FromFetch == {d \in Dispatches[world] : [method |-> d.method, path |-> d.path] \in Fetches}

Next ==
  \/ Construct
  \/ \E d \in Dispatches[world] : ValidateRequest(d) \/ ValidateResponse(d) \/ GetOperation(d)
  \/ \E d \in Routings[world] : MatchRoute(d)
  \/ \E call \in Fetching, d \in FromFetch, media \in Media, size \in Sizes,
        declared \in Sizes \union {-1}, limit \in Limits :
       FetchStart(call, d, media, size, declared, limit)
  \/ \E f \in reads : \E n \in Chunks : FetchChunk(f, n)
  \/ \E f \in reads : \E broken \in BOOLEAN : FetchParsed(f, broken)
  \/ \E i \in Members, collect \in BOOLEAN : Precompile(i, collect)

Spec == Init /\ [][Next]_vars

-----------------------------------------------------------------------------
(* Properties. *)

CompoundSegments ==
  {s \in UNION {Range(r.segments) : r \in UNION Range(world.members)} : Kind(s) = "compound"}

(* Where each parameter of a segment could end in a text, for a regular
   expression that is anchored and takes at least a character for each. *)
Fits(s, text) ==
  LET n == Len(s.names)
      literals == [i \in 1 .. n + 1 |-> Literal(s, i)]
      stops(i) == {end \in 0 .. Len(text) : OccursAt(text, literals[i + 1], end)}
      start(ends, i) == Len(literals[i]) + (IF i = 1 THEN 0 ELSE ends[i - 1])
  IN  {ends \in [1 .. n -> UNION {stops(i) : i \in 1 .. n}] :
         /\ OccursAt(text, literals[1], 0)
         /\ \A i \in 1 .. n : ends[i] \in stops(i) /\ start(ends, i) < ends[i]
         /\ ends[n] + Len(literals[n + 1]) = Len(text)}

(* The scan that replaced a regular expression captures what that expression,
   lazy and anchored, would have captured, and matches where it would have:
   matchCompound never backtracks, and must not need to. *)
CapturesAreLazy ==
  last.call = "request" =>
    \A s \in CompoundSegments, token \in Range(last.request.path) :
      LET text == Decoded(token)
          fits == Fits(s, text)
          scan == Scan(s, text)
          ends == [i \in DOMAIN s.names |-> scan.spans[i][2]]
      IN  /\ scan.ok <=> (fits # {})
          /\ fits # {} =>
               /\ ends \in fits
               /\ \A other \in fits \ {ends} : \E i \in DOMAIN ends : LessAt(ends, other, i)

(* The wire text given with a capture is the run of the token that decodes to
   the capture; there is none exactly when no run does, a capture that starts
   or ends between two surrogates of one escape (matchCompound, wireOffsets). *)
WireCapturesDecode ==
  last.call = "request" =>
    \A s \in CompoundSegments, token \in Range(last.request.path) :
      LET scan == Scan(s, Decoded(token))
          before(k) == Len(Decoded(SubSeq(token, 1, k)))
          runs(span) == {jk \in (0 .. Len(token)) \X (0 .. Len(token)) :
                           before(jk[1]) = span[1] /\ before(jk[2]) = span[2]}
      IN  Range(token) \subseteq DOMAIN Stands /\ scan.ok =>
            \A i \in DOMAIN s.names :
              LET span == scan.spans[i]
              IN  Range(RawCapture(token, span)) =
                    {WireText(SubSeq(token, run[1] + 1, run[2])) : run \in runs(span)}

(* A request is refused, or routed nowhere, only when no member has an operation
   for it, and for its method whenever some member has the path.  The methods
   named are exactly those that would be answered, HEAD for a GET included: by
   any member when matchRoute is asked, by the first member that has the path
   when a request is refused, as that one refuses it alone (ownerFor). *)
AllowedIsHonest ==
  last.call \in {"request", "route"} /\ ~Matched(last.request) =>
    LET having == {i \in Members :
                     \E r \in Range(Sorted[world.members[i]]) : Matches(r, last.request.path)}
        telling == IF last.call = "route" THEN having ELSE {i \in having : \A j \in having : i <= j}
    IN  /\ last.kind = "method-not-allowed" <=> having # {}
        /\ \A q \in Asked(world) : q.path = last.request.path =>
             /\ q.method = last.request.method => Answering(q, "match") = {}
             /\ q.method \in last.request.allowed <=> telling \cap Answering(q, "match") # {}

Separated(r, s) ==
  {q.path : q \in {p \in Requests : Matches(r, p.path)}} #
  {q.path : q \in {p \in Requests : Matches(s, p.path)}}

(* No two routes of a document that is accepted, and with onOverlap "error" no
   two of any members, take the same requests for a method: one of them would
   never be reached, and which one hangs on how the templates are spelt. *)
CollisionsRefused ==
  built = "ready" /\ last = NoCall /\ caches = <<{}, {}>> /\ reads = {} =>
    \A i, j \in Members : (i = j \/ world.disjoint) =>
      \A r \in world.members[i], s \in world.members[j] :
        <<i, r>> # <<j, s>> /\ Declares(r) \cap Declares(s) # {} => Separated(r, s)

(* What a validator just built would answer, of a message it could read. *)
Checking == {"response", "fetch response"}

Fresh(call, d) ==
  CASE ~Matched(d) -> IF call = "lookup" THEN "none" ELSE d.kind
    [] Matched(d) /\ (\/ Malformed(d.member, d.op, "request")
                      \/ call \in Checking /\ Malformed(d.member, d.op, "response")) -> "throws"
    [] OTHER -> IF call = "lookup" THEN "found" ELSE "validated"

Unread == {"too-large", "malformed", "failed"}

(* The caches never show: whatever requests, responses, lookups and precompiles
   came before, a call answers as it would first.  A malformed operation that
   precompile collected throws on every request, and is never served without
   the schema that failed. *)
CachesNeverShow ==
  last.call \in {"request", "response", "lookup"} \union Fetching /\ last.kind \notin Unread =>
    last.kind = Fresh(last.call, last.request)

(* A Fetch message is validated only with a body that was read to its end and
   within the limit, and the limit, once passed, is what is reported, whatever
   the parser made of the part it got (readBody). *)
BodyIsWhole ==
  [][\A f \in reads :
       reads' = {} =>
         /\ last'.kind = "too-large" <=> (Counts(f.limit) /\ f.read.seen > f.limit)
         /\ last'.kind \notin Unread =>
              f.read.taken = f.read.size]_vars

(* "Compile every operation's schemas up front": once precompile has returned,
   every operation the document declares is memoized. *)
PrecompileCovers ==
  last.call = "precompile" /\ last.kind = "returns" =>
    \A r \in world.members[last.member], m \in Methods :
      m \in r.methods => Entry(last.member, Operation(r, m)) \in cached
=============================================================================
