------------------------- MODULE HttpValidatorProofs -------------------------
(***************************************************************************)
(* The caches of HttpValidator and the bodies it reads, for all documents,  *)
(* malformed schemas, requests, bodies and limits, and however calls are    *)
(* mixed with precompiles and reads; whom a method belongs to; and what a   *)
(* compound segment captures, for all segments, tokens and escapes.         *)
(***************************************************************************)
EXTENDS HttpValidator, WellFoundedInduction, SequenceTheorems, TLAPS

(* What is memoized of an operation compiled. *)
SoundCaches ==
  /\ \A e \in cached : ~Malformed(e.member, e.op, "request")
  /\ \A e \in bodies : ~Malformed(e.member, e.op, "response")

LEMMA EntryOf ==
  ASSUME NEW i, NEW op PROVE Entry(i, op).member = i /\ Entry(i, op).op = op
  BY DEF Entry

(* On sound caches an operation is served exactly when its schemas compile. *)
LEMMA ServedIsWellFormed ==
  ASSUME SoundCaches, NEW i, NEW op
  PROVE  /\ Builds(i, op) <=> ~Malformed(i, op, "request")
         /\ Checks(i, op) <=> ~Malformed(i, op, "response")
  BY EntryOf DEF SoundCaches, Builds, Checks

LEMMA CachedFor ==
  ASSUME SoundCaches, NEW i, NEW op, CacheFor(i, op), world' = world
  PROVE  \A e \in cached' : ~Malformed(e.member, e.op, "request")
<1>1. CASE Builds(i, op)
  BY <1>1, EntryOf, ServedIsWellFormed DEF CacheFor, SoundCaches
<1>2. CASE ~Builds(i, op)
  BY <1>2 DEF CacheFor, SoundCaches
<1>3. QED
  BY <1>1, <1>2

LEMMA WorldStays == ASSUME [Next]_vars PROVE world' = world
  BY DEF Next, vars, Construct, ValidateRequest, ValidateResponse, GetOperation, MatchRoute, FetchStart,
         FetchChunk, FetchParsed, Precompile

LEMMA ValidateCaches ==
  ASSUME SoundCaches, NEW call, NEW d, Validate(call, d), world' = world
  PROVE  /\ \A e \in cached' : ~Malformed(e.member, e.op, "request")
         /\ \A e \in bodies' : ~Malformed(e.member, e.op, "response")
  BY CachedFor DEF Validate, SoundCaches

LEMMA ValidateAnswerCaches ==
  ASSUME SoundCaches, NEW call, NEW d, ValidateAnswer(call, d), world' = world
  PROVE  /\ \A e \in cached' : ~Malformed(e.member, e.op, "request")
         /\ \A e \in bodies' : ~Malformed(e.member, e.op, "response")
<1>1. CASE ~Matched(d)
  BY <1>1 DEF ValidateAnswer, SoundCaches, caches
<1>2. CASE Matched(d)
  BY <1>2, CachedFor, EntryOf, ServedIsWellFormed DEF ValidateAnswer, SoundCaches
<1>3. QED
  BY <1>1, <1>2

LEMMA SoundCachesNext == SoundCaches /\ [Next]_vars => SoundCaches'
<1>1. SUFFICES ASSUME SoundCaches, [Next]_vars PROVE SoundCaches'
  OBVIOUS
<1>2. world' = world
  BY <1>1, WorldStays
<1>3. ASSUME NEW i, NEW op, NEW side PROVE Malformed(i, op, side)' = Malformed(i, op, side)
  BY <1>2 DEF Malformed
<1>4. SUFFICES /\ \A e \in cached' : ~Malformed(e.member, e.op, "request")
               /\ \A e \in bodies' : ~Malformed(e.member, e.op, "response")
  BY <1>3 DEF SoundCaches, Malformed
<1>5. ASSUME NEW d, ValidateRequest(d)
      PROVE  /\ \A e \in cached' : ~Malformed(e.member, e.op, "request")
             /\ \A e \in bodies' : ~Malformed(e.member, e.op, "response")
  BY <1>1, <1>2, <1>5, ValidateCaches DEF ValidateRequest
<1>6. ASSUME NEW d, ValidateResponse(d)
      PROVE  /\ \A e \in cached' : ~Malformed(e.member, e.op, "request")
             /\ \A e \in bodies' : ~Malformed(e.member, e.op, "response")
  BY <1>1, <1>2, <1>6, ValidateAnswerCaches DEF ValidateResponse
<1>7. ASSUME NEW d, GetOperation(d)
      PROVE  /\ \A e \in cached' : ~Malformed(e.member, e.op, "request")
             /\ \A e \in bodies' : ~Malformed(e.member, e.op, "response")
  BY <1>1, <1>2, <1>7, CachedFor DEF GetOperation, SoundCaches
<1>8. ASSUME NEW call, NEW d, NEW media, NEW size, NEW declared, NEW limit,
             FetchStart(call, d, media, size, declared, limit)
      PROVE  /\ \A e \in cached' : ~Malformed(e.member, e.op, "request")
             /\ \A e \in bodies' : ~Malformed(e.member, e.op, "response")
  BY <1>1, <1>2, <1>8, ValidateCaches DEF FetchStart, SoundCaches, caches
<1>9. ASSUME NEW f, NEW broken, FetchParsed(f, broken)
      PROVE  /\ \A e \in cached' : ~Malformed(e.member, e.op, "request")
             /\ \A e \in bodies' : ~Malformed(e.member, e.op, "response")
  BY <1>1, <1>2, <1>9, ValidateCaches, ValidateAnswerCaches DEF FetchParsed, Fetched, SoundCaches, caches
<1>10. ASSUME NEW i, NEW collect, Precompile(i, collect)
       PROVE  /\ \A e \in cached' : ~Malformed(e.member, e.op, "request")
              /\ \A e \in bodies' : ~Malformed(e.member, e.op, "response")
  <2>1. PICK clean : /\ \A op \in clean : Clean(i, op)
                     /\ cached' = cached \union {Entry(i, op) : op \in clean}
                     /\ bodies' = bodies \union {Entry(i, op) : op \in {o \in clean : ~Malformed(i, o, "response")}}
    BY <1>10 DEF Precompile
  <2>2. QED
    BY <1>1, <2>1, EntryOf DEF SoundCaches, Clean
<1>11. CASE Construct \/ (\E f \in reads : \E n \in Chunks : FetchChunk(f, n)) \/ UNCHANGED vars
  BY <1>1, <1>11 DEF Construct, FetchChunk, vars, caches, SoundCaches
<1>12. ASSUME NEW d, MatchRoute(d) PROVE cached' = cached /\ bodies' = bodies
  BY <1>12 DEF MatchRoute, caches
<1>13. QED
  BY <1>1, <1>5, <1>6, <1>7, <1>8, <1>9, <1>10, <1>11, <1>12 DEF Next, SoundCaches

-----------------------------------------------------------------------------
(* The cases of Fresh. *)
LEMMA FreshIs ==
  ASSUME NEW call, NEW d
  PROVE  /\ ~Matched(d) => Fresh(call, d) = IF call = "lookup" THEN "none" ELSE d.kind
         /\ Matched(d) /\ Malformed(d.member, d.op, "request") => Fresh(call, d) = "throws"
         /\ Matched(d) /\ call \in Checking /\ Malformed(d.member, d.op, "response")
              => Fresh(call, d) = "throws"
         /\ Matched(d) /\ ~Malformed(d.member, d.op, "request") /\ call \notin Checking
              => Fresh(call, d) = IF call = "lookup" THEN "found" ELSE "validated"
         /\ (/\ Matched(d) /\ ~Malformed(d.member, d.op, "request")
             /\ ~Malformed(d.member, d.op, "response"))
              => Fresh(call, d) = IF call = "lookup" THEN "found" ELSE "validated"
  BY DEF Fresh

LEMMA ValidateAnswers ==
  ASSUME SoundCaches, NEW call \in {"request", "fetch"}, NEW d, Validate(call, d)
  PROVE  last'.call = call /\ last'.request = d /\ last'.kind = Fresh(call, d)
<1>1. CASE Matched(d)
  <2>1. last' = [call |-> call, request |-> d,
                 kind |-> IF Builds(d.member, d.op) THEN "validated" ELSE "throws"]
    BY <1>1 DEF Validate, Called
  <2>2. call \notin Checking /\ call # "lookup"
    BY DEF Checking
  <2>3. CASE Builds(d.member, d.op)
    BY <1>1, <2>1, <2>2, <2>3, ServedIsWellFormed, FreshIs
  <2>4. CASE ~Builds(d.member, d.op)
    BY <1>1, <2>1, <2>2, <2>4, ServedIsWellFormed, FreshIs
  <2>5. QED
    BY <2>3, <2>4
<1>2. CASE ~Matched(d)
  BY <1>2, FreshIs DEF Validate, Called
<1>3. QED
  BY <1>1, <1>2

LEMMA ValidateAnswerAnswers ==
  ASSUME SoundCaches, NEW call \in Checking, NEW d, ValidateAnswer(call, d)
  PROVE  last'.call = call /\ last'.request = d /\ last'.kind = Fresh(call, d)
<1>1. CASE Matched(d)
  <2>1. last' = [call |-> call, request |-> d,
                 kind |-> IF Builds(d.member, d.op) /\ Checks(d.member, d.op)
                          THEN "validated" ELSE "throws"]
    BY <1>1 DEF ValidateAnswer, Called
  <2>2. call # "lookup"
    BY DEF Checking
  <2>3. CASE Builds(d.member, d.op) /\ Checks(d.member, d.op)
    BY <1>1, <2>1, <2>2, <2>3, ServedIsWellFormed, FreshIs
  <2>4. CASE ~(Builds(d.member, d.op) /\ Checks(d.member, d.op))
    BY <1>1, <2>1, <2>2, <2>4, ServedIsWellFormed, FreshIs
  <2>5. QED
    BY <2>3, <2>4
<1>2. CASE ~Matched(d)
  <2>1. last' = [call |-> call, request |-> d, kind |-> d.kind]
    BY <1>2 DEF ValidateAnswer, Called
  <2>2. call # "lookup"
    BY DEF Checking
  <2>3. QED
    BY <1>2, <2>1, <2>2, FreshIs
<1>3. QED
  BY <1>1, <1>2

LEMMA FetchedAnswers ==
  ASSUME SoundCaches, NEW call \in Fetching, NEW d, Fetched(call, d)
  PROVE  last'.call = call /\ last'.request = d /\ last'.kind = Fresh(call, d)
  BY ValidateAnswers, ValidateAnswerAnswers DEF Fetched, Fetching, Checking

(* A read counts what came through, and fails the stream past the limit. *)
Counted(f) ==
  /\ f.call \in Fetching
  /\ f.limit \in Limits
  /\ f.read.size \in Nat /\ f.read.seen \in Nat /\ f.read.over \in Nat
  /\ f.read.over > 0 <=> Counts(f.limit) /\ f.read.seen > f.limit
  /\ f.read.over = 0 => f.read.taken = f.read.seen

(* What a message being read is matched to. *)
ReadsCounted == \A f \in reads : Counted(f) /\ f.request \in Dispatches[world]

LEMMA AnswersNext == SoundCaches /\ ReadsCounted /\ CachesNeverShow /\ [Next]_vars => CachesNeverShow'
<1>1. SUFFICES ASSUME SoundCaches, ReadsCounted, CachesNeverShow, [Next]_vars PROVE CachesNeverShow'
  OBVIOUS
<1>2. SUFFICES ASSUME last'.call \in {"request", "response", "lookup"} \union Fetching,
                      last'.kind \notin Unread
               PROVE  last'.kind = Fresh(last'.call, last'.request)
  BY <1>1, WorldStays DEF CachesNeverShow, Fresh, Malformed, Matched
<1>3. CASE last' = last
  BY <1>1, <1>2, <1>3 DEF CachesNeverShow
<1>4. ASSUME NEW d, ValidateRequest(d) PROVE last'.kind = Fresh(last'.call, last'.request)
  BY <1>1, <1>4, ValidateAnswers DEF ValidateRequest
<1>5. ASSUME NEW d, ValidateResponse(d) PROVE last'.kind = Fresh(last'.call, last'.request)
  BY <1>1, <1>5, ValidateAnswerAnswers DEF ValidateResponse, Checking
<1>6. ASSUME NEW d, GetOperation(d) PROVE last'.kind = Fresh(last'.call, last'.request)
  <2>1. CASE Matched(d)
    <3>1. last' = [call |-> "lookup", request |-> d,
                   kind |-> IF Builds(d.member, d.op) THEN "found" ELSE "throws"]
      BY <1>6, <2>1 DEF GetOperation, Called
    <3>2. "lookup" \notin Checking
      BY DEF Checking
    <3>3. CASE Builds(d.member, d.op)
      BY <1>1, <2>1, <3>1, <3>2, <3>3, ServedIsWellFormed, FreshIs
    <3>4. CASE ~Builds(d.member, d.op)
      BY <1>1, <2>1, <3>1, <3>2, <3>4, ServedIsWellFormed, FreshIs
    <3>5. QED
      BY <3>3, <3>4
  <2>2. CASE ~Matched(d)
    BY <1>6, <2>2, FreshIs DEF GetOperation, Called
  <2>3. QED
    BY <2>1, <2>2
<1>7. ASSUME NEW call, NEW d, NEW media, NEW size, NEW declared, NEW limit,
             FetchStart(call, d, media, size, declared, limit)
      PROVE  last'.kind = Fresh(last'.call, last'.request)
  <2>1. CASE call = "fetch" /\ Validate(call, d)
    BY <1>1, <2>1, ValidateAnswers
  <2>2. CASE Called(call, d, "too-large")
    BY <1>2, <2>2 DEF Called, Unread
  <2>3. CASE last' = NoCall
    BY <1>2, <2>3 DEF NoCall, Fetching
  <2>4. QED
    BY <1>7, <2>1, <2>2, <2>3 DEF FetchStart
<1>8. ASSUME NEW f \in reads, NEW broken, FetchParsed(f, broken)
      PROVE  last'.kind = Fresh(last'.call, last'.request)
  <2>1. CASE Fetched(f.call, f.request)
    BY <1>1, <2>1, FetchedAnswers DEF ReadsCounted, Counted
  <2>2. ASSUME NEW outcome \in ParserOutcomes(f.read, f.read.over > 0 \/ broken),
               Settled(f.read, outcome) # "value", Called(f.call, f.request, Settled(f.read, outcome))
        PROVE  last'.kind \in Unread
    BY <2>2 DEF ParserOutcomes, Settled, Called, Unread
  <2>3. QED
    BY <1>2, <1>8, <2>1, <2>2 DEF FetchParsed
<1>9. ASSUME NEW i, NEW collect, Precompile(i, collect) PROVE last'.call \in {"collect", "precompile"}
  BY <1>9 DEF Precompile
<1>10. CASE Construct \/ (\E f \in reads : \E n \in Chunks : FetchChunk(f, n)) \/ UNCHANGED vars
  BY <1>3, <1>10 DEF Construct, FetchChunk, vars
<1>11. ASSUME NEW d, MatchRoute(d) PROVE last'.call = "route"
  BY <1>11 DEF MatchRoute, Called
<1>12. QED
  BY <1>1, <1>2, <1>4, <1>5, <1>6, <1>7, <1>8, <1>9, <1>10, <1>11 DEF Next, Fetching

-----------------------------------------------------------------------------
LEMMA ReadsCountedNext == world \in Worlds /\ ReadsCounted /\ [Next]_vars => ReadsCounted'
<1>1. SUFFICES ASSUME ReadsCounted, [Next]_vars PROVE ReadsCounted'
  OBVIOUS
<1>2. world' = world
  BY <1>1, WorldStays
<1>3. SUFFICES \A f \in reads' : Counted(f) /\ f.request \in Dispatches[world]
  BY <1>2 DEF ReadsCounted
<1>4. CASE UNCHANGED reads
  BY <1>1, <1>4 DEF ReadsCounted
<1>5. ASSUME NEW call \in Fetching, NEW d \in FromFetch, NEW media \in Media, NEW size \in Sizes,
             NEW declared \in Sizes \union {-1}, NEW limit \in Limits,
             FetchStart(call, d, media, size, declared, limit)
      PROVE  \A f \in reads' : Counted(f) /\ f.request \in Dispatches[world]
  <2>1. CASE reads' = reads
    BY <1>4, <2>1
  <2>2. CASE reads' = {[call |-> call, request |-> d, limit |-> limit, read |-> NewRead(media, size)]}
    BY <1>5, <2>2, ValidatorAssumption DEF Counted, Counts, NewRead, FromFetch
  <2>3. QED
    BY <1>5, <2>1, <2>2 DEF FetchStart
<1>6. ASSUME NEW f \in reads, NEW n \in Chunks, FetchChunk(f, n)
      PROVE  \A g \in reads' : Counted(g) /\ g.request \in Dispatches[world]
  <2>1. n \in Nat /\ (f.limit = Infinity \/ f.limit \in Nat) /\ Counted(f)
    BY <1>1, ValidatorAssumption DEF ReadsCounted, Counted
  <2>2. PICK g : g = [f EXCEPT !.read = Transformed(f.read, n, f.limit)]
    OBVIOUS
  <2>3. Counted(g) /\ g.request \in Dispatches[world]
    BY <1>1, <1>6, <2>1, <2>2 DEF ReadsCounted, Counted, Counts, Transformed, FetchChunk
  <2>4. QED
    BY <1>1, <1>6, <2>2, <2>3 DEF FetchChunk, ReadsCounted
<1>7. ASSUME NEW f, NEW broken, FetchParsed(f, broken) PROVE reads' \subseteq reads
  BY <1>7 DEF FetchParsed
<1>8. QED
  BY <1>1, <1>4, <1>5, <1>6, <1>7 DEF Next, Construct, ValidateRequest, ValidateResponse, GetOperation,
     MatchRoute, Precompile, vars, ReadsCounted
LEMMA ReadsCountedInit == Init => ReadsCounted /\ world \in Worlds
  BY DEF Init, ReadsCounted

LEMMA WorldsNext == world \in Worlds /\ [Next]_vars => (world \in Worlds)'
  BY WorldStays

(* A request some member takes is sent to the first that does (ownerFor). *)
LEMMA OwnerTaken ==
  ASSUME NEW w \in Worlds, NEW q \in Asked(w), Owners(q) # {}
  PROVE  \E i \in Owners(q) : /\ \A k \in Owners(q) : i <= k
                              /\ Dispatched(q).kind = q.answers[i].kind
                              /\ Dispatched(q).allowed = q.answers[i].allowed
<1>1. Owners(q) \subseteq Nat
  <2>1. DOMAIN q.answers = DOMAIN w.members
    BY DEF Asked
  <2>2. QED
    BY <2>1, ValidatorAssumption DEF Owners, Answering
<1>2. \E i \in Owners(q) : \A k \in Owners(q) : ~(<<k, i>> \in OpToRel(<, Nat))
  BY <1>1, NatLessThanWellFounded, WFMin
<1>3. PICK i \in Owners(q) : \A k \in Owners(q) : i <= k
  <2>1. ASSUME NEW k \in Nat, NEW i \in Nat, ~(<<k, i>> \in OpToRel(<, Nat)) PROVE i <= k
    BY <2>1 DEF OpToRel
  <2>2. QED
    BY <1>1, <1>2, <2>1
<1>4. PICK j : j = CHOOSE k \in Owners(q) : \A l \in Owners(q) : k <= l
  OBVIOUS
<1>5. j \in Owners(q) /\ \A k \in Owners(q) : j <= k
  BY <1>3, <1>4
<1>6. Dispatched(q).kind = q.answers[j].kind /\ Dispatched(q).allowed = q.answers[j].allowed
  BY <1>4, <1>3 DEF Dispatched
<1>7. QED
  BY <1>5, <1>6

(* Every request is answered with one of three kinds (ownerFor, matchRoute). *)
LEMMA OwnersDecide ==
  ASSUME NEW w \in Worlds, NEW d \in Dispatches[w]
  PROVE  d.kind \in {"match", "method-not-allowed", "no-match"}
<1>1. PICK q \in Asked(w) : d = Dispatched(q)
  BY DEF Dispatches
<1>2. CASE Owners(q) = {}
  BY <1>1, <1>2 DEF Dispatched
<1>3. CASE Owners(q) # {}
  BY <1>1, <1>3, OwnerTaken DEF Owners, Answering
<1>4. QED
  BY <1>2, <1>3

(* Whatever requests, lookups, Fetch messages and precompiles came before, a call is answered
   as a validator just built would answer it, for all documents (cacheFor,
   getResponseValidator, precompile). *)
THEOREM CachesNeverShowAlways == Spec => []CachesNeverShow
<1>1. Init => SoundCaches /\ CachesNeverShow
  BY DEF Init, SoundCaches, CachesNeverShow, NoCall, Fetching
<1>2. QED
  BY <1>1, ReadsCountedInit, WorldsNext, SoundCachesNext, ReadsCountedNext, AnswersNext, PTL DEF Spec

-----------------------------------------------------------------------------
(* A message that was read is answered with what its dispatch, the check of its
   operation or the reader says, and validated only at its end. *)
LEMMA ReadIsWhole ==
  ASSUME world \in Worlds, ReadsCounted, NEW f \in reads, NEW broken \in BOOLEAN, FetchParsed(f, broken)
  PROVE  /\ last'.kind = "too-large" <=> Counts(f.limit) /\ f.read.seen > f.limit
         /\ last'.kind \notin Unread => f.read.taken = f.read.size
<1>1. Counted(f) /\ f.request.kind \in {"match", "method-not-allowed", "no-match"}
  BY OwnersDecide DEF ReadsCounted
<1>2. PICK outcome \in ParserOutcomes(f.read, f.read.over > 0 \/ broken) :
        /\ broken => outcome # "value"
        /\ \/ Settled(f.read, outcome) = "value" /\ Fetched(f.call, f.request)
           \/ /\ Settled(f.read, outcome) # "value"
              /\ Called(f.call, f.request, Settled(f.read, outcome))
  BY DEF FetchParsed
<1>3. CASE f.read.over > 0
  BY <1>1, <1>2, <1>3 DEF Settled, Called, Counted, Unread
<1>4. CASE ~(f.read.over > 0) /\ Settled(f.read, outcome) # "value"
  <2>1. last'.kind = outcome /\ outcome \in {"malformed", "failed"}
    BY <1>2, <1>4 DEF Settled, Called, ParserOutcomes
  <2>2. QED
    BY <1>1, <1>4, <2>1 DEF Counted, Unread
<1>5. CASE ~(f.read.over > 0) /\ Settled(f.read, outcome) = "value"
  <2>1. ~broken /\ f.read.seen = f.read.size
    BY <1>2, <1>5 DEF Settled, FetchParsed
  <2>2. f.read.taken = f.read.size /\ ~(Counts(f.limit) /\ f.read.seen > f.limit)
    BY <1>1, <1>5, <2>1 DEF Counted
  <2>3. last'.kind \in {"match", "method-not-allowed", "no-match", "validated", "throws"}
    BY <1>1, <1>2, <1>5 DEF Fetched, Validate, ValidateAnswer, Called
  <2>4. QED
    BY <2>2, <2>3 DEF Unread
<1>6. QED
  BY <1>3, <1>4, <1>5

(* A Fetch message is validated only with its whole body, and past the limit is
   always reported as that, for all bodies, chunks, limits and documents,
   whatever the platform's parsers do with a stream that fails (readBody). *)
THEOREM BodyIsWholeAlways == Spec => BodyIsWhole
<1>1. ASSUME world \in Worlds, ReadsCounted, [Next]_vars, NEW f \in reads, reads' = {}
      PROVE  /\ last'.kind = "too-large" <=> (Counts(f.limit) /\ f.read.seen > f.limit)
             /\ last'.kind \notin Unread => f.read.taken = f.read.size
  <2>1. CASE \E g \in reads : \E broken \in BOOLEAN : FetchParsed(g, broken)
    <3>1. PICK g \in reads, broken \in BOOLEAN : FetchParsed(g, broken)
      BY <2>1
    <3>2. f = g
      BY <1>1, <3>1 DEF FetchParsed
    <3>3. QED
      BY <1>1, <3>1, <3>2, ReadIsWhole
  <2>2. CASE reads' = reads \/ reads = {}
    BY <1>1, <2>2
  <2>3. ASSUME NEW g, NEW n, FetchChunk(g, n) PROVE reads' # {}
    BY <2>3 DEF FetchChunk
  <2>4. ASSUME NEW call, NEW d, NEW media, NEW size, NEW declared, NEW limit,
               FetchStart(call, d, media, size, declared, limit)
        PROVE  reads = {}
    BY <2>4 DEF FetchStart
  <2>5. QED
    BY <1>1, <2>1, <2>2, <2>3, <2>4 DEF Next, Construct, ValidateRequest, ValidateResponse, GetOperation,
       MatchRoute, Precompile, vars
<1>2. world \in Worlds /\ ReadsCounted /\ [Next]_vars =>
        [\A f \in reads :
           reads' = {} =>
             /\ last'.kind = "too-large" <=> (Counts(f.limit) /\ f.read.seen > f.limit)
             /\ last'.kind \notin Unread =>
                  f.read.taken = f.read.size]_vars
  BY <1>1
<1>3. QED
  BY <1>2, ReadsCountedInit, ReadsCountedNext, WorldsNext, PTL DEF Spec, BodyIsWhole

-----------------------------------------------------------------------------
(* Whom a method belongs to: what a route serves is what it declares. *)
LEMMA ServesDeclares ==
  ASSUME NEW r, NEW method PROVE Serves(r, method) <=> method \in Declares(r)
  BY DEF Serves, Declares

(* The routes of a list that have the path. *)
Structural(sorted, path) == {sorted[k] : k \in {n \in DOMAIN sorted : Matches(sorted[n], path)}}

LEMMA AnswerIs ==
  ASSUME NEW sorted, NEW method, NEW path
  PROVE  LET a == Answer(sorted, method, path) IN
         /\ a.kind = "match" <=> \E r \in Structural(sorted, path) : method \in Declares(r)
         /\ a.kind = "no-match" <=> Structural(sorted, path) = {}
         /\ a.kind \in {"match", "method-not-allowed", "no-match"}
         /\ a.kind = "method-not-allowed" =>
              a.allowed = UNION {Declares(r) : r \in Structural(sorted, path)}
<1> DEFINE structural == {i \in DOMAIN sorted : Matches(sorted[i], path)}
           serving == {i \in structural : Serves(sorted[i], method)}
<1>1. structural = {} <=> Structural(sorted, path) = {}
  BY DEF Structural
<1>2. serving # {} <=> \E r \in Structural(sorted, path) : method \in Declares(r)
  BY ServesDeclares DEF Structural
<1>3. UNION {Declares(sorted[i]) : i \in structural} = UNION {Declares(r) : r \in Structural(sorted, path)}
  BY DEF Structural
<1>4. serving # {} => structural # {}
  OBVIOUS
<1>5. Answer(sorted, method, path) =
        IF serving # {} THEN [kind |-> "match", route |-> First(sorted, serving), allowed |-> {}]
        ELSE IF structural # {}
          THEN [kind |-> "method-not-allowed", route |-> First(sorted, structural),
                allowed |-> UNION {Declares(sorted[i]) : i \in structural}]
        ELSE [kind |-> "no-match", route |-> {}, allowed |-> {}]
  BY DEF Answer
<1> HIDE DEF structural, serving
<1>6. QED
  BY <1>1, <1>2, <1>3, <1>4, <1>5

(* What is asked of a member. *)
LEMMA MemberAnswers ==
  ASSUME NEW w \in Worlds, NEW q \in Asked(w), NEW i \in DOMAIN w.members
  PROVE  /\ DOMAIN q.answers = DOMAIN w.members
         /\ q.answers[i] = Answer(Sorted[w.members[i]], q.method, q.path)
<1>1. PICK p \in w.requests :
        q = [method |-> p.method, path |-> p.path,
             answers |-> [j \in DOMAIN w.members |-> Answers[Sorted[w.members[j]]][p]]]
  BY DEF Asked
<1>2. p \in Looked
  BY ValidatorAssumption DEF Looked
<1>3. w.members[i] \in DOMAIN Sorted
  BY DEF Sorted, Documents, Range
<1>4. Sorted[w.members[i]] \in Range(Sorted)
  BY <1>3 DEF Range
<1>5. QED
  BY <1>1, <1>2, <1>4 DEF Answers

(* The members that have the path, and what a member declares there. *)
Having(w, path) ==
  {i \in DOMAIN w.members : \E r \in Range(Sorted[w.members[i]]) : Matches(r, path)}

DeclaredAt(w, i, path) == UNION {Declares(r) : r \in Structural(Sorted[w.members[i]], path)}

(* The members' answers, by what they declare. *)
LEMMA AnswersAre ==
  ASSUME NEW w \in Worlds, NEW q \in Asked(w), NEW i \in DOMAIN w.members
  PROVE  /\ i \in Answering(q, "match") <=> q.method \in DeclaredAt(w, i, q.path)
         /\ i \in Answering(q, "no-match") <=> i \notin Having(w, q.path)
         /\ q.answers[i].kind \in {"match", "method-not-allowed", "no-match"}
         /\ i \in Answering(q, "method-not-allowed") =>
              q.answers[i].allowed = DeclaredAt(w, i, q.path)
<1>1. DOMAIN q.answers = DOMAIN w.members
  BY DEF Asked
<1>2. q.answers[i] = Answer(Sorted[w.members[i]], q.method, q.path)
  BY MemberAnswers
<1>3. Structural(Sorted[w.members[i]], q.path) # {} <=> i \in Having(w, q.path)
  BY DEF Structural, Having, Range
<1>4. QED
  BY <1>1, <1>2, <1>3, AnswerIs DEF Answering, DeclaredAt

(* Who owns a request, and what each member of them would be allowed. *)
LEMMA OwnersAre ==
  ASSUME NEW w \in Worlds, NEW q \in Asked(w), Answering(q, "match") = {}
  PROVE  /\ Owners(q) = Having(w, q.path)
         /\ \A i \in Owners(q) : /\ q.answers[i].kind = "method-not-allowed"
                                 /\ q.answers[i].allowed = DeclaredAt(w, i, q.path)
<1>1. Owners(q) = Answering(q, "method-not-allowed")
  BY DEF Owners
<1>2. DOMAIN q.answers = DOMAIN w.members
  BY DEF Asked
<1>3. \A i \in DOMAIN w.members : q.answers[i].kind = "method-not-allowed" <=> i \in Having(w, q.path)
  BY <1>2, AnswersAre DEF Answering
<1>4. Owners(q) = Having(w, q.path)
  BY <1>1, <1>2, <1>3 DEF Answering, Having
<1>5. ASSUME NEW i \in Owners(q)
      PROVE  q.answers[i].kind = "method-not-allowed" /\ q.answers[i].allowed = DeclaredAt(w, i, q.path)
  <2>1. i \in DOMAIN w.members /\ i \in Answering(q, "method-not-allowed")
    BY <1>1, <1>2, <1>5 DEF Answering
  <2>2. QED
    BY <2>1, AnswersAre DEF Answering
<1>6. QED
  BY <1>4, <1>5

(* What validateRequest and matchRoute are told of a request, by the members
   that have its path. *)
LEMMA DispatchedIs ==
  ASSUME NEW w \in Worlds, NEW q \in Asked(w)
  PROVE  /\ Dispatched(q).method = q.method /\ Dispatched(q).path = q.path
         /\ Routed(q).method = q.method /\ Routed(q).path = q.path
         /\ Routed(q).kind = Dispatched(q).kind
         /\ Matched(Dispatched(q)) <=> Answering(q, "match") # {}
<1>1. Dispatched(q).method = q.method /\ Dispatched(q).path = q.path
  BY DEF Dispatched
<1>2. Routed(q).method = q.method /\ Routed(q).path = q.path /\ Routed(q).kind = Dispatched(q).kind
  BY DEF Routed
<1>3. CASE Answering(q, "match") # {}
  BY <1>1, <1>2, <1>3, OwnerTaken DEF Owners, Answering, Matched
<1>4. CASE Answering(q, "match") = {} /\ Owners(q) = {}
  <2>1. Dispatched(q).kind = "no-match"
    BY <1>4 DEF Dispatched
  <2>2. QED
    BY <1>1, <1>2, <1>4, <2>1 DEF Matched
<1>5. CASE Answering(q, "match") = {} /\ Owners(q) # {}
  <2>1. Dispatched(q).kind = "method-not-allowed"
    BY <1>5, OwnerTaken, OwnersAre
  <2>2. QED
    BY <1>1, <1>2, <1>5, <2>1 DEF Matched
<1>6. QED
  BY <1>1, <1>2, <1>3, <1>4, <1>5

(* A path without the method: one member tells, or all that have it. *)
FirstOfAll(S) == {i \in S : \A j \in S : i <= j}

LEMMA RefusedBy ==
  ASSUME NEW w \in Worlds, NEW q \in Asked(w), Answering(q, "match") = {}
  PROVE  LET having == Having(w, q.path) IN
         /\ Dispatched(q).kind = "method-not-allowed" <=> having # {}
         /\ Dispatched(q).allowed = UNION {DeclaredAt(w, i, q.path) : i \in FirstOfAll(having)}
         /\ Routed(q).allowed = UNION {DeclaredAt(w, i, q.path) : i \in having}
<1>1. Owners(q) = Having(w, q.path)
  BY OwnersAre
<1>2. \A i \in Owners(q) : /\ q.answers[i].kind = "method-not-allowed"
                          /\ q.answers[i].allowed = DeclaredAt(w, i, q.path)
  BY OwnersAre
<1>3. Routed(q).allowed = UNION {DeclaredAt(w, i, q.path) : i \in Owners(q)}
  BY <1>2 DEF Routed
<1>4. CASE Owners(q) = {}
  BY <1>1, <1>3, <1>4 DEF Dispatched, FirstOfAll
<1>5. CASE Owners(q) # {}
  <2>1. PICK i \in Owners(q) : /\ \A k \in Owners(q) : i <= k
                              /\ Dispatched(q).kind = q.answers[i].kind
                              /\ Dispatched(q).allowed = q.answers[i].allowed
    BY <1>5, OwnerTaken
  <2>2. \A k \in Owners(q) : k \in Nat
    BY <1>1, ValidatorAssumption DEF Having
  <2>3. FirstOfAll(Owners(q)) = {i}
    BY <2>1, <2>2 DEF FirstOfAll
  <2>4. Dispatched(q).allowed = DeclaredAt(w, i, q.path) /\ Dispatched(q).kind = "method-not-allowed"
    BY <1>2, <2>1
  <2>5. QED
    BY <1>1, <1>3, <1>5, <2>3, <2>4
<1>6. QED
  BY <1>4, <1>5

(* A request that was not matched has its answer from the dispatch, or, of
   matchRoute, from the routing. *)
Answered ==
  /\ last.call = "request" /\ ~Matched(last.request) =>
       last.request \in Dispatches[world] /\ last.kind = last.request.kind
  /\ last.call = "route" => last.request \in Routings[world] /\ last.kind = last.request.kind

LEMMA CalledAs ==
  ASSUME NEW call, NEW d, Validate(call, d) \/ ValidateAnswer(call, d)
  PROVE  last'.call = call
<1>1. PICK kind : Called(call, d, kind)
  BY DEF Validate, ValidateAnswer
<1>2. QED
  BY <1>1 DEF Called

(* Only validateRequest answers a request, and only matchRoute routes one. *)
LEMMA OthersCall ==
  ASSUME ReadsCounted, [Next]_vars, last' # last
  PROVE  /\ last'.call = "request" => \E d \in Dispatches[world] : ValidateRequest(d)
         /\ last'.call = "route" => \E d \in Routings[world] : MatchRoute(d)
<1> DEFINE other == last'.call # "request" /\ last'.call # "route"
<1>1. ASSUME NEW d, ValidateResponse(d) \/ GetOperation(d) PROVE other
  BY <1>1 DEF ValidateResponse, ValidateAnswer, GetOperation, Called
<1>2. ASSUME NEW call \in Fetching, NEW d, NEW media, NEW size, NEW declared, NEW limit,
             FetchStart(call, d, media, size, declared, limit)
      PROVE  other
  <2>1. \/ Validate(call, d)
        \/ last' = [call |-> call, request |-> d, kind |-> "too-large"]
        \/ last' = NoCall
    BY <1>2 DEF FetchStart, Called
  <2>2. last'.call \in {call, "none"}
    BY <2>1, CalledAs DEF NoCall
  <2>3. QED
    BY <2>2 DEF Fetching
<1>3. ASSUME NEW i, NEW collect, Precompile(i, collect) PROVE other
  <2>1. last'.call \in {"collect", "precompile"}
    BY <1>3 DEF Precompile
  <2>2. QED
    BY <2>1
<1>4. ASSUME NEW f \in reads, NEW broken, FetchParsed(f, broken) PROVE other
  <2>1. f.call \in Fetching
    BY DEF ReadsCounted, Counted
  <2>2. \/ Validate(f.call, f.request) \/ ValidateAnswer(f.call, f.request)
        \/ \E kind : last' = [call |-> f.call, request |-> f.request, kind |-> kind]
    BY <1>4 DEF FetchParsed, Fetched, Called
  <2>3. last'.call = f.call
    BY <2>2, CalledAs
  <2>4. QED
    BY <2>1, <2>3 DEF Fetching
<1>5. ASSUME NEW d, ValidateRequest(d) PROVE last'.call = "request"
  BY <1>5, CalledAs DEF ValidateRequest
<1>6. ASSUME NEW d, MatchRoute(d) PROVE last'.call = "route"
  BY <1>6 DEF MatchRoute, Called
<1> HIDE DEF other
<1>7. \/ \E d \in Dispatches[world] : ValidateRequest(d)
      \/ \E d \in Routings[world] : MatchRoute(d)
      \/ other
  BY <1>1, <1>2, <1>3, <1>4 DEF Next, Construct, FetchChunk, vars
<1>8. QED
  BY <1>5, <1>6, <1>7 DEF other

LEMMA AnsweredNext == ReadsCounted /\ Answered /\ [Next]_vars => Answered'
<1>1. SUFFICES ASSUME ReadsCounted, Answered, [Next]_vars PROVE Answered'
  OBVIOUS
<1>2. world' = world
  BY <1>1, WorldStays
<1>3. CASE last' = last
  BY <1>1, <1>2, <1>3 DEF Answered, Matched
<1>4. ASSUME last' # last, last'.call = "request", ~Matched(last'.request)
      PROVE  last'.request \in Dispatches[world] /\ last'.kind = last'.request.kind
  <2>1. PICK d \in Dispatches[world] : ValidateRequest(d)
    BY <1>1, <1>4, OthersCall
  <2>2. QED
    BY <1>4, <2>1 DEF ValidateRequest, Validate, Called
<1>5. ASSUME last' # last, last'.call = "route"
      PROVE  last'.request \in Routings[world] /\ last'.kind = last'.request.kind
  <2>1. PICK d \in Routings[world] : MatchRoute(d)
    BY <1>1, <1>5, OthersCall
  <2>2. QED
    BY <2>1 DEF MatchRoute, Called
<1>6. QED
  BY <1>2, <1>3, <1>4, <1>5 DEF Answered, Matched

(* A request is refused for its method only when no member has an operation
   for it.  The methods named are exactly those that would be answered: by the
   first member that has the path when validateRequest refuses, by any member
   when matchRoute is asked, for all documents, members, templates and requests
   (match, ownerFor, matchRoute). *)
THEOREM AllowedIsHonestAlways == Spec => []AllowedIsHonest
<1>1. Init => Answered
  BY DEF Init, Answered, NoCall
<1>2. world \in Worlds /\ Answered => AllowedIsHonest
  <2> SUFFICES ASSUME world \in Worlds, Answered, last.call \in {"request", "route"}, ~Matched(last.request)
               PROVE  AllowedIsHonest
    BY DEF AllowedIsHonest
  <2> DEFINE having == Having(world, last.request.path)
             telling == IF last.call = "route" THEN having ELSE FirstOfAll(having)
  <2>1. PICK p \in Asked(world) : last.request = IF last.call = "route" THEN Routed(p) ELSE Dispatched(p)
    BY DEF Answered, Dispatches, Routings
  <2>2. last.kind = last.request.kind
    BY DEF Answered
  <2>3. last.request.method = p.method /\ last.request.path = p.path /\ last.kind = Dispatched(p).kind
    BY <2>1, <2>2, DispatchedIs
  <2>4. Answering(p, "match") = {}
    BY <2>1, <2>2, <2>3, DispatchedIs DEF Matched
  <2>5. last.kind = "method-not-allowed" <=> having # {}
    BY <2>3, <2>4, RefusedBy
  <2>6. last.request.allowed = UNION {DeclaredAt(world, i, p.path) : i \in telling}
    BY <2>1, <2>3, <2>4, RefusedBy
  <2>7. telling \subseteq DOMAIN world.members
    BY DEF Having, FirstOfAll
  <2>8. ASSUME NEW q \in Asked(world), q.path = last.request.path
        PROVE  /\ q.method = last.request.method => Answering(q, "match") = {}
               /\ q.method \in last.request.allowed <=> telling \cap Answering(q, "match") # {}
    <3>1. q.path = p.path
      BY <2>3, <2>8
    <3>2. \A i \in DOMAIN world.members :
            /\ i \in Answering(q, "match") <=> q.method \in DeclaredAt(world, i, p.path)
            /\ i \in Answering(p, "match") <=> p.method \in DeclaredAt(world, i, p.path)
      BY <3>1, AnswersAre
    <3>3. Answering(q, "match") \subseteq DOMAIN world.members
      BY DEF Answering, Asked
    <3>4. QED
      BY <2>3, <2>4, <2>6, <2>7, <3>2, <3>3
  <2>9. QED
    BY <2>5, <2>8 DEF AllowedIsHonest, Having, FirstOfAll, Members
<1>3. QED
  BY <1>1, <1>2, ReadsCountedInit, WorldsNext, ReadsCountedNext, AnsweredNext, PTL DEF Spec

-----------------------------------------------------------------------------
(* Folds over 1 .. n, step by step, and sequences put together. *)

(* A property of the first natural numbers that each hands on to the next. *)
LEMMA Climbs ==
  ASSUME NEW n \in Nat, NEW P \in SUBSET Nat, 0 \in P,
         \A i \in Nat : i < n /\ i \in P => i + 1 \in P
  PROVE  \A i \in 0 .. n : i \in P
<1>1. SUFFICES ASSUME NEW bad \in 0 .. n, bad \notin P PROVE FALSE
  OBVIOUS
<1> DEFINE T == {i \in 0 .. n : i \notin P}
<1>2. PICK m \in T : \A i \in T : ~(<<i, m>> \in OpToRel(<, Nat))
  <2>1. T \subseteq Nat /\ T # {}
    BY <1>1
  <2>2. QED
    BY <2>1, NatLessThanWellFounded, WFMin
<1>3. m # 0 /\ m \in Nat
  OBVIOUS
<1>4. <<m - 1, m>> \in OpToRel(<, Nat)
  BY <1>3 DEF OpToRel
<1>5. m - 1 \in 0 .. n /\ m - 1 < n
  BY <1>3
<1>6. m - 1 \in P
  BY <1>2, <1>4, <1>5
<1>7. (m - 1) + 1 = m /\ m \notin P
  BY <1>3
<1>8. QED
  BY <1>5, <1>6, <1>7

(* The order a fold over 1 .. n takes its elements in: the greatest is last. *)
LEMMA MaxIs ==
  ASSUME NEW n \in Nat, NEW z \in SUBSET (1 .. n + 1)
  PROVE  n + 1 \in z => Max(z) = n + 1
<1>1. SUFFICES ASSUME n + 1 \in z PROVE Max(z) = n + 1
  OBVIOUS
<1>2. \A x \in z : (\A y \in z : x >= y) <=> x = n + 1
  BY <1>1
<1>3. QED
  BY <1>1, <1>2 DEF Max

LEMMA MaxOf ==
  ASSUME NEW n \in Nat, NEW z \in SUBSET (1 .. n), z # {}
  PROVE  Max(z) \in z /\ \A y \in z : Max(z) >= y
<1> DEFINE P == {k \in Nat : \A y \in SUBSET (1 .. k) : y # {} => \E x \in y : \A w \in y : x >= w}
<1>1. 0 \in P
  <2>1. \A y \in SUBSET (1 .. 0) : y = {}
    OBVIOUS
  <2>2. QED
    BY <2>1
<1>2. \A k \in Nat : k < n /\ k \in P => k + 1 \in P
  <2>1. SUFFICES ASSUME NEW k \in Nat, k \in P, NEW y \in SUBSET (1 .. k + 1), y # {}
                 PROVE  \E x \in y : \A w \in y : x >= w
    OBVIOUS
  <2>2. CASE k + 1 \in y
    BY <2>1, <2>2
  <2>3. CASE k + 1 \notin y
    <3>1. y \in SUBSET (1 .. k)
      BY <2>1, <2>3
    <3>2. QED
      BY <2>1, <3>1
  <2>4. QED
    BY <2>2, <2>3
<1>3. n \in P
  <2> HIDE DEF P
  <2>1. P \in SUBSET Nat
    BY DEF P
  <2>2. QED
    BY <1>1, <1>2, <2>1, Climbs
<1>4. QED
  BY <1>3 DEF Max

(* The value of a fold over each part of 1 .. n, by an operation given as a function. *)
Folding(it, n, base, op) ==
  it = [z \in SUBSET (1 .. n) |-> IF z = {} THEN base ELSE op[<<it[z \ {Max(z)}], Max(z)>>]]

(* There is such a function: a fold is what its step says it is. *)
LEMMA FoldingExists ==
  ASSUME NEW n \in Nat, NEW A, NEW base \in A, NEW op \in [A \X (1 .. n) -> A]
  PROVE  \E it \in [SUBSET (1 .. n) -> A] : Folding(it, n, base, op)
<1> DEFINE Q(k) == \E it \in [SUBSET (1 .. k) -> A] : Folding(it, k, base, op)
           P == {k \in Nat : k <= n => Q(k)}
<1>1. 0 \in P
  <2> DEFINE it == [z \in SUBSET (1 .. 0) |-> base]
  <2>1. it \in [SUBSET (1 .. 0) -> A] /\ Folding(it, 0, base, op)
    BY DEF Folding
  <2>2. Q(0)
    BY <2>1
  <2> HIDE DEF Q
  <2>3. QED
    BY <2>2
<1>2. \A k \in Nat : k < n /\ Q(k) => Q(k + 1)
  <2>1. SUFFICES ASSUME NEW k \in Nat, k < n, Q(k)
                 PROVE  \E it \in [SUBSET (1 .. k + 1) -> A] : Folding(it, k + 1, base, op)
    OBVIOUS
  <2>2. PICK f \in [SUBSET (1 .. k) -> A] : Folding(f, k, base, op)
    BY <2>1
  <2> DEFINE it == [z \in SUBSET (1 .. k + 1) |->
                      IF k + 1 \in z THEN op[<<f[z \ {k + 1}], k + 1>>] ELSE f[z]]
  <2>3. \A z \in SUBSET (1 .. k + 1) : z \ {k + 1} \in SUBSET (1 .. k)
    OBVIOUS
  <2>4. it \in [SUBSET (1 .. k + 1) -> A]
    <3>1. SUFFICES ASSUME NEW z \in SUBSET (1 .. k + 1)
                   PROVE  (IF k + 1 \in z THEN op[<<f[z \ {k + 1}], k + 1>>] ELSE f[z]) \in A
      OBVIOUS
    <3>2. CASE k + 1 \in z
      <4>1. f[z \ {k + 1}] \in A
        BY <2>3
      <4>2. <<f[z \ {k + 1}], k + 1>> \in A \X (1 .. n)
        BY <2>1, <4>1
      <4>3. QED
        BY <3>2, <4>2
    <3>3. CASE k + 1 \notin z
      BY <3>3, <2>3
    <3>4. QED
      BY <3>2, <3>3
  <2>5. ASSUME NEW z \in SUBSET (1 .. k + 1)
        PROVE  it[z] = IF z = {} THEN base ELSE op[<<it[z \ {Max(z)}], Max(z)>>]
    <3>1. CASE k + 1 \in z
      <4>1. Max(z) = k + 1
        BY <3>1, MaxIs
      <4>2. it[z \ {k + 1}] = f[z \ {k + 1}]
        BY <2>3
      <4>3. it[z] = op[<<f[z \ {k + 1}], k + 1>>]
        BY <3>1
      <4>4. QED
        BY <3>1, <4>1, <4>2, <4>3
    <3>2. CASE k + 1 \notin z
      <4>1. z \in SUBSET (1 .. k)
        BY <3>2
      <4>2. it[z] = f[z]
        BY <3>2
      <4>3. f[z] = IF z = {} THEN base ELSE op[<<f[z \ {Max(z)}], Max(z)>>]
        BY <2>2, <4>1 DEF Folding
      <4>4. it[z \ {Max(z)}] = f[z \ {Max(z)}]
        BY <3>2
      <4>5. QED
        BY <4>2, <4>3, <4>4
    <3>3. QED
      BY <3>1, <3>2
  <2>6. Folding(it, k + 1, base, op)
    <3>1. it = [z \in SUBSET (1 .. k + 1) |-> it[z]]
      OBVIOUS
    <3> HIDE DEF it
    <3>2. QED
      BY <2>5, <3>1 DEF Folding
  <2>7. QED
    BY <2>4, <2>6
<1>3. Q(n)
  <2> HIDE DEF Q
  <2>1. P \in SUBSET Nat /\ \A k \in Nat : k < n /\ k \in P => k + 1 \in P
    BY <1>2
  <2>2. n \in P
    <3> HIDE DEF P
    <3>1. QED
      BY <1>1, <2>1, Climbs
  <2>3. QED
    BY <2>2
<1>4. QED
  BY <1>3

(* A fold over the first i comes to i last. *)
LEMMA Initial ==
  ASSUME NEW n \in Nat, NEW i \in 1 .. n
  PROVE  /\ 1 .. i \in SUBSET (1 .. n) /\ 1 .. i # {}
         /\ Max(1 .. i) = i /\ (1 .. i) \ {Max(1 .. i)} = 1 .. i - 1
<1>1. \A x \in 1 .. i : (\A y \in 1 .. i : x >= y) <=> x = i
  OBVIOUS
<1>2. Max(1 .. i) = i
  BY <1>1 DEF Max
<1>3. QED
  BY <1>2

(* The values of a fold, step by step. *)
Stepping(g, n, A, base, op) ==
  /\ g \in [0 .. n -> A]
  /\ g[0] = base
  /\ \A i \in 1 .. n : g[i] = op[<<g[i - 1], i>>]

LEMMA FoldSteps ==
  ASSUME NEW n \in Nat, NEW A, NEW base \in A, NEW op \in [A \X (1 .. n) -> A]
  PROVE  \E g : Stepping(g, n, A, base, op)
<1>1. PICK it \in [SUBSET (1 .. n) -> A] : Folding(it, n, base, op)
  BY FoldingExists
<1> DEFINE g == [i \in 0 .. n |-> it[1 .. i]]
<1>2. \A i \in 0 .. n : 1 .. i \in SUBSET (1 .. n)
  OBVIOUS
<1>3. g \in [0 .. n -> A]
  BY <1>2
<1>4. g[0] = base
  <2>1. 1 .. 0 = {}
    OBVIOUS
  <2>2. QED
    BY <1>1, <1>2, <2>1 DEF Folding
<1>5. ASSUME NEW i \in 1 .. n PROVE g[i] = op[<<g[i - 1], i>>]
  <2>3. \A z \in SUBSET (1 .. n) : it[z] = IF z = {} THEN base ELSE op[<<it[z \ {Max(z)}], Max(z)>>]
    BY <1>1 DEF Folding
  <2>4. it[1 .. i] = op[<<it[1 .. i - 1], i>>]
    <3>1. it[1 .. i] = op[<<it[(1 .. i) \ {Max(1 .. i)}], Max(1 .. i)>>]
      BY <2>3, Initial
    <3>2. QED
      BY <3>1, Initial
  <2>5. g[i] = it[1 .. i] /\ g[i - 1] = it[1 .. i - 1]
    OBVIOUS
  <2>6. QED
    BY <2>4, <2>5
<1>6. Stepping(g, n, A, base, op)
  <2> HIDE DEF g
  <2>1. QED
    BY <1>3, <1>4, <1>5 DEF Stepping
<1>7. QED
  BY <1>6

(* FlattenSeq is what puts its parts together one by one. *)
LEMMA FlattenBy ==
  ASSUME NEW T, NEW s \in Seq(Seq(T)), NEW f \in [0 .. Len(s) -> Seq(T)], f[0] = <<>>,
         \A i \in 1 .. Len(s) : f[i] = f[i - 1] \o s[i]
  PROVE  FlattenSeq(s) = f[Len(s)]
<1>1. CASE Len(s) = 0
  BY <1>1 DEF FlattenSeq
<1>2. CASE Len(s) # 0
  <2> DEFINE F(h) == [i \in 1 .. Len(s) |-> IF i = 1 THEN s[i] ELSE h[i - 1] \o s[i]]
             e == [i \in 1 .. Len(s) |-> f[i]]
             c == CHOOSE h : h = F(h)
  <2>1. FlattenSeq(s) = c[Len(s)]
    BY <1>2 DEF FlattenSeq
  <2>2. e = F(e)
    <3>1. ASSUME NEW i \in 1 .. Len(s) PROVE e[i] = F(e)[i]
      <4>1. CASE i = 1
        <5>1. f[1] = f[1 - 1] \o s[1]
          BY <4>1
        <5>2. f[1 - 1] = <<>> /\ s[1] \in Seq(T)
          BY <4>1
        <5>3. <<>> \o s[1] = s[1]
          BY <5>2, ConcatEmptySeq
        <5>4. QED
          BY <4>1, <5>1, <5>2, <5>3
      <4>2. CASE i # 1
        <5>1. i - 1 \in 1 .. Len(s)
          BY <4>2
        <5>2. QED
          BY <4>2, <5>1
      <4>3. QED
        BY <4>1, <4>2
    <3>2. QED
      BY <3>1
  <2>3. c = F(c)
    <3> HIDE DEF F, e
    <3>1. QED
      BY <2>2
  <2> DEFINE Q(i) == i + 1 \in 1 .. Len(s) => c[i + 1] = f[i + 1]
  <2>4. Q(0)
    <3>1. 1 \in 1 .. Len(s)
      BY <1>2
    <3>2. F(c)[1] = s[1] /\ F(e)[1] = s[1] /\ e[1] = f[1]
      BY <3>1
    <3>3. c[1] = s[1] /\ f[1] = s[1]
      <4> HIDE DEF c, F, e
      <4>1. QED
        BY <2>2, <2>3, <3>2
    <3>4. QED
      BY <3>3
  <2>5. ASSUME NEW i \in Nat, i < Len(s), Q(i) PROVE Q(i + 1)
    <3>1. SUFFICES ASSUME i + 2 \in 1 .. Len(s) PROVE c[i + 2] = f[i + 2]
      BY (i + 1) + 1 = i + 2
    <3>2. i + 1 \in 1 .. Len(s) /\ (i + 2) - 1 = i + 1 /\ i + 2 # 1
      BY <3>1
    <3>3. F(c)[i + 2] = c[(i + 2) - 1] \o s[i + 2]
      <4> HIDE DEF c
      <4>1. QED
        BY <3>1, <3>2
    <3>4. f[i + 2] = f[(i + 2) - 1] \o s[i + 2]
      BY <3>1
    <3>5. c[i + 1] = f[i + 1]
      BY <2>5, <3>2
    <3>6. QED
      <4> HIDE DEF c, F
      <4>1. QED
        BY <2>3, <3>2, <3>3, <3>4, <3>5
  <2>6. Q(Len(s) - 1)
    <3> DEFINE P == {i \in Nat : Q(i)}
    <3> HIDE DEF Q
    <3>1. /\ P \in SUBSET Nat /\ Len(s) \in Nat /\ Len(s) - 1 \in 0 .. Len(s)
          /\ 0 \in P /\ \A i \in Nat : i < Len(s) /\ i \in P => i + 1 \in P
      BY <1>2, <2>4, <2>5
    <3>2. Len(s) - 1 \in P
      <4> HIDE DEF P
      <4>1. QED
        BY <3>1, Climbs
    <3>3. QED
      BY <3>2
  <2>7. (Len(s) - 1) + 1 = Len(s) /\ Len(s) \in 1 .. Len(s)
    BY <1>2
  <2>8. c[Len(s)] = f[Len(s)]
    <3> HIDE DEF c
    <3>1. QED
      BY <2>6, <2>7
  <2>9. QED
    BY <2>1, <2>8
<1>3. QED
  BY <1>1, <1>2

(* The first k parts of a sequence of sequences, put together. *)
Upto(s, k) == FlattenSeq(SubSeq(s, 1, k))

LEMMA FlattenSteps ==
  ASSUME NEW T, NEW s \in Seq(Seq(T))
  PROVE  \E f \in [0 .. Len(s) -> Seq(T)] :
           /\ f[0] = <<>> /\ \A i \in 1 .. Len(s) : f[i] = f[i - 1] \o s[i]
           /\ \A k \in 0 .. Len(s) : Upto(s, k) = f[k]
           /\ FlattenSeq(s) = f[Len(s)]
<1> DEFINE op == [p \in Seq(T) \X (1 .. Len(s)) |-> p[1] \o s[p[2]]]
<1>1. op \in [Seq(T) \X (1 .. Len(s)) -> Seq(T)]
  <2>1. ASSUME NEW p \in Seq(T) \X (1 .. Len(s)) PROVE p[1] \o s[p[2]] \in Seq(T)
    <3>1. p[1] \in Seq(T) /\ s[p[2]] \in Seq(T)
      OBVIOUS
    <3>2. QED
      BY <3>1, ConcatProperties
  <2>2. QED
    BY <2>1
<1>2. Len(s) \in Nat /\ <<>> \in Seq(T)
  OBVIOUS
<1>3. PICK f : Stepping(f, Len(s), Seq(T), <<>>, op)
  <2> HIDE DEF op
  <2>1. QED
    BY <1>1, <1>2, FoldSteps
<1>4. ASSUME NEW i \in 1 .. Len(s) PROVE f[i] = f[i - 1] \o s[i]
  <2>1. f[i - 1] \in Seq(T)
    <3>1. i - 1 \in 0 .. Len(s)
      OBVIOUS
    <3> HIDE DEF op
    <3>2. QED
      BY <1>3, <3>1 DEF Stepping
  <2>2. f[i] = op[<<f[i - 1], i>>]
    <3> HIDE DEF op
    <3>1. QED
      BY <1>3 DEF Stepping
  <2>3. QED
    BY <2>1, <2>2
<1>5. ASSUME NEW k \in 0 .. Len(s) PROVE Upto(s, k) = f[k]
  <2> DEFINE r == SubSeq(s, 1, k)
             g == [i \in 0 .. k |-> f[i]]
  <2>1. r \in Seq(Seq(T)) /\ Len(r) = k /\ \A i \in 1 .. k : r[i] = s[i]
    BY SubSeqProperties
  <2>2. g \in [0 .. Len(r) -> Seq(T)] /\ g[0] = <<>>
    BY <2>1, <1>3 DEF Stepping
  <2>3. ASSUME NEW i \in 1 .. Len(r) PROVE g[i] = g[i - 1] \o r[i]
    <3>1. i \in 1 .. k /\ i \in 1 .. Len(s) /\ i - 1 \in 0 .. k /\ i \in 0 .. k
      BY <2>1
    <3>2. g[i] = f[i] /\ g[i - 1] = f[i - 1] /\ r[i] = s[i]
      BY <2>1, <3>1
    <3>3. QED
      BY <1>4, <3>1, <3>2
  <2>4. g[Len(r)] = f[k]
    BY <2>1
  <2> HIDE DEF r, g
  <2>5. FlattenSeq(r) = g[Len(r)]
    BY <2>1, <2>2, <2>3, FlattenBy
  <2>6. QED
    BY <2>4, <2>5 DEF Upto, r
<1>6. f \in [0 .. Len(s) -> Seq(T)] /\ f[0] = <<>>
  BY <1>3 DEF Stepping
<1>7. FlattenSeq(s) = f[Len(s)]
  BY <1>4, <1>6, FlattenBy
<1>8. QED
  BY <1>4, <1>5, <1>6, <1>7

(* What FlattenSeq returns, and of its parts. *)
LEMMA Flattened ==
  ASSUME NEW T, NEW s \in Seq(Seq(T))
  PROVE  /\ FlattenSeq(s) \in Seq(T)
         /\ Upto(s, 0) = <<>> /\ Upto(s, Len(s)) = FlattenSeq(s)
         /\ \A k \in 0 .. Len(s) : Upto(s, k) \in Seq(T)
         /\ \A k \in 1 .. Len(s) : Upto(s, k) = Upto(s, k - 1) \o s[k]
<1>1. PICK f \in [0 .. Len(s) -> Seq(T)] :
           /\ f[0] = <<>> /\ \A i \in 1 .. Len(s) : f[i] = f[i - 1] \o s[i]
           /\ \A k \in 0 .. Len(s) : Upto(s, k) = f[k]
           /\ FlattenSeq(s) = f[Len(s)]
  BY FlattenSteps
<1>2. QED
  BY <1>1

(* The parts after the first j, put together, follow them. *)
LEMMA FlattenedTail ==
  ASSUME NEW T, NEW s \in Seq(Seq(T)), NEW j \in 0 .. Len(s), NEW k \in j .. Len(s)
  PROVE  /\ FlattenSeq(SubSeq(s, j + 1, k)) \in Seq(T)
         /\ Upto(s, k) = Upto(s, j) \o FlattenSeq(SubSeq(s, j + 1, k))
<1> DEFINE r == SubSeq(s, j + 1, k)
<1>1. r \in Seq(Seq(T)) /\ Len(r) = k - j /\ \A i \in 1 .. k - j : r[i] = s[j + i]
  <2>1. \A i \in 1 .. k - (j + 1) + 1 : r[i] = s[(j + 1) + i - 1]
    BY SubSeqProperties
  <2>2. \A i \in 1 .. k - j : (j + 1) + i - 1 = j + i /\ i \in 1 .. k - (j + 1) + 1
    OBVIOUS
  <2>3. r \in Seq(Seq(T)) /\ Len(r) = k - j
    BY SubSeqProperties
  <2>4. QED
    BY <2>1, <2>2, <2>3
<1> HIDE DEF r
<1> DEFINE Q(i) == i <= k - j => Upto(s, j + i) = Upto(s, j) \o Upto(r, i)
<1>2. Q(0)
  <2>1. Upto(r, 0) = <<>> /\ Upto(s, j) \in Seq(T)
    BY <1>1, Flattened
  <2>2. Upto(s, j) \o <<>> = Upto(s, j) /\ j + 0 = j
    BY <2>1, ConcatEmptySeq
  <2>3. QED
    BY <2>1, <2>2
<1>3. ASSUME NEW i \in Nat, i < k - j, Q(i) PROVE Q(i + 1)
  <2>2. Upto(s, j + i) = Upto(s, j) \o Upto(r, i)
    BY <1>3
  <2>3. Upto(s, j + (i + 1)) = Upto(s, j + i) \o s[j + (i + 1)]
    <3>1. j + (i + 1) \in 1 .. Len(s) /\ (j + (i + 1)) - 1 = j + i
      BY <1>3
    <3>2. QED
      BY <3>1, Flattened
  <2>4. Upto(r, i + 1) = Upto(r, i) \o s[j + (i + 1)]
    <3>1. i + 1 \in 1 .. Len(r) /\ (i + 1) - 1 = i /\ r[i + 1] = s[j + (i + 1)]
      BY <1>1, <1>3
    <3>2. QED
      BY <1>1, <3>1, Flattened
  <2>5. Upto(s, j) \in Seq(T) /\ Upto(r, i) \in Seq(T) /\ s[j + (i + 1)] \in Seq(T)
    <3>1. j + (i + 1) \in 1 .. Len(s) /\ i \in 0 .. Len(r)
      <4>1. i < k - j /\ Len(r) = k - j
        BY <1>1, <1>3
      <4>2. QED
        BY <4>1
    <3>2. s[j + (i + 1)] \in Seq(T)
      BY <3>1, ElementOfSeq
    <3>3. Upto(s, j) \in Seq(T) /\ Upto(r, i) \in Seq(T)
      BY <1>1, <3>1, Flattened
    <3>4. QED
      BY <3>2, <3>3
  <2>6. (Upto(s, j) \o Upto(r, i)) \o s[j + (i + 1)] = Upto(s, j) \o (Upto(r, i) \o s[j + (i + 1)])
    <3>1. \A a, b, c \in Seq(T) : (a \o b) \o c = a \o (b \o c)
      BY ConcatAssociative
    <3>2. QED
      BY <2>5, <3>1
  <2>7. QED
    BY <2>2, <2>3, <2>4, <2>6
<1>4. Q(k - j)
  <2> DEFINE n == k - j
             P == {i \in Nat : Q(i)}
  <2>1. n \in Nat /\ n \in 0 .. n
    OBVIOUS
  <2>2. \A i \in Nat : i < n /\ Q(i) => Q(i + 1)
    <3> HIDE DEF Q
    <3>1. QED
      BY <1>3
  <2> HIDE DEF Q, n
  <2>3. P \in SUBSET Nat /\ 0 \in P /\ \A i \in Nat : i < n /\ i \in P => i + 1 \in P
    BY <1>2, <2>2
  <2>4. n \in P
    <3> HIDE DEF P
    <3>1. QED
      BY <2>1, <2>3, Climbs
  <2>5. QED
    BY <2>4 DEF n
<1>5. Upto(s, k) = Upto(s, j) \o Upto(r, k - j)
  <2>1. j + (k - j) = k
    OBVIOUS
  <2>2. QED
    BY <1>4, <2>1
<1>6. QED
  BY <1>1, <1>5, Flattened DEF r

-----------------------------------------------------------------------------
(* The scan of a compound segment (matchCompound). *)

(* The fold of matchCompound. *)
ScanStart(s, token) ==
  [ok |-> OccursAt(token, Literal(s, 1), 0), pos |-> Len(Literal(s, 1)), spans |-> <<>>]

Chars == DOMAIN Code

(* Tokens are made of characters, decoded or not. *)
LEMMA DecodedIs ==
  ASSUME NEW token \in Seq(DOMAIN Wire)
  PROVE  /\ WireText(token) \in Seq(Chars) /\ Decoded(token) \in Seq(Chars)
<1>1. [DOMAIN token -> Seq(Chars)] \subseteq Seq(Seq(Chars))
  OBVIOUS
<1>2. \A i \in DOMAIN token : token[i] \in DOMAIN Wire
  OBVIOUS
<1>3. WireText(token) \in Seq(Chars)
  <2> DEFINE f == [i \in DOMAIN token |-> Wire[token[i]]]
  <2>1. \A i \in DOMAIN token : f[i] \in Seq(Chars)
    BY <1>2, RouterAssumption DEF Chars
  <2>2. f \in [DOMAIN token -> Seq(Chars)]
    BY <2>1
  <2> HIDE DEF f
  <2>3. FlattenSeq(f) \in Seq(Chars)
    BY <1>1, <2>2, Flattened
  <2>4. QED
    BY <2>3 DEF WireText, f
<1>4. CASE Range(token) \subseteq DOMAIN Stands
  <2> DEFINE f == [i \in DOMAIN token |-> Stands[token[i]]]
  <2>1. \A i \in DOMAIN token : f[i] \in Seq(Chars)
    BY <1>4, RouterAssumption DEF Chars, Range
  <2>2. f \in [DOMAIN token -> Seq(Chars)]
    BY <2>1
  <2> HIDE DEF f
  <2>3. FlattenSeq(f) \in Seq(Chars)
    BY <1>1, <2>2, Flattened
  <2>4. Decoded(token) = FlattenSeq(f)
    BY <1>4 DEF Decoded, f
  <2>5. QED
    BY <1>3, <2>3, <2>4
<1>5. QED
  BY <1>3, <1>4 DEF Decoded

(* The scan as a fold over the first n numbers. *)
ScanIteration(s, token, n) ==
  CHOOSE it : it = [z \in SUBSET (1 .. n) |-> IF z = {} THEN ScanStart(s, token)
                                 ELSE Capture(s, token, it[z \ {Max(z)}], Max(z))]

LEMMA ScanIter ==
  ASSUME NEW s, NEW token, NEW n \in Nat, DOMAIN s.names = 1 .. n
  PROVE  Scan(s, token) = ScanIteration(s, token, n)[1 .. n]
<1>1. DOMAIN [i \in DOMAIN s.names |-> i] = 1 .. n
  OBVIOUS
<1>2. \A z \in SUBSET (1 .. n) : z # {} => [i \in DOMAIN s.names |-> i][Max(z)] = Max(z)
  BY MaxOf
<1> DEFINE F(it) == [z \in SUBSET (1 .. n) |-> IF z = {} THEN ScanStart(s, token)
                                  ELSE Capture(s, token, it[z \ {Max(z)}], Max(z))]
           G(it) == [z \in SUBSET (1 .. n) |-> IF z = {} THEN ScanStart(s, token)
                                  ELSE Capture(s, token, it[z \ {Max(z)}], [i \in DOMAIN s.names |-> i][Max(z)])]
<1>3. \A it : F(it) = G(it)
  BY <1>2
<1>4. Scan(s, token) = (CHOOSE it : it = G(it))[1 .. n]
  BY <1>1 DEF Scan, FoldLeftDomain, FoldLeft, MapThenFoldSet, ScanStart
<1>5. (CHOOSE it : it = G(it)) = (CHOOSE it : it = F(it))
  BY <1>3
<1>6. QED
  BY <1>4, <1>5 DEF ScanIteration

(* Integers with a bound below have a least one. *)
LEMMA LeastOf ==
  ASSUME NEW S \in SUBSET Int, S # {}, NEW low \in Int, \A k \in S : k >= low
  PROVE  \E k \in S : \A j \in S : k <= j
<1> DEFINE T == {k \in Nat : low + k \in S}
<1>1. T \subseteq Nat
  OBVIOUS
<1>2. T # {}
  <2>1. PICK k \in S : TRUE
    OBVIOUS
  <2>2. k - low \in Nat /\ low + (k - low) = k
    OBVIOUS
  <2>3. k - low \in T
    BY <2>1, <2>2
  <2>4. QED
    BY <2>3
<1>3. PICK m \in T : \A i \in T : ~(<<i, m>> \in OpToRel(<, Nat))
  BY <1>1, <1>2, NatLessThanWellFounded, WFMin
<1>4. ASSUME NEW j \in S PROVE low + m <= j
  <2>1. j - low \in T /\ m \in Nat
    <3>1. j - low \in Nat /\ low + (j - low) = j
      OBVIOUS
    <3>2. QED
      BY <3>1
  <2>2. ~(j - low < m)
    BY <1>3, <2>1 DEF OpToRel
  <2>3. QED
    BY <2>1, <2>2
<1>5. QED
  BY <1>4

Captures == [ok : BOOLEAN, pos : Int, spans : Seq(Int \X Int)]

LEMMA CaptureType ==
  ASSUME NEW s, NEW token \in Seq(Chars), NEW i \in Int, NEW scan \in Captures,
         Literal(s, i + 1) \in Seq(Chars)
  PROVE  Capture(s, token, scan, i) \in Captures
<1> DEFINE text == Literal(s, i + 1)
           end == IF i = Len(s.names) THEN Len(token) - Len(text)
                                      ELSE IndexOf(token, text, Earliest(scan.pos))
<1>1. Len(text) \in Nat /\ Len(token) \in Nat /\ scan.pos \in Int /\ scan.spans \in Seq(Int \X Int)
  BY DEF Captures
<1>2. IndexOf(token, text, Earliest(scan.pos)) \in Int
  <2> DEFINE at == {k \in Earliest(scan.pos) .. Len(token) : OccursAt(token, text, k)}
  <2>1. at \subseteq Int /\ \A k \in at : k >= Earliest(scan.pos) /\ k <= Len(token)
    BY <1>1 DEF Earliest
  <2>2. CASE at = {}
    BY <1>1, <2>2 DEF IndexOf
  <2>3. CASE at # {}
    <3>1. \E k \in at : \A j \in at : k <= j
      <4>1. Earliest(scan.pos) \in Int
        BY <1>1 DEF Earliest
      <4> HIDE DEF at
      <4>2. QED
        BY <2>1, <2>3, <4>1, LeastOf
    <3>2. QED
      BY <2>1, <2>3, <3>1 DEF IndexOf
  <2>4. QED
    BY <2>2, <2>3
<1>3. end \in Int
  BY <1>1, <1>2
<1>4. Append(scan.spans, <<scan.pos, end>>) \in Seq(Int \X Int)
  BY <1>1, <1>3
<1>5. QED
  BY <1>1, <1>3, <1>4 DEF Capture, Captures
(* The states of the scan, parameter by parameter. *)
ScanRun(g, s, n, token) ==
  /\ g[0] = ScanStart(s, token)
  /\ \A i \in 0 .. n : g[i] \in Captures
  /\ \A i \in 1 .. n : g[i] = Capture(s, token, g[i - 1], i)
  /\ Scan(s, token) = g[n]

LEMMA ScanSteps ==
  ASSUME NEW s, NEW n \in Nat, DOMAIN s.names = 1 .. n, NEW token \in Seq(Chars),
         \A i \in 1 .. n + 1 : Literal(s, i) \in Seq(Chars)
  PROVE  \E g : ScanRun(g, s, n, token)
<1> DEFINE F(it) == [z \in SUBSET (1 .. n) |-> IF z = {} THEN ScanStart(s, token)
                                  ELSE Capture(s, token, it[z \ {Max(z)}], Max(z))]
           iter == ScanIteration(s, token, n)
           op == [p \in Captures \X (1 .. n) |-> Capture(s, token, p[1], p[2])]
           start == ScanStart(s, token)
<1>2. start \in Captures
  <2>1. Literal(s, 1) \in Seq(Chars)
    OBVIOUS
  <2>2. QED
    BY <2>1 DEF ScanStart, Captures, OccursAt
<1>3. op \in [Captures \X (1 .. n) -> Captures]
  <2>1. ASSUME NEW p \in Captures \X (1 .. n) PROVE Capture(s, token, p[1], p[2]) \in Captures
    <3>1. p[1] \in Captures /\ p[2] \in Int /\ Literal(s, p[2] + 1) \in Seq(Chars)
      <4>1. p[2] \in 1 .. n
        OBVIOUS
      <4>2. p[2] + 1 \in 1 .. n + 1
        BY <4>1
      <4>3. QED
        BY <4>1, <4>2
    <3>2. QED
      BY <3>1, CaptureType
  <2>2. QED
    BY <2>1
<1>4. PICK f \in [SUBSET (1 .. n) -> Captures] : Folding(f, n, start, op)
  <2> HIDE DEF op, start
  <2>1. QED
    BY <1>2, <1>3, FoldingExists
<1>5. f = F(f)
  <2>1. ASSUME NEW z \in SUBSET (1 .. n), z # {}
        PROVE  op[<<f[z \ {Max(z)}], Max(z)>>] = Capture(s, token, f[z \ {Max(z)}], Max(z))
    <3>1. Max(z) \in 1 .. n /\ z \ {Max(z)} \in SUBSET (1 .. n)
      BY <2>1, MaxOf
    <3>2. <<f[z \ {Max(z)}], Max(z)>> \in Captures \X (1 .. n)
      BY <3>1
    <3>3. QED
      BY <3>2
  <2> HIDE DEF op
  <2>2. QED
    BY <1>4, <2>1 DEF Folding
<1>6. iter = F(iter)
  <2>1. iter = CHOOSE it : it = F(it)
    BY DEF ScanIteration
  <2> HIDE DEF F, iter
  <2>2. QED
    BY <1>5, <2>1
<1>7. Scan(s, token) = iter[1 .. n]
  BY ScanIter
<1>8. ASSUME NEW i \in 1 .. n PROVE iter[1 .. i] = Capture(s, token, iter[1 .. i - 1], i)
  <2> HIDE DEF iter
  <2>3. \A z \in SUBSET (1 .. n) : z # {} => iter[z] = Capture(s, token, iter[z \ {Max(z)}], Max(z))
    BY <1>6
  <2>4. QED
    BY <2>3, Initial
<1>9. iter[1 .. 0] = start
  <2>1. 1 .. 0 = {} /\ 1 .. 0 \in SUBSET (1 .. n)
    OBVIOUS
  <2> HIDE DEF iter, start
  <2>2. QED
    BY <1>6, <2>1 DEF start
<1> DEFINE g == [i \in 0 .. n |-> iter[1 .. i]]
<1> HIDE DEF iter, start, op, F
<1>10. g[0] = start /\ g[n] = Scan(s, token)
  BY <1>7, <1>9
<1>11. \A i \in 1 .. n : g[i] = Capture(s, token, g[i - 1], i)
  BY <1>8
<1>12. \A i \in 0 .. n : g[i] \in Captures
  <2> DEFINE P == {i \in Nat : i <= n => g[i] \in Captures}
  <2>1. ASSUME NEW i \in Nat, i < n, g[i] \in Captures PROVE g[i + 1] \in Captures
    <3>1. i + 1 \in 1 .. n /\ (i + 1) - 1 = i /\ (i + 1) + 1 \in 1 .. n + 1
      BY <2>1
    <3>2. g[i + 1] = Capture(s, token, g[i], i + 1)
      BY <1>11, <3>1
    <3>3. Literal(s, (i + 1) + 1) \in Seq(Chars) /\ i + 1 \in Int
      BY <3>1
    <3> HIDE DEF g
    <3>4. QED
      BY <2>1, <3>2, <3>3, CaptureType
  <2> HIDE DEF g
  <2>2. P \in SUBSET Nat /\ 0 \in P /\ \A i \in Nat : i < n /\ i \in P => i + 1 \in P
    BY <1>2, <1>10, <2>1
  <2>3. \A i \in 0 .. n : i \in P
    <3> HIDE DEF P
    <3>1. QED
      BY <2>2, Climbs
  <2>4. QED
    BY <2>3
<1> HIDE DEF g
<1>13. ScanRun(g, s, n, token)
  BY <1>10, <1>11, <1>12 DEF start, ScanRun
<1>14. QED
  BY <1>13

(* indexOf: the first place from there where the text occurs, and not before. *)
LEMMA IndexOfIs ==
  ASSUME NEW token \in Seq(Chars), NEW text \in Seq(Chars), NEW from \in Int
  PROVE  LET end == IndexOf(token, text, from) IN
         /\ end \in Int
         /\ OccursAt(token, text, end) => end >= from
         /\ \A k \in Int : k >= from /\ k <= Len(token) /\ OccursAt(token, text, k)
              => end <= k /\ OccursAt(token, text, end)
<1> DEFINE at == {k \in from .. Len(token) : OccursAt(token, text, k)}
           end == IndexOf(token, text, from)
<1>1. Len(token) \in Nat /\ Len(text) \in Nat
  OBVIOUS
<1>2. at \in SUBSET Int /\ \A k \in at : k >= from
  BY <1>1
<1>3. CASE at = {}
  <2>1. end = Len(token) + 1
    BY <1>3 DEF IndexOf
  <2>2. ~OccursAt(token, text, Len(token) + 1)
    BY <1>1 DEF OccursAt
  <2>3. \A k \in Int : k >= from /\ k <= Len(token) => k \in from .. Len(token)
    BY <1>1
  <2>4. QED
    BY <1>1, <1>3, <2>1, <2>2, <2>3
<1>4. CASE at # {}
  <2>1. \E k \in at : \A j \in at : k <= j
    <3> HIDE DEF at
    <3>1. QED
      BY <1>2, <1>4, LeastOf
  <2>2. end = CHOOSE k \in at : \A j \in at : k <= j
    BY <1>4 DEF IndexOf
  <2>3. end \in at /\ \A j \in at : end <= j
    <3> HIDE DEF at, end
    <3>1. QED
      BY <2>1, <2>2
  <2>4. \A k \in Int : k >= from /\ k <= Len(token) => k \in from .. Len(token)
    BY <1>1
  <2> HIDE DEF end
  <2>5. end \in Int /\ end >= from /\ OccursAt(token, text, end)
    BY <1>2, <2>3
  <2>6. QED
    BY <2>3, <2>4, <2>5 DEF end
<1>5. QED
  BY <1>3, <1>4

(* Where each parameter of the scan starts and ends. *)
Passes(pos, ok, end, s, n, token) ==
  /\ pos \in [0 .. n -> Int] /\ ok \in [0 .. n -> BOOLEAN] /\ end \in [1 .. n -> Int]
  /\ pos[0] = Len(Literal(s, 1)) /\ ok[0] = OccursAt(token, Literal(s, 1), 0)
  /\ \A i \in 1 .. n :
       /\ end[i] = IF i = n THEN Len(token) - Len(Literal(s, i + 1))
                            ELSE IndexOf(token, Literal(s, i + 1), pos[i - 1] + 1)
       /\ pos[i] = end[i] + Len(Literal(s, i + 1))
       /\ ok[i] <=> /\ ok[i - 1] /\ end[i] >= pos[i - 1] + 1
                    /\ OccursAt(token, Literal(s, i + 1), end[i])
  /\ Scan(s, token).ok = ok[n]
  /\ \A i \in 1 .. n : Scan(s, token).spans[i] = <<pos[i - 1], end[i]>>

LEMMA Scanned ==
  ASSUME NEW s, NEW n \in Nat, n = Len(s.names), DOMAIN s.names = 1 .. n, NEW token \in Seq(Chars),
         \A i \in 1 .. n + 1 : Literal(s, i) \in Seq(Chars)
  PROVE  \E pos, ok, end : Passes(pos, ok, end, s, n, token)
<1>0. PICK g : ScanRun(g, s, n, token)
  BY ScanSteps
<1>1. /\ g[0] = ScanStart(s, token)
      /\ \A i \in 0 .. n : g[i] \in Captures
      /\ \A i \in 1 .. n : g[i] = Capture(s, token, g[i - 1], i)
      /\ Scan(s, token) = g[n]
  BY <1>0 DEF ScanRun
<1> DEFINE text(i) == Literal(s, i + 1)
           stop(i) == IF i = n THEN Len(token) - Len(text(i)) ELSE IndexOf(token, text(i), g[i - 1].pos + 1)
           pos == [i \in 0 .. n |-> g[i].pos]
           ok == [i \in 0 .. n |-> g[i].ok]
           end == [i \in 1 .. n |-> stop(i)]
<1>2. ASSUME NEW i \in 1 .. n
      PROVE  /\ i - 1 \in 0 .. n /\ i \in 0 .. n /\ g[i - 1] \in Captures /\ text(i) \in Seq(Chars)
             /\ stop(i) \in Int
             /\ g[i].ok <=> /\ g[i - 1].ok /\ stop(i) >= g[i - 1].pos + 1
                            /\ OccursAt(token, text(i), stop(i))
             /\ g[i].pos = stop(i) + Len(text(i))
             /\ g[i].spans = Append(g[i - 1].spans, <<g[i - 1].pos, stop(i)>>)
  <2>1. i - 1 \in 0 .. n /\ i \in 0 .. n /\ i + 1 \in 1 .. n + 1
    OBVIOUS
  <2>2. g[i - 1] \in Captures /\ text(i) \in Seq(Chars)
    BY <1>1, <2>1
  <2>3. g[i - 1].pos \in Int
    BY <2>2 DEF Captures
  <2>4. stop(i) \in Int
    <3>1. Len(token) \in Nat /\ Len(text(i)) \in Nat /\ g[i - 1].pos + 1 \in Int
      BY <2>2, <2>3
    <3> HIDE DEF text
    <3>2. IndexOf(token, text(i), g[i - 1].pos + 1) \in Int
      BY <2>2, <3>1, IndexOfIs
    <3>3. QED
      BY <3>1, <3>2
  <2>5. g[i] = Capture(s, token, g[i - 1], i)
    BY <1>1
  <2>6. Capture(s, token, g[i - 1], i) =
          [ok |-> g[i - 1].ok /\ stop(i) >= g[i - 1].pos + 1 /\ OccursAt(token, text(i), stop(i)),
           pos |-> stop(i) + Len(text(i)),
           spans |-> Append(g[i - 1].spans, <<g[i - 1].pos, stop(i)>>)]
    BY DEF Capture, Earliest
  <2> HIDE DEF stop, text
  <2>7. /\ g[i].ok = (g[i - 1].ok /\ stop(i) >= g[i - 1].pos + 1 /\ OccursAt(token, text(i), stop(i)))
        /\ g[i].pos = stop(i) + Len(text(i))
        /\ g[i].spans = Append(g[i - 1].spans, <<g[i - 1].pos, stop(i)>>)
    BY <2>5, <2>6
  <2>8. QED
    BY <2>1, <2>2, <2>4, <2>7
<1>3. pos \in [0 .. n -> Int] /\ ok \in [0 .. n -> BOOLEAN] /\ end \in [1 .. n -> Int]
  <2>1. \A i \in 0 .. n : g[i].pos \in Int /\ g[i].ok \in BOOLEAN
    BY <1>1 DEF Captures
  <2>2. \A i \in 1 .. n : stop(i) \in Int
    BY <1>2
  <2> HIDE DEF stop
  <2>3. QED
    BY <2>1, <2>2
<1> HIDE DEF stop, text
<1>4. \A k \in 0 .. n : Len(g[k].spans) = k /\ \A i \in 1 .. k : g[k].spans[i] = <<pos[i - 1], end[i]>>
  <2> DEFINE Q(k) == k <= n => Len(g[k].spans) = k /\ \A i \in 1 .. k : g[k].spans[i] = <<pos[i - 1], end[i]>>
             P == {k \in Nat : Q(k)}
  <2>1. Q(0)
    <3>1. g[0].spans = <<>>
      BY <1>1 DEF ScanStart
    <3>2. QED
      BY <3>1
  <2>2. ASSUME NEW k \in Nat, k < n, Q(k) PROVE Q(k + 1)
    <3>1. k + 1 \in 1 .. n /\ (k + 1) - 1 = k /\ k \in 0 .. n
      BY <2>2
    <3>2. g[k + 1].spans = Append(g[k].spans, <<g[k].pos, stop(k + 1)>>) /\ stop(k + 1) \in Int
      BY <1>2, <3>1
    <3>3. g[k].spans \in Seq(Int \X Int) /\ g[k].pos \in Int
      BY <1>1, <3>1 DEF Captures
    <3>4. Len(g[k].spans) = k /\ \A i \in 1 .. k : g[k].spans[i] = <<pos[i - 1], end[i]>>
      <4> HIDE DEF pos, end
      <4>1. QED
        BY <2>2
    <3>5. <<g[k].pos, stop(k + 1)>> = <<pos[(k + 1) - 1], end[k + 1]>>
      BY <3>1
    <3> HIDE DEF pos, end
    <3>6. /\ Len(g[k + 1].spans) = k + 1 /\ g[k + 1].spans[k + 1] = <<g[k].pos, stop(k + 1)>>
          /\ \A i \in 1 .. k : g[k + 1].spans[i] = g[k].spans[i]
      <4>1. <<g[k].pos, stop(k + 1)>> \in Int \X Int
        BY <3>2, <3>3
      <4>2. ASSUME NEW sp \in Seq(Int \X Int), NEW e \in Int \X Int, Len(sp) = k
            PROVE  /\ Len(Append(sp, e)) = k + 1 /\ Append(sp, e)[k + 1] = e
                   /\ \A i \in 1 .. k : Append(sp, e)[i] = sp[i]
        BY <4>2, AppendProperties
      <4>3. QED
        BY <3>2, <3>3, <3>4, <4>1, <4>2
    <3>7. g[k + 1].spans[k + 1] = <<pos[(k + 1) - 1], end[k + 1]>>
      BY <3>5, <3>6
    <3>8. \A i \in 1 .. k + 1 : i \in 1 .. k \/ i = k + 1
      OBVIOUS
    <3>9. QED
      BY <3>4, <3>6, <3>7, <3>8
  <2> HIDE DEF Q, pos, end
  <2>3. P \in SUBSET Nat /\ 0 \in P /\ \A i \in Nat : i < n /\ i \in P => i + 1 \in P
    BY <2>1, <2>2
  <2>4. \A k \in 0 .. n : k \in P
    <3> HIDE DEF P
    <3>1. QED
      BY <2>3, Climbs
  <2>5. \A k \in 0 .. n : Q(k)
    BY <2>4
  <2>6. \A k \in 0 .. n : k <= n
    OBVIOUS
  <2>7. QED
    BY <2>5, <2>6 DEF Q
<1>5. pos[0] = Len(Literal(s, 1)) /\ ok[0] = OccursAt(token, Literal(s, 1), 0)
  BY <1>1 DEF ScanStart
<1>6. ASSUME NEW i \in 1 .. n
      PROVE  /\ end[i] = IF i = n THEN Len(token) - Len(text(i)) ELSE IndexOf(token, text(i), pos[i - 1] + 1)
             /\ pos[i] = end[i] + Len(text(i))
             /\ ok[i] <=> /\ ok[i - 1] /\ end[i] >= pos[i - 1] + 1 /\ OccursAt(token, text(i), end[i])
  <2>1. i - 1 \in 0 .. n /\ i \in 0 .. n
    OBVIOUS
  <2>2. pos[i - 1] = g[i - 1].pos /\ pos[i] = g[i].pos /\ ok[i - 1] = g[i - 1].ok /\ ok[i] = g[i].ok
        /\ end[i] = stop(i)
    BY <2>1
  <2>3. stop(i) = IF i = n THEN Len(token) - Len(text(i)) ELSE IndexOf(token, text(i), g[i - 1].pos + 1)
    BY DEF stop
  <2> HIDE DEF pos, ok, end
  <2>4. QED
    BY <1>2, <2>2, <2>3
<1>7. Scan(s, token).ok = ok[n] /\ \A i \in 1 .. n : Scan(s, token).spans[i] = <<pos[i - 1], end[i]>>
  <2>1. n \in 0 .. n /\ ok[n] = g[n].ok
    OBVIOUS
  <2> HIDE DEF pos, ok, end
  <2>2. QED
    BY <1>1, <1>4, <2>1
<1> HIDE DEF pos, ok, end
<1>8. Passes(pos, ok, end, s, n, token)
  BY <1>3, <1>5, <1>6, <1>7 DEF text, Passes
<1>9. QED
  BY <1>8

(* The first of some numbers. *)
LEMMA FirstOf ==
  ASSUME NEW n \in Nat, NEW S \in SUBSET (1 .. n), S # {}
  PROVE  \E k \in S : \A j \in 1 .. k - 1 : j \notin S
<1>1. PICK k \in S : \A j \in S : k <= j
  <2>1. S \in SUBSET Int /\ \A k \in S : k >= 1
    OBVIOUS
  <2>2. QED
    BY <2>1, LeastOf
<1>2. QED
  BY <1>1

(* A scan that succeeds has succeeded at every parameter. *)
LEMMA PassesOk ==
  ASSUME NEW pos, NEW ok, NEW end, NEW s, NEW n \in Nat, NEW text, Passes(pos, ok, end, s, n, text),
         ok[n], NEW i \in 1 .. n
  PROVE  ok[i - 1] /\ ok[i]
<1> DEFINE P == {k \in Nat : k <= n => ok[n - k]}
<1>1. ASSUME NEW k \in Nat, k < n, ok[n - k] PROVE ok[n - (k + 1)]
  <2>1. n - k \in 1 .. n /\ (n - k) - 1 = n - (k + 1)
    BY <1>1
  <2>2. ok[(n - k) - 1]
    BY <1>1, <2>1 DEF Passes
  <2>3. QED
    BY <2>1, <2>2
<1>2. n - 0 = n
  OBVIOUS
<1>3. P \in SUBSET Nat /\ 0 \in P /\ \A k \in Nat : k < n /\ k \in P => k + 1 \in P
  BY <1>1, <1>2
<1>4. n - i \in P /\ n - (i - 1) \in P
  <2>1. n - i \in 0 .. n /\ n - (i - 1) \in 0 .. n
    OBVIOUS
  <2> HIDE DEF P
  <2>2. QED
    BY <1>3, <2>1, Climbs
<1>5. n - (n - i) = i /\ n - (n - (i - 1)) = i - 1 /\ n - i <= n /\ n - (i - 1) <= n
  OBVIOUS
<1>6. QED
  BY <1>4, <1>5

(* What a scan finds is a fit, the first one, and it finds one if there is one. *)
LEMMA ScanIsLazy ==
  ASSUME NEW s, NEW n \in Nat, n >= 1, n = Len(s.names), DOMAIN s.names = 1 .. n, NEW text \in Seq(Chars),
         \A i \in 1 .. n + 1 : Literal(s, i) \in Seq(Chars)
  PROVE  LET fits == Fits(s, text)
             scan == Scan(s, text)
             ends == [i \in DOMAIN s.names |-> scan.spans[i][2]]
         IN  /\ scan.ok <=> (fits # {})
             /\ fits # {} =>
                  /\ ends \in fits
                  /\ \A other \in fits \ {ends} : \E i \in DOMAIN ends : LessAt(ends, other, i)
<1> DEFINE fits == Fits(s, text)
           scan == Scan(s, text)
           ends == [i \in DOMAIN s.names |-> scan.spans[i][2]]
           lit(i) == Literal(s, i)
<1>1. PICK pos, ok, end : Passes(pos, ok, end, s, n, text)
  BY Scanned
<1>2. /\ pos \in [0 .. n -> Int] /\ ok \in [0 .. n -> BOOLEAN] /\ end \in [1 .. n -> Int]
      /\ pos[0] = Len(lit(1)) /\ ok[0] = OccursAt(text, lit(1), 0)
      /\ scan.ok = ok[n]
      /\ \A i \in 1 .. n :
           /\ end[i] = IF i = n THEN Len(text) - Len(lit(i + 1)) ELSE IndexOf(text, lit(i + 1), pos[i - 1] + 1)
           /\ pos[i] = end[i] + Len(lit(i + 1))
           /\ ok[i] <=> /\ ok[i - 1] /\ end[i] >= pos[i - 1] + 1 /\ OccursAt(text, lit(i + 1), end[i])
      /\ \A i \in 1 .. n : scan.spans[i] = <<pos[i - 1], end[i]>>
  BY <1>1 DEF Passes
<1>3. ends = end
  BY <1>2
<1>4. \A i \in 1 .. n + 1 : lit(i) \in Seq(Chars) /\ Len(lit(i)) \in Nat
  OBVIOUS
<1>5. Len(text) \in Nat
  OBVIOUS
<1> DEFINE Start(e, i) == Len(lit(i)) + (IF i = 1 THEN 0 ELSE e[i - 1])
           Stops(i) == {k \in 0 .. Len(text) : OccursAt(text, lit(i + 1), k)}
           Fit(e) == /\ OccursAt(text, lit(1), 0)
                     /\ \A i \in 1 .. n : e[i] \in Stops(i) /\ Start(e, i) < e[i]
                     /\ e[n] + Len(lit(n + 1)) = Len(text)
<1>6. fits = {e \in [1 .. n -> UNION {Stops(i) : i \in 1 .. n}] : Fit(e)}
  <2>1. ASSUME NEW i \in 1 .. n
        PROVE  /\ [j \in 1 .. n + 1 |-> lit(j)][i] = lit(i) /\ [j \in 1 .. n + 1 |-> lit(j)][i + 1] = lit(i + 1)
    OBVIOUS
  <2>2. [j \in 1 .. n + 1 |-> lit(j)][1] = lit(1) /\ [j \in 1 .. n + 1 |-> lit(j)][n + 1] = lit(n + 1)
    OBVIOUS
  <2>3. fits = LET literals == [j \in 1 .. n + 1 |-> lit(j)]
                   stops(i) == {k \in 0 .. Len(text) : OccursAt(text, literals[i + 1], k)}
                   start(e, i) == Len(literals[i]) + (IF i = 1 THEN 0 ELSE e[i - 1])
               IN  {e \in [1 .. n -> UNION {stops(i) : i \in 1 .. n}] :
                      /\ OccursAt(text, literals[1], 0)
                      /\ \A i \in 1 .. n : e[i] \in stops(i) /\ start(e, i) < e[i]
                      /\ e[n] + Len(literals[n + 1]) = Len(text)}
    BY DEF Fits
  <2> DEFINE literals == [j \in 1 .. n + 1 |-> lit(j)]
             stops(i) == {k \in 0 .. Len(text) : OccursAt(text, literals[i + 1], k)}
  <2>4. \A i \in 1 .. n : stops(i) = Stops(i)
    BY <2>1
  <2>5. UNION {stops(i) : i \in 1 .. n} = UNION {Stops(i) : i \in 1 .. n}
    <3> HIDE DEF stops, Stops
    <3>1. QED
      BY <2>4
  <2>6. \A i \in 1 .. n : literals[i] = lit(i) /\ literals[i + 1] = lit(i + 1)
    BY <2>1
  <2>7. literals[1] = lit(1) /\ literals[n + 1] = lit(n + 1)
    BY <2>2
  <2> HIDE DEF literals
  <2>8. fits = {e \in [1 .. n -> UNION {stops(i) : i \in 1 .. n}] :
                      /\ OccursAt(text, literals[1], 0)
                      /\ \A i \in 1 .. n : e[i] \in stops(i) /\ Len(literals[i]) + (IF i = 1 THEN 0 ELSE e[i - 1]) < e[i]
                      /\ e[n] + Len(literals[n + 1]) = Len(text)}
    BY <2>3 DEF literals
  <2> HIDE DEF stops, Stops, fits
  <2>9. ASSUME NEW e
        PROVE  (/\ OccursAt(text, literals[1], 0)
                /\ \A i \in 1 .. n : e[i] \in stops(i) /\ Len(literals[i]) + (IF i = 1 THEN 0 ELSE e[i - 1]) < e[i]
                /\ e[n] + Len(literals[n + 1]) = Len(text)) <=> Fit(e)
    BY <2>4, <2>6, <2>7
  <2> HIDE DEF Fit
  <2>10. QED
    BY <2>5, <2>8, <2>9
<1> HIDE DEF fits, scan, ends
<1>7. ASSUME NEW i \in 1 .. n, ok[n] PROVE ok[i - 1] /\ ok[i]
  BY <1>1, <1>7, PassesOk
<1>8. ASSUME NEW i \in 1 .. n PROVE Start(end, i) = pos[i - 1]
  <2>1. CASE i = 1
    BY <1>2, <1>4, <2>1
  <2>2. CASE i # 1
    <3>1. i - 1 \in 1 .. n /\ (i - 1) + 1 = i
      BY <2>2
    <3>2. pos[i - 1] = end[i - 1] + Len(lit((i - 1) + 1)) /\ end[i - 1] \in Int
      BY <1>2, <3>1
    <3>3. i \in 1 .. n + 1
      OBVIOUS
    <3>4. Len(lit(i)) \in Nat
      BY <1>4, <3>3
    <3>5. QED
      BY <2>2, <3>1, <3>2, <3>4
  <2>3. QED
    BY <2>1, <2>2
<1>9. ASSUME ok[n] PROVE end \in fits
  <2>1. ok[0]
    <3>1. ok[1 - 1]
      BY <1>7, <1>9
    <3>2. QED
      BY <3>1
  <2>0. \A i \in 0 .. n : pos[i] >= 0
    <3> DEFINE P == {k \in Nat : k <= n => pos[k] >= 0}
    <3>1. ASSUME NEW k \in Nat, k < n, pos[k] >= 0 PROVE pos[k + 1] >= 0
      <4>1. k + 1 \in 1 .. n /\ (k + 1) - 1 = k /\ (k + 1) + 1 \in 1 .. n + 1 /\ k \in 0 .. n
        BY <3>1
      <4>2. pos[k + 1] = end[k + 1] + Len(lit((k + 1) + 1)) /\ Len(lit((k + 1) + 1)) \in Nat
        BY <1>2, <1>4, <4>1
      <4>3. end[k + 1] >= pos[k] + 1 /\ end[k + 1] \in Int /\ pos[k] \in Int
        BY <1>2, <1>7, <1>9, <4>1
      <4>4. QED
        BY <3>1, <4>2, <4>3
    <3>2. P \in SUBSET Nat /\ 0 \in P /\ \A k \in Nat : k < n /\ k \in P => k + 1 \in P
      BY <1>2, <1>4, <3>1
    <3>3. \A k \in 0 .. n : k \in P
      <4> HIDE DEF P
      <4>1. QED
        BY <3>2, Climbs
    <3>4. QED
      BY <3>3
  <2>2. ASSUME NEW i \in 1 .. n PROVE end[i] \in Stops(i) /\ Start(end, i) < end[i]
    <3>1. ok[i]
      BY <1>7, <1>9
    <3>2. end[i] >= pos[i - 1] + 1 /\ OccursAt(text, lit(i + 1), end[i])
      BY <1>2, <3>1
    <3>3. i - 1 \in 0 .. n /\ i + 1 \in 1 .. n + 1
      OBVIOUS
    <3>4. end[i] \in Int /\ pos[i - 1] \in Int /\ Len(lit(i + 1)) \in Nat
      BY <1>2, <1>4, <3>3
    <3>5. pos[i - 1] >= 0
      BY <1>9, <3>3, <2>0
    <3>6. end[i] + Len(lit(i + 1)) <= Len(text)
      BY <3>2 DEF OccursAt
    <3>7. end[i] \in 0 .. Len(text)
      BY <1>5, <3>2, <3>4, <3>5, <3>6
    <3>8. QED
      BY <1>8, <3>2, <3>4, <3>7
  <2>3. end[n] + Len(lit(n + 1)) = Len(text)
    <3>1. n \in 1 .. n /\ n + 1 \in 1 .. n + 1
      OBVIOUS
    <3>2. end[n] = Len(text) - Len(lit(n + 1)) /\ Len(lit(n + 1)) \in Nat
      BY <1>2, <1>4, <3>1
    <3>3. QED
      BY <1>5, <3>2
  <2>4. end \in [1 .. n -> UNION {Stops(i) : i \in 1 .. n}]
    <3> HIDE DEF Stops
    <3>1. QED
      BY <1>2, <2>2
  <2>5. Fit(end)
    <3> HIDE DEF Stops, Start
    <3>1. QED
      BY <1>2, <2>1, <2>2, <2>3
  <2> HIDE DEF Fit
  <2>6. QED
    BY <1>6, <2>4, <2>5
<1>10. ASSUME NEW e \in fits PROVE ok[n] /\ \A i \in 1 .. n : end[i] <= e[i]
  <2>1. e \in [1 .. n -> UNION {Stops(i) : i \in 1 .. n}] /\ Fit(e)
    <3> HIDE DEF Fit, Stops
    <3>1. QED
      BY <1>6
  <2>2. /\ OccursAt(text, lit(1), 0)
        /\ e[n] + Len(lit(n + 1)) = Len(text)
    BY <2>1
  <2>3. ASSUME NEW i \in 1 .. n
        PROVE  /\ e[i] \in Int /\ e[i] <= Len(text) /\ OccursAt(text, lit(i + 1), e[i])
               /\ Start(e, i) < e[i]
    <3>1. e[i] \in Stops(i) /\ Start(e, i) < e[i]
      <4> HIDE DEF Stops, Start
      <4>1. QED
        BY <2>1
    <3>2. e[i] \in 0 .. Len(text) /\ OccursAt(text, lit(i + 1), e[i])
      BY <3>1
    <3>3. QED
      BY <1>5, <3>1, <3>2
  <2> HIDE DEF Start, Fit, Stops
  <2> DEFINE Q(k) == k <= n => /\ ok[k]
                               /\ k >= 1 => end[k] <= e[k]
                               /\ k < n => pos[k] <= Start(e, k + 1)
             P == {k \in Nat : Q(k)}
  <2>4. Q(0)
    <3>1. Start(e, 0 + 1) = Len(lit(1)) + 0
      BY DEF Start
    <3>2. Len(lit(1)) \in Nat
      BY <1>4
    <3>3. QED
      BY <1>2, <2>2, <3>1, <3>2
  <2>5. ASSUME NEW k \in Nat, k < n, Q(k) PROVE Q(k + 1)
    <3> DEFINE i == k + 1
    <3>1. i \in 1 .. n /\ i - 1 = k /\ i + 1 \in 1 .. n + 1 /\ k \in 0 .. n /\ i >= 1
      BY <2>5
    <3>2. ok[i - 1] /\ pos[i - 1] <= Start(e, i) /\ pos[i - 1] \in Int
      <4>1. ok[k] /\ pos[k] <= Start(e, k + 1)
        BY <2>5
      <4>2. pos[k] \in Int
        BY <1>2, <3>1
      <4>3. (k + 1) - 1 = k
        OBVIOUS
      <4>4. QED
        BY <4>1, <4>2, <4>3
    <3> HIDE DEF i
    <3>3. Start(e, i) \in Int
      <4>1. CASE i = 1
        BY <1>4, <4>1, <3>1 DEF Start
      <4>2. CASE i # 1
        <5>1. i - 1 \in 1 .. n /\ i \in 1 .. n + 1
          BY <3>1, <4>2
        <5>2. e[i - 1] \in Int /\ Len(lit(i)) \in Nat
          BY <1>4, <2>3, <5>1
        <5>3. QED
          BY <4>2, <5>2 DEF Start
      <4>3. QED
        BY <4>1, <4>2
    <3>4. /\ e[i] \in Int /\ e[i] <= Len(text) /\ OccursAt(text, lit(i + 1), e[i])
          /\ e[i] >= pos[i - 1] + 1 /\ end[i] \in Int
      <4>1. /\ e[i] \in Int /\ e[i] <= Len(text) /\ OccursAt(text, lit(i + 1), e[i])
            /\ Start(e, i) < e[i]
        BY <2>3, <3>1
      <4>2. end[i] \in Int
        BY <1>2, <3>1
      <4>3. e[i] >= pos[i - 1] + 1
        BY <3>2, <3>3, <4>1
      <4>4. QED
        BY <4>1, <4>2, <4>3
    <3>5. end[i] <= e[i] /\ end[i] >= pos[i - 1] + 1 /\ OccursAt(text, lit(i + 1), end[i])
      <4>1. CASE i = n
        <5>1. end[n] = Len(text) - Len(lit(n + 1)) /\ Len(lit(n + 1)) \in Nat
          BY <1>2, <1>4, <3>1, <4>1
        <5>2. end[i] = e[i]
          <6>1. e[n] \in Int /\ e[n] + Len(lit(n + 1)) = Len(text)
            BY <2>2, <3>4, <4>1
          <6>2. end[n] = e[n]
            <7>1. end[n] \in Int
              BY <3>4, <4>1
            <7>2. \A a, b, c, t \in Int : a = t - c /\ b + c = t => a = b
              OBVIOUS
            <7> DEFINE size == Len(lit(n + 1))
            <7>3. /\ size \in Int /\ Len(text) \in Int /\ end[n] \in Int /\ e[n] \in Int
                  /\ end[n] = Len(text) - size /\ e[n] + size = Len(text)
              BY <1>5, <5>1, <6>1, <7>1
            <7> HIDE DEF size
            <7>4. QED
              BY <7>2, <7>3
          <6>3. QED
            BY <4>1, <6>2
        <5>3. QED
          BY <3>4, <5>2
      <4>2. CASE i # n
        <5>1. end[i] = IndexOf(text, lit(i + 1), pos[i - 1] + 1)
          BY <1>2, <3>1, <4>2
        <5>2. lit(i + 1) \in Seq(Chars) /\ pos[i - 1] + 1 \in Int
          BY <1>4, <3>1, <3>2
        <5> DEFINE word == lit(i + 1)
                   from == pos[i - 1] + 1
        <5> HIDE DEF word, from
        <5>3. /\ OccursAt(text, word, IndexOf(text, word, from)) => IndexOf(text, word, from) >= from
              /\ \A j \in Int : j >= from /\ j <= Len(text) /\ OccursAt(text, word, j)
                   => /\ IndexOf(text, word, from) <= j
                      /\ OccursAt(text, word, IndexOf(text, word, from))
          BY <5>2, IndexOfIs DEF word, from
        <5>4. QED
          BY <3>4, <5>1, <5>3 DEF word, from
      <4>3. QED
        BY <4>1, <4>2
    <3>6. ok[i]
      BY <1>2, <3>1, <3>2, <3>5
    <3>7. i < n => pos[i] <= Start(e, i + 1)
      <4>1. pos[i] = end[i] + Len(lit(i + 1)) /\ Len(lit(i + 1)) \in Nat
        BY <1>2, <1>4, <3>1
      <4>2. i + 1 # 1 /\ (i + 1) - 1 = i
        BY <3>1
      <4>3. Start(e, i + 1) = Len(lit(i + 1)) + e[i]
        BY <4>2 DEF Start
      <4>4. QED
        BY <3>4, <3>5, <4>1, <4>3
    <3>8. QED
      BY <3>1, <3>5, <3>6, <3>7 DEF i
  <2> HIDE DEF Q
  <2>6. P \in SUBSET Nat /\ 0 \in P /\ \A k \in Nat : k < n /\ k \in P => k + 1 \in P
    BY <2>4, <2>5
  <2>7. \A k \in 0 .. n : Q(k)
    <3>1. \A k \in 0 .. n : k \in P
      <4> HIDE DEF P
      <4>1. QED
        BY <2>6, Climbs
    <3>2. QED
      BY <3>1
  <2>8. ok[n]
    <3>1. n \in 0 .. n /\ n <= n
      OBVIOUS
    <3>2. QED
      BY <2>7, <3>1 DEF Q
  <2>9. ASSUME NEW i \in 1 .. n PROVE end[i] <= e[i]
    <3>1. i \in 0 .. n /\ i <= n /\ i >= 1
      OBVIOUS
    <3>2. QED
      BY <2>7, <3>1 DEF Q
  <2>10. QED
    BY <2>8, <2>9
<1>11. ASSUME NEW e \in fits, e # end PROVE \E i \in 1 .. n : LessAt(end, e, i)
  <2> DEFINE S == {i \in 1 .. n : end[i] # e[i]}
  <2>1. e \in [1 .. n -> UNION {Stops(i) : i \in 1 .. n}] /\ Fit(e)
    <3> HIDE DEF Fit, Stops
    <3>1. QED
      BY <1>6
  <2>2. \A i \in 1 .. n : e[i] \in Int
    <3>1. \A i \in 1 .. n : e[i] \in Stops(i)
      <4> HIDE DEF Stops, Start
      <4>1. QED
        BY <2>1
    <3>2. \A i \in 1 .. n : Stops(i) \subseteq Int
      BY <1>5
    <3> HIDE DEF Stops
    <3>3. QED
      BY <3>1, <3>2
  <2>3. S # {}
    <3>1. e = [i \in 1 .. n |-> e[i]] /\ end = [i \in 1 .. n |-> end[i]]
      <4> HIDE DEF Stops, Fit
      <4>1. QED
        BY <1>2, <2>1
    <3>2. QED
      BY <1>11, <3>1
  <2>4. PICK i \in S : \A j \in 1 .. i - 1 : j \notin S
    <3>1. S \in SUBSET (1 .. n)
      OBVIOUS
    <3> HIDE DEF S
    <3>2. QED
      BY <2>3, <3>1, FirstOf
  <2>5. i \in 1 .. n /\ end[i] < e[i]
    <3>1. i \in 1 .. n /\ end[i] # e[i] /\ end[i] \in Int /\ e[i] \in Int
      BY <1>2, <2>2
    <3>2. end[i] <= e[i]
      BY <1>10, <1>11, <3>1
    <3>3. QED
      BY <3>1, <3>2
  <2>6. \A j \in 1 .. i - 1 : end[j] = e[j]
    <3>1. \A j \in 1 .. i - 1 : j \in 1 .. n
      BY <2>5
    <3>2. QED
      BY <2>4, <3>1
  <2>7. LessAt(end, e, i)
    BY <2>5, <2>6 DEF LessAt
  <2>8. QED
    BY <2>5, <2>7
<1>12. DOMAIN ends = 1 .. n
  BY <1>2, <1>3
<1> HIDE DEF Fit, Stops
<1>13. scan.ok <=> fits # {}
  BY <1>2, <1>9, <1>10
<1>14. fits # {} => ends \in fits
  BY <1>3, <1>9, <1>10
<1>15. ASSUME NEW other \in fits \ {ends} PROVE \E i \in DOMAIN ends : LessAt(ends, other, i)
  BY <1>3, <1>11, <1>12
<1>16. QED
  BY <1>13, <1>14, <1>15 DEF fits, scan, ends

-----------------------------------------------------------------------------
(* The wire text of its captures (wireOffsets). *)

(* The fold of WireOffsets. *)
Offsets == UNION {[D -> Int] : D \in SUBSET Int}
Places == [units : Int, wire : Int, offsets : Offsets]

NoOffset == [units |-> 0, wire |-> 0, offsets |-> [b \in {0} |-> 0]]

Place(token, acc, i) ==
  LET units == acc.units + Units(token[i])
      wire == acc.wire + Len(Wire[token[i]])
  IN  [units |-> units, wire |-> wire,
       offsets |-> [b \in DOMAIN acc.offsets \union {units} |->
                      IF b = units THEN wire ELSE acc.offsets[b]]]

PlaceIteration(token, n) ==
  CHOOSE it : it = [z \in SUBSET (1 .. n) |-> IF z = {} THEN NoOffset
                                 ELSE Place(token, it[z \ {Max(z)}], Max(z))]

LEMMA PlaceIter ==
  ASSUME NEW token, NEW n \in Nat, DOMAIN token = 1 .. n
  PROVE  WireOffsets(token) = PlaceIteration(token, n)[1 .. n].offsets
<1>1. DOMAIN [i \in DOMAIN token |-> i] = 1 .. n
  OBVIOUS
<1>2. \A z \in SUBSET (1 .. n) : z # {} => [i \in DOMAIN token |-> i][Max(z)] = Max(z)
  BY MaxOf
<1> DEFINE F(it) == [z \in SUBSET (1 .. n) |-> IF z = {} THEN NoOffset
                                  ELSE Place(token, it[z \ {Max(z)}], Max(z))]
           G(it) == [z \in SUBSET (1 .. n) |-> IF z = {} THEN NoOffset
                                  ELSE Place(token, it[z \ {Max(z)}], [i \in DOMAIN token |-> i][Max(z)])]
<1>3. \A it : F(it) = G(it)
  BY <1>2
<1>4. WireOffsets(token) = (CHOOSE it : it = G(it))[1 .. n].offsets
  BY <1>1 DEF WireOffsets, FoldLeftDomain, FoldLeft, MapThenFoldSet, NoOffset, Place
<1>5. (CHOOSE it : it = G(it)) = (CHOOSE it : it = F(it))
  BY <1>3
<1>6. QED
  BY <1>4, <1>5 DEF PlaceIteration

PlaceRun(g, token, n) ==
  /\ g[0] = NoOffset
  /\ \A i \in 0 .. n : g[i] \in Places
  /\ \A i \in 1 .. n : g[i] = Place(token, g[i - 1], i)
  /\ WireOffsets(token) = g[n].offsets

LEMMA PlaceType ==
  ASSUME NEW token, NEW i, NEW acc \in Places, Len(Wire[token[i]]) \in Nat
  PROVE  Place(token, acc, i) \in Places
<1> DEFINE units == acc.units + Units(token[i])
           wire == acc.wire + Len(Wire[token[i]])
           f == [b \in DOMAIN acc.offsets \union {units} |-> IF b = units THEN wire ELSE acc.offsets[b]]
<1>1. acc.units \in Int /\ acc.wire \in Int /\ acc.offsets \in Offsets
  BY DEF Places
<1>2. units \in Int /\ wire \in Int
  BY <1>1 DEF Units
<1>3. PICK D \in SUBSET Int : acc.offsets \in [D -> Int]
  BY <1>1 DEF Offsets
<1>4. f \in [D \union {units} -> Int]
  <2> HIDE DEF units, wire
  <2>1. QED
    BY <1>2, <1>3
<1>5. f \in Offsets
  <2>1. D \union {units} \in SUBSET Int
    BY <1>2, <1>3
  <2> HIDE DEF f, units
  <2>2. QED
    BY <1>4, <2>1 DEF Offsets
<1>6. Place(token, acc, i) = [units |-> units, wire |-> wire, offsets |-> f]
  BY DEF Place
<1> HIDE DEF f, units, wire
<1>7. QED
  BY <1>2, <1>5, <1>6 DEF Places

LEMMA PlaceSteps ==
  ASSUME NEW token, NEW n \in Nat, DOMAIN token = 1 .. n, \A i \in 1 .. n : Len(Wire[token[i]]) \in Nat
  PROVE  \E g : PlaceRun(g, token, n)
<1> DEFINE F(it) == [z \in SUBSET (1 .. n) |-> IF z = {} THEN NoOffset
                                  ELSE Place(token, it[z \ {Max(z)}], Max(z))]
           iter == PlaceIteration(token, n)
           op == [p \in Places \X (1 .. n) |-> Place(token, p[1], p[2])]
<1>2. NoOffset \in Places
  <2>1. [b \in {0} |-> 0] \in [{0} -> Int] /\ {0} \in SUBSET Int
    OBVIOUS
  <2>2. [b \in {0} |-> 0] \in Offsets
    BY <2>1 DEF Offsets
  <2>3. QED
    BY <2>2 DEF NoOffset, Places
<1>3. op \in [Places \X (1 .. n) -> Places]
  <2>1. ASSUME NEW p \in Places \X (1 .. n) PROVE Place(token, p[1], p[2]) \in Places
    BY PlaceType
  <2>2. QED
    BY <2>1
<1>4. PICK f \in [SUBSET (1 .. n) -> Places] : Folding(f, n, NoOffset, op)
  <2> HIDE DEF op
  <2>1. QED
    BY <1>2, <1>3, FoldingExists
<1>5. f = F(f)
  <2>1. ASSUME NEW z \in SUBSET (1 .. n), z # {}
        PROVE  op[<<f[z \ {Max(z)}], Max(z)>>] = Place(token, f[z \ {Max(z)}], Max(z))
    <3>1. Max(z) \in 1 .. n /\ z \ {Max(z)} \in SUBSET (1 .. n)
      BY <2>1, MaxOf
    <3>2. <<f[z \ {Max(z)}], Max(z)>> \in Places \X (1 .. n)
      BY <3>1
    <3>3. QED
      BY <3>2
  <2> HIDE DEF op
  <2>2. QED
    BY <1>4, <2>1 DEF Folding
<1>6. iter = F(iter)
  <2>1. iter = CHOOSE it : it = F(it)
    BY DEF PlaceIteration
  <2> HIDE DEF F, iter
  <2>2. QED
    BY <1>5, <2>1
<1>7. WireOffsets(token) = iter[1 .. n].offsets
  BY PlaceIter
<1>8. ASSUME NEW i \in 1 .. n PROVE iter[1 .. i] = Place(token, iter[1 .. i - 1], i)
  <2> HIDE DEF iter
  <2>1. \A z \in SUBSET (1 .. n) : z # {} => iter[z] = Place(token, iter[z \ {Max(z)}], Max(z))
    BY <1>6
  <2>2. QED
    BY <2>1, Initial
<1>9. iter[1 .. 0] = NoOffset
  <2>1. 1 .. 0 = {} /\ 1 .. 0 \in SUBSET (1 .. n)
    OBVIOUS
  <2> HIDE DEF iter
  <2>2. QED
    BY <1>6, <2>1
<1> DEFINE g == [i \in 0 .. n |-> iter[1 .. i]]
<1> HIDE DEF iter, op, F
<1>10. g[0] = NoOffset /\ WireOffsets(token) = g[n].offsets
  BY <1>7, <1>9
<1>11. \A i \in 1 .. n : g[i] = Place(token, g[i - 1], i)
  BY <1>8
<1>12. \A i \in 0 .. n : g[i] \in Places
  <2> DEFINE P == {i \in Nat : i <= n => g[i] \in Places}
  <2>1. ASSUME NEW i \in Nat, i < n, g[i] \in Places PROVE g[i + 1] \in Places
    <3>1. i + 1 \in 1 .. n /\ (i + 1) - 1 = i
      BY <2>1
    <3>2. g[i + 1] = Place(token, g[i], i + 1)
      BY <1>11, <3>1
    <3>3. Len(Wire[token[i + 1]]) \in Nat
      BY <3>1
    <3> HIDE DEF g
    <3>4. QED
      BY <2>1, <3>2, <3>3, PlaceType
  <2> HIDE DEF g
  <2>2. P \in SUBSET Nat /\ 0 \in P /\ \A i \in Nat : i < n /\ i \in P => i + 1 \in P
    BY <1>2, <1>10, <2>1
  <2>3. \A i \in 0 .. n : i \in P
    <3> HIDE DEF P
    <3>1. QED
      BY <2>2, Climbs
  <2>4. QED
    BY <2>3
<1> HIDE DEF g
<1>13. PlaceRun(g, token, n)
  BY <1>10, <1>11, <1>12 DEF PlaceRun
<1>14. QED
  BY <1>13

(* Where the first k items of a token end: as text, and on the wire. *)
Ends(token, k) == Len(Decoded(SubSeq(token, 1, k)))
WireEnds(token, k) == Len(WireText(SubSeq(token, 1, k)))

LEMMA PartsOf ==
  ASSUME NEW token \in Seq(DOMAIN Wire), Range(token) \subseteq DOMAIN Stands,
         NEW j \in 0 .. Len(token), NEW k \in j .. Len(token)
  PROVE  LET stands == [i \in DOMAIN token |-> Stands[token[i]]]
             wires == [i \in DOMAIN token |-> Wire[token[i]]]
             part == SubSeq(token, j + 1, k)
         IN  /\ stands \in Seq(Seq(Chars)) /\ wires \in Seq(Seq(Chars))
             /\ Len(stands) = Len(token) /\ Len(wires) = Len(token)
             /\ Decoded(part) = FlattenSeq(SubSeq(stands, j + 1, k))
             /\ WireText(part) = FlattenSeq(SubSeq(wires, j + 1, k))
<1> DEFINE stands == [i \in DOMAIN token |-> Stands[token[i]]]
           wires == [i \in DOMAIN token |-> Wire[token[i]]]
           part == SubSeq(token, j + 1, k)
<1>1. [1 .. Len(token) -> Seq(Chars)] \subseteq Seq(Seq(Chars))
  OBVIOUS
<1>2. /\ DOMAIN token = 1 .. Len(token) /\ Len(token) \in Nat
      /\ \A i \in 1 .. Len(token) : token[i] \in DOMAIN Wire /\ token[i] \in DOMAIN Stands
  BY DEF Range
<1>3. stands \in [1 .. Len(token) -> Seq(Chars)]
  BY <1>2, RouterAssumption DEF Chars
<1>4. wires \in [1 .. Len(token) -> Seq(Chars)]
  BY <1>2, RouterAssumption DEF Chars
<1>5. /\ stands \in Seq(Seq(Chars)) /\ wires \in Seq(Seq(Chars))
      /\ Len(stands) = Len(token) /\ Len(wires) = Len(token)
  <2> HIDE DEF stands, wires
  <2>1. QED
    BY <1>1, <1>2, <1>3, <1>4
<1>6. /\ part \in Seq(DOMAIN Wire) /\ Len(part) = k - j /\ DOMAIN part = 1 .. k - j
      /\ \A i \in 1 .. k - j : part[i] = token[j + i] /\ j + i \in 1 .. Len(token)
  <2>1. j + 1 \in Int /\ k \in Int /\ \A i \in j + 1 .. k : token[i] \in DOMAIN Wire
    BY <1>2
  <2>2. /\ part \in Seq(DOMAIN Wire) /\ Len(part) = IF j + 1 <= k THEN k - (j + 1) + 1 ELSE 0
        /\ \A i \in 1 .. k - (j + 1) + 1 : part[i] = token[(j + 1) + i - 1]
    BY <2>1, SubSeqProperties
  <2>3. \A i \in 1 .. k - j : (j + 1) + i - 1 = j + i /\ i \in 1 .. k - (j + 1) + 1 /\ j + i \in 1 .. Len(token)
    OBVIOUS
  <2>4. Len(part) = k - j
    BY <2>2
  <2>5. QED
    BY <2>2, <2>3, <2>4
<1>7. ASSUME NEW f \in Seq(Seq(Chars)), Len(f) = Len(token)
      PROVE  SubSeq(f, j + 1, k) = [i \in 1 .. k - j |-> f[j + i]]
  <2>1. j + 1 \in Int /\ k \in Int /\ \A i \in j + 1 .. k : f[i] \in Seq(Chars)
    BY <1>2, <1>7
  <2>2. /\ SubSeq(f, j + 1, k) \in Seq(Seq(Chars))
        /\ Len(SubSeq(f, j + 1, k)) = IF j + 1 <= k THEN k - (j + 1) + 1 ELSE 0
        /\ \A i \in 1 .. k - (j + 1) + 1 : SubSeq(f, j + 1, k)[i] = f[(j + 1) + i - 1]
    BY <2>1, SubSeqProperties
  <2>3. \A i \in 1 .. k - j : (j + 1) + i - 1 = j + i /\ i \in 1 .. k - (j + 1) + 1
    OBVIOUS
  <2> DEFINE t == SubSeq(f, j + 1, k)
  <2>4. t \in Seq(Seq(Chars)) /\ Len(t) = k - j
    BY <2>2
  <2>5. \A i \in 1 .. k - j : t[i] = f[j + i]
    BY <2>2, <2>3
  <2> HIDE DEF t
  <2>6. t = [i \in 1 .. k - j |-> t[i]]
    BY <2>4
  <2>7. QED
    BY <2>5, <2>6 DEF t
<1> HIDE DEF part
<1>8. [i \in DOMAIN part |-> Stands[part[i]]] = SubSeq(stands, j + 1, k)
  <2>1. \A i \in 1 .. k - j : stands[j + i] = Stands[part[i]]
    BY <1>2, <1>6
  <2> HIDE DEF stands
  <2>2. QED
    BY <1>5, <1>6, <1>7, <2>1
<1>9. [i \in DOMAIN part |-> Wire[part[i]]] = SubSeq(wires, j + 1, k)
  <2>1. \A i \in 1 .. k - j : wires[j + i] = Wire[part[i]]
    BY <1>2, <1>6
  <2> HIDE DEF wires
  <2>2. QED
    BY <1>5, <1>6, <1>7, <2>1
<1>10. Range(part) \subseteq DOMAIN Stands
  BY <1>2, <1>6 DEF Range
<1>11. Decoded(part) = FlattenSeq(SubSeq(stands, j + 1, k))
  BY <1>8, <1>10 DEF Decoded
<1>12. WireText(part) = FlattenSeq(SubSeq(wires, j + 1, k))
  BY <1>9 DEF WireText
<1>13. QED
  BY <1>5, <1>11, <1>12 DEF part

(* Each item adds to both. *)
LEMMA EndsGrow ==
  ASSUME NEW token \in Seq(DOMAIN Wire), Range(token) \subseteq DOMAIN Stands
  PROVE  /\ Ends(token, 0) = 0 /\ WireEnds(token, 0) = 0
         /\ \A k \in 0 .. Len(token) : Ends(token, k) \in Nat /\ WireEnds(token, k) \in Nat
         /\ \A k \in 1 .. Len(token) :
              /\ Ends(token, k) = Ends(token, k - 1) + Units(token[k])
              /\ WireEnds(token, k) = WireEnds(token, k - 1) + Len(Wire[token[k]])
         /\ Ends(token, Len(token)) = Len(Decoded(token))
         /\ WireEnds(token, Len(token)) = Len(WireText(token))
<1> DEFINE stands == [i \in DOMAIN token |-> Stands[token[i]]]
           wires == [i \in DOMAIN token |-> Wire[token[i]]]
<1>1. Len(token) \in Nat /\ DOMAIN token = 1 .. Len(token)
      /\ \A i \in 1 .. Len(token) : token[i] \in DOMAIN Stands
  BY DEF Range
<1>2. /\ stands \in Seq(Seq(Chars)) /\ wires \in Seq(Seq(Chars))
      /\ Len(stands) = Len(token) /\ Len(wires) = Len(token)
  <2>1. 0 \in 0 .. Len(token) /\ Len(token) \in 0 .. Len(token)
    BY <1>1
  <2>2. QED
    BY <2>1, PartsOf
<1>3. ASSUME NEW k \in 0 .. Len(token)
      PROVE  Ends(token, k) = Len(Upto(stands, k)) /\ WireEnds(token, k) = Len(Upto(wires, k))
  <2>1. 0 \in 0 .. Len(token) /\ k \in 0 .. Len(token) /\ 0 + 1 = 1
    BY <1>1
  <2>2. /\ Decoded(SubSeq(token, 0 + 1, k)) = FlattenSeq(SubSeq(stands, 0 + 1, k))
        /\ WireText(SubSeq(token, 0 + 1, k)) = FlattenSeq(SubSeq(wires, 0 + 1, k))
    BY <2>1, PartsOf
  <2> HIDE DEF stands, wires
  <2>3. QED
    BY <2>1, <2>2 DEF Ends, WireEnds, Upto
<1>4. \A i \in 1 .. Len(token) : stands[i] = Stands[token[i]] /\ wires[i] = Wire[token[i]]
  BY <1>1
<1> HIDE DEF stands, wires
<1>5. ASSUME NEW f \in Seq(Seq(Chars)), Len(f) = Len(token)
      PROVE  /\ Len(Upto(f, 0)) = 0
             /\ \A k \in 0 .. Len(token) : Len(Upto(f, k)) \in Nat
             /\ \A k \in 1 .. Len(token) : Len(Upto(f, k)) = Len(Upto(f, k - 1)) + Len(f[k])
  <2>1. Upto(f, 0) = <<>> /\ \A k \in 0 .. Len(token) : Upto(f, k) \in Seq(Chars)
    BY <1>5, Flattened
  <2>2. ASSUME NEW k \in 1 .. Len(token) PROVE Len(Upto(f, k)) = Len(Upto(f, k - 1)) + Len(f[k])
    <3>1. k - 1 \in 0 .. Len(token) /\ f[k] \in Seq(Chars)
      BY <1>5
    <3>2. Upto(f, k) = Upto(f, k - 1) \o f[k]
      BY <1>5, Flattened
    <3>3. QED
      BY <2>1, <3>1, <3>2, ConcatProperties
  <2>3. Len(Upto(f, 0)) = 0
    BY <2>1
  <2>4. \A k \in 0 .. Len(token) : Len(Upto(f, k)) \in Nat
    BY <2>1, LenProperties
  <2>5. QED
    BY <2>2, <2>3, <2>4
<1>6. Ends(token, 0) = 0 /\ WireEnds(token, 0) = 0
  <2>1. 0 \in 0 .. Len(token)
    BY <1>1
  <2>2. Len(Upto(stands, 0)) = 0 /\ Len(Upto(wires, 0)) = 0
    BY <1>2, <1>5
  <2>3. QED
    BY <1>3, <2>1, <2>2
<1>7. \A k \in 0 .. Len(token) : Ends(token, k) \in Nat /\ WireEnds(token, k) \in Nat
  BY <1>2, <1>3, <1>5
<1>8. ASSUME NEW k \in 1 .. Len(token)
      PROVE  /\ Ends(token, k) = Ends(token, k - 1) + Units(token[k])
             /\ WireEnds(token, k) = WireEnds(token, k - 1) + Len(Wire[token[k]])
  <2>1. k - 1 \in 0 .. Len(token) /\ k \in 0 .. Len(token)
    BY <1>1
  <2>2. Len(Stands[token[k]]) = Units(token[k])
    BY <1>1, RouterAssumption DEF Units
  <2>3. QED
    BY <1>2, <1>3, <1>4, <1>5, <2>1, <2>2
<1>9. SubSeq(token, 1, Len(token)) = token
  BY SubSeqFull
<1>10. QED
  BY <1>6, <1>7, <1>8, <1>9 DEF Ends, WireEnds

LEMMA EndsIncrease ==
  ASSUME NEW token \in Seq(DOMAIN Wire), Range(token) \subseteq DOMAIN Stands,
         NEW j \in 0 .. Len(token), NEW k \in 0 .. Len(token), j < k
  PROVE  Ends(token, j) < Ends(token, k)
<1> DEFINE n == k - (j + 1)
           P == {i \in Nat : i <= n => Ends(token, j) < Ends(token, (j + 1) + i)}
<1>1. n \in Nat /\ Len(token) \in Nat
  OBVIOUS
<1>2. ASSUME NEW i \in 1 .. Len(token) PROVE Ends(token, i - 1) < Ends(token, i) /\ Ends(token, i) \in Nat
  <2>1. i - 1 \in 0 .. Len(token) /\ i \in 0 .. Len(token)
    OBVIOUS
  <2>2. Units(token[i]) \in {1, 2}
    BY DEF Units
  <2>3. Ends(token, i) = Ends(token, i - 1) + Units(token[i]) /\ Ends(token, i - 1) \in Nat /\ Ends(token, i) \in Nat
    BY <2>1, EndsGrow
  <2>4. QED
    BY <2>2, <2>3
<1>3. Ends(token, j) \in Nat
  BY EndsGrow
<1>4. 0 \in P
  <2>1. j + 1 \in 1 .. Len(token) /\ (j + 1) - 1 = j /\ (j + 1) + 0 = j + 1
    OBVIOUS
  <2>2. QED
    BY <1>2, <2>1
<1>5. ASSUME NEW i \in Nat, i < n, Ends(token, j) < Ends(token, (j + 1) + i)
      PROVE  Ends(token, j) < Ends(token, (j + 1) + (i + 1))
  <2> DEFINE m == (j + 1) + (i + 1)
  <2>1. m \in 1 .. Len(token) /\ m - 1 \in 0 .. Len(token) /\ m - 1 = (j + 1) + i
    BY <1>5
  <2>2. Ends(token, m - 1) < Ends(token, m) /\ Ends(token, m) \in Nat
    BY <1>2, <2>1
  <2>3. Ends(token, m - 1) \in Nat
    BY <2>1, EndsGrow
  <2>4. Ends(token, j) < Ends(token, m - 1)
    BY <1>5, <2>1
  <2> HIDE DEF m
  <2>5. Ends(token, j) < Ends(token, m)
    BY <1>3, <2>2, <2>3, <2>4
  <2>6. QED
    BY <2>5 DEF m
<1>6. P \in SUBSET Nat /\ 0 \in P /\ \A i \in Nat : i < n /\ i \in P => i + 1 \in P
  <2> HIDE DEF n
  <2>1. QED
    BY <1>1, <1>4, <1>5
<1>7. n \in P
  <2>1. n \in 0 .. n
    BY <1>1
  <2> HIDE DEF P, n
  <2>2. QED
    BY <1>1, <1>6, <2>1, Climbs
<1>8. (j + 1) + n = k /\ n <= n
  OBVIOUS
<1>9. QED
  BY <1>7, <1>8

(* The boundaries of a token are where its items end, each at its place on the
   wire. *)
LEMMA BoundariesAre ==
  ASSUME NEW token \in Seq(DOMAIN Wire), Range(token) \subseteq DOMAIN Stands
  PROVE  /\ DOMAIN Boundaries(token) = {Ends(token, j) : j \in 0 .. Len(token)}
         /\ \A j \in 0 .. Len(token) : Boundaries(token)[Ends(token, j)] = WireEnds(token, j)
<1> DEFINE n == Len(token)
           B(k) == Ends(token, k)
           W(k) == WireEnds(token, k)
<1>1. n \in Nat /\ DOMAIN token = 1 .. n /\ \A i \in 1 .. n : token[i] \in DOMAIN Stands /\ token[i] \in DOMAIN Wire
  BY DEF Range
<1>2. \A i \in 1 .. n : Len(Wire[token[i]]) \in Nat
  BY <1>1, RouterAssumption
<1>3. /\ B(0) = 0 /\ W(0) = 0
      /\ \A k \in 0 .. n : B(k) \in Nat /\ W(k) \in Nat
      /\ \A k \in 1 .. n : /\ B(k) = B(k - 1) + Units(token[k])
                           /\ W(k) = W(k - 1) + Len(Wire[token[k]])
      /\ B(n) = Len(Decoded(token)) /\ W(n) = Len(WireText(token))
  BY EndsGrow
<1>4. \A j, k \in 0 .. n : j < k => B(j) < B(k)
  BY EndsIncrease
<1> HIDE DEF n, B, W
<1>5. CASE Decoded(token) = WireText(token)
  <2>1. ASSUME NEW k \in 1 .. n
        PROVE  Len(Wire[token[k]]) >= Units(token[k]) /\ (token[k] \in Astral => Len(Wire[token[k]]) > Units(token[k]))
    BY <1>1, RouterAssumption DEF Units
  <2>2. \A k \in 0 .. n : W(k) >= B(k)
    <3> DEFINE P == {k \in Nat : k <= n => W(k) >= B(k)}
    <3>1. ASSUME NEW k \in Nat, k < n, W(k) >= B(k) PROVE W(k + 1) >= B(k + 1)
      <4>1. k + 1 \in 1 .. n /\ (k + 1) - 1 = k /\ k \in 0 .. n
        BY <1>1, <3>1
      <4>2. B(k + 1) = B(k) + Units(token[k + 1]) /\ W(k + 1) = W(k) + Len(Wire[token[k + 1]])
        BY <1>3, <4>1
      <4>3. Units(token[k + 1]) \in Nat /\ Len(Wire[token[k + 1]]) \in Nat /\ B(k) \in Nat /\ W(k) \in Nat
        BY <1>2, <1>3, <4>1 DEF Units
      <4>4. QED
        BY <2>1, <3>1, <4>1, <4>2, <4>3
    <3>2. P \in SUBSET Nat /\ 0 \in P /\ \A k \in Nat : k < n /\ k \in P => k + 1 \in P
      BY <1>1, <1>3, <3>1
    <3>3. \A k \in 0 .. n : k \in P
      <4> HIDE DEF P
      <4>1. QED
        BY <1>1, <3>2, Climbs
    <3>4. QED
      BY <1>1, <3>3
  <2>3. ASSUME NEW k \in 0 .. n PROVE W(n - k) = B(n - k)
    <3> DEFINE P == {i \in Nat : i <= n => W(n - i) = B(n - i)}
    <3>1. ASSUME NEW i \in Nat, i < n, W(n - i) = B(n - i) PROVE W(n - (i + 1)) = B(n - (i + 1))
      <4> DEFINE m == n - i
      <4>1. m \in 1 .. n /\ m - 1 = n - (i + 1) /\ m - 1 \in 0 .. n
        BY <1>1, <3>1
      <4> HIDE DEF m
      <4>2. /\ B(m) = B(m - 1) + Units(token[m]) /\ W(m) = W(m - 1) + Len(Wire[token[m]])
            /\ Units(token[m]) \in Nat /\ Len(Wire[token[m]]) \in Nat
            /\ B(m - 1) \in Nat /\ W(m - 1) \in Nat
        BY <1>2, <1>3, <4>1 DEF Units
      <4>3. Len(Wire[token[m]]) >= Units(token[m]) /\ W(m - 1) >= B(m - 1)
        BY <2>1, <2>2, <4>1
      <4>4. W(m) = B(m)
        BY <3>1 DEF m
      <4>5. W(m - 1) = B(m - 1)
        <5>1. \A a, b, c, d \in Nat : a + c = b + d /\ c >= d /\ a >= b => a = b
          OBVIOUS
        <5>2. W(m - 1) + Len(Wire[token[m]]) = B(m - 1) + Units(token[m])
          BY <4>2, <4>4
        <5>3. QED
          BY <4>2, <4>3, <5>1, <5>2
      <4>6. QED
        BY <4>1, <4>5
    <3>2. P \in SUBSET Nat /\ 0 \in P /\ \A i \in Nat : i < n /\ i \in P => i + 1 \in P
      <4>1. n - 0 = n /\ W(n) = B(n)
        BY <1>1, <1>3, <1>5
      <4>2. QED
        BY <1>1, <3>1, <4>1
    <3>3. k \in P
      <4> HIDE DEF P
      <4>1. QED
        BY <1>1, <3>2, Climbs
    <3>4. QED
      BY <1>1, <3>3
  <2>4. \A k \in 0 .. n : W(k) = B(k)
    <3>1. \A k \in 0 .. n : n - k \in 0 .. n /\ n - (n - k) = k
      BY <1>1
    <3>2. QED
      BY <2>3, <3>1
  <2>5. ASSUME NEW k \in 1 .. n PROVE Units(token[k]) = 1
    <3>1. /\ B(k) = B(k - 1) + Units(token[k]) /\ W(k) = W(k - 1) + Len(Wire[token[k]])
          /\ k - 1 \in 0 .. n /\ k \in 0 .. n
          /\ Units(token[k]) \in Nat /\ Len(Wire[token[k]]) \in Nat
      BY <1>1, <1>2, <1>3 DEF Units
    <3>2. B(k - 1) \in Nat /\ W(k - 1) = B(k - 1) /\ W(k) = B(k)
      BY <1>3, <2>4, <3>1
    <3>3. Len(Wire[token[k]]) = Units(token[k])
      BY <3>1, <3>2
    <3>4. token[k] \notin Astral
      BY <2>1, <3>1, <3>3
    <3>5. QED
      BY <3>4 DEF Units
  <2>6. \A k \in 0 .. n : B(k) = k
    <3> DEFINE P == {k \in Nat : k <= n => B(k) = k}
    <3>1. ASSUME NEW k \in Nat, k < n, B(k) = k PROVE B(k + 1) = k + 1
      <4>1. k + 1 \in 1 .. n /\ (k + 1) - 1 = k
        BY <1>1, <3>1
      <4>2. B(k + 1) = B(k) + Units(token[k + 1]) /\ Units(token[k + 1]) = 1
        BY <1>3, <2>5, <4>1
      <4>3. QED
        BY <3>1, <4>2
    <3>2. P \in SUBSET Nat /\ 0 \in P /\ \A k \in Nat : k < n /\ k \in P => k + 1 \in P
      BY <1>1, <1>3, <3>1
    <3>3. \A k \in 0 .. n : k \in P
      <4> HIDE DEF P
      <4>1. QED
        BY <1>1, <3>2, Climbs
    <3>4. QED
      BY <1>1, <3>3
  <2>7. Len(WireText(token)) = n
    <3>1. n \in 0 .. n
      BY <1>1
    <3>2. QED
      BY <1>3, <2>4, <2>6, <3>1
  <2>8. Boundaries(token) = [b \in 0 .. n |-> b]
    BY <1>5, <2>7 DEF Boundaries
  <2>9. {B(j) : j \in 0 .. n} = 0 .. n
    BY <2>6
  <2>10. \A j \in 0 .. n : Boundaries(token)[B(j)] = W(j)
    BY <2>4, <2>6, <2>8
  <2>11. QED
    BY <2>8, <2>9, <2>10 DEF B, W, n
<1>6. CASE Decoded(token) # WireText(token)
  <2>1. PICK g : PlaceRun(g, token, n)
    BY <1>1, <1>2, PlaceSteps
  <2>2. /\ g[0] = NoOffset
        /\ \A i \in 1 .. n : g[i] = Place(token, g[i - 1], i)
        /\ WireOffsets(token) = g[n].offsets
    BY <2>1 DEF PlaceRun
  <2> DEFINE Q(k) == /\ g[k].units = B(k) /\ g[k].wire = W(k)
                     /\ DOMAIN g[k].offsets = {B(j) : j \in 0 .. k}
                     /\ \A j \in 0 .. k : g[k].offsets[B(j)] = W(j)
             P == {k \in Nat : k <= n => Q(k)}
  <2>3. Q(0)
    BY <1>3, <2>2 DEF NoOffset
  <2>4. ASSUME NEW k \in Nat, k < n, Q(k) PROVE Q(k + 1)
    <3> DEFINE m == k + 1
               acc == g[k]
    <3>1. m \in 1 .. n /\ m - 1 = k /\ k \in 0 .. n /\ m \in 0 .. n
      BY <1>1, <2>4
    <3>2. /\ acc.units = B(k) /\ acc.wire = W(k)
          /\ DOMAIN acc.offsets = {B(j) : j \in 0 .. k}
          /\ \A j \in 0 .. k : acc.offsets[B(j)] = W(j)
      BY <2>4
    <3>3. g[m] = Place(token, acc, m)
      BY <2>2, <3>1
    <3>4. acc.units + Units(token[m]) = B(m) /\ acc.wire + Len(Wire[token[m]]) = W(m)
      BY <1>3, <3>1, <3>2
    <3> HIDE DEF acc
    <3>5. /\ g[m].units = B(m) /\ g[m].wire = W(m)
          /\ g[m].offsets = [b \in DOMAIN acc.offsets \union {B(m)} |->
                               IF b = B(m) THEN W(m) ELSE acc.offsets[b]]
      BY <3>3, <3>4 DEF Place
    <3>6. \A j \in 0 .. m : j \in 0 .. k \/ j = m
      BY <3>1
    <3>7. \A j \in 0 .. k : j \in 0 .. m /\ j \in 0 .. n /\ j < m
      BY <1>1, <2>4
    <3>8. \A j \in 0 .. k : B(j) # B(m)
      <4>1. ASSUME NEW j \in 0 .. k PROVE B(j) < B(m) /\ B(j) \in Nat /\ B(m) \in Nat
        BY <1>3, <1>4, <3>1, <3>7
      <4>2. \A j \in 0 .. k : B(j) < B(m) /\ B(j) \in Nat /\ B(m) \in Nat
        BY <4>1
      <4>3. QED
        BY <4>2
    <3>9. m \in 0 .. m
      BY <3>1
    <3> HIDE DEF m
    <3>10. DOMAIN g[m].offsets = {B(j) : j \in 0 .. m}
      BY <3>2, <3>5, <3>6, <3>7, <3>9
    <3>11. ASSUME NEW j \in 0 .. m PROVE g[m].offsets[B(j)] = W(j)
      <4>1. B(j) \in DOMAIN acc.offsets \union {B(m)}
        BY <3>2, <3>6
      <4>2. g[m].offsets[B(j)] = IF B(j) = B(m) THEN W(m) ELSE acc.offsets[B(j)]
        BY <3>5, <4>1
      <4>3. CASE j = m
        BY <4>2, <4>3
      <4>4. CASE j # m
        <5>1. j \in 0 .. k
          BY <3>6, <4>4
        <5>2. QED
          BY <3>2, <3>8, <4>2, <5>1
      <4>5. QED
        BY <4>3, <4>4
    <3>12. Q(m)
      BY <3>5, <3>10, <3>11
    <3>13. QED
      BY <3>12 DEF m
  <2>5. Q(n)
    <3> HIDE DEF Q
    <3>1. P \in SUBSET Nat /\ 0 \in P /\ \A k \in Nat : k < n /\ k \in P => k + 1 \in P
      BY <1>1, <2>3, <2>4
    <3>2. n \in P
      <4>1. n \in 0 .. n
        BY <1>1
      <4> HIDE DEF P
      <4>2. QED
        BY <1>1, <3>1, <4>1, Climbs
    <3>3. QED
      BY <1>1, <3>2
  <2>6. Boundaries(token) = g[n].offsets
    BY <1>6, <2>2 DEF Boundaries
  <2>7. QED
    BY <2>5, <2>6 DEF B, W, n
<1>7. QED
  BY <1>5, <1>6

(* The wire text of a capture whose boundaries are those of items. *)
LEMMA WireOfRun ==
  ASSUME NEW token \in Seq(DOMAIN Wire), Range(token) \subseteq DOMAIN Stands,
         NEW j \in 0 .. Len(token), NEW k \in j .. Len(token)
  PROVE  SubSeq(WireText(token), WireEnds(token, j) + 1, WireEnds(token, k)) =
           WireText(SubSeq(token, j + 1, k))
<1> DEFINE wires == [i \in DOMAIN token |-> Wire[token[i]]]
           run == FlattenSeq(SubSeq(wires, j + 1, k))
           rest == FlattenSeq(SubSeq(wires, k + 1, Len(token)))
<1>1. Len(token) \in Nat /\ k \in 0 .. Len(token) /\ Len(token) \in k .. Len(token) /\ 0 \in 0 .. Len(token)
      /\ j \in 0 .. Len(token) /\ Len(token) \in 0 .. Len(token) /\ 0 + 1 = 1
  OBVIOUS
<1>2. wires \in Seq(Seq(Chars)) /\ Len(wires) = Len(token) /\ WireText(SubSeq(token, j + 1, k)) = run
  BY PartsOf
<1>3. ASSUME NEW i \in 0 .. Len(token) PROVE WireText(SubSeq(token, 1, i)) = Upto(wires, i)
  <2>1. WireText(SubSeq(token, 0 + 1, i)) = FlattenSeq(SubSeq(wires, 0 + 1, i))
    BY <1>1, PartsOf
  <2> HIDE DEF wires
  <2>2. QED
    BY <1>1, <2>1 DEF Upto
<1>4. SubSeq(token, 1, Len(token)) = token
  BY SubSeqFull
<1> HIDE DEF wires
<1>5. WireText(token) = Upto(wires, Len(token))
  BY <1>1, <1>3, <1>4
<1>6. run \in Seq(Chars) /\ Upto(wires, k) = Upto(wires, j) \o run
  BY <1>1, <1>2, FlattenedTail
<1>7. rest \in Seq(Chars) /\ Upto(wires, Len(token)) = Upto(wires, k) \o rest
  <2>1. k \in 0 .. Len(wires) /\ Len(token) \in k .. Len(wires)
    BY <1>1, <1>2
  <2>2. QED
    BY <1>2, <2>1, FlattenedTail
<1>8. WireEnds(token, j) = Len(Upto(wires, j)) /\ WireEnds(token, k) = Len(Upto(wires, k))
  BY <1>1, <1>3 DEF WireEnds
<1>9. Upto(wires, j) \in Seq(Chars)
  BY <1>1, <1>2, Flattened
<1> HIDE DEF run, rest
<1>10. ASSUME NEW a \in Seq(Chars), NEW b \in Seq(Chars), NEW c \in Seq(Chars)
       PROVE  SubSeq((a \o b) \o c, Len(a) + 1, Len(a \o b)) = b
  <2> DEFINE t == (a \o b) \o c
             s == SubSeq(t, Len(a) + 1, Len(a \o b))
  <2>1. /\ a \o b \in Seq(Chars) /\ Len(a \o b) = Len(a) + Len(b)
        /\ \A i \in 1 .. Len(a) + Len(b) : (a \o b)[i] = IF i <= Len(a) THEN a[i] ELSE b[i - Len(a)]
    BY ConcatProperties
  <2>2. /\ t \in Seq(Chars) /\ Len(t) = Len(a \o b) + Len(c)
        /\ \A i \in 1 .. Len(a \o b) + Len(c) : t[i] = IF i <= Len(a \o b) THEN (a \o b)[i] ELSE c[i - Len(a \o b)]
    BY <2>1, ConcatProperties
  <2>3. Len(a) \in Nat /\ Len(b) \in Nat /\ Len(c) \in Nat
    OBVIOUS
  <2>4. ASSUME NEW i \in 1 .. Len(b) PROVE t[Len(a) + i] = b[i] /\ t[Len(a) + i] \in Chars
    <3>1. Len(a) + i \in 1 .. Len(a) + Len(b) /\ Len(a) + i \in 1 .. Len(a \o b) + Len(c)
          /\ Len(a) + i <= Len(a \o b) /\ ~(Len(a) + i <= Len(a)) /\ (Len(a) + i) - Len(a) = i
      BY <2>1, <2>3
    <3>2. t[Len(a) + i] = (a \o b)[Len(a) + i]
      BY <2>2, <3>1
    <3>3. (a \o b)[Len(a) + i] = b[(Len(a) + i) - Len(a)]
      BY <2>1, <3>1
    <3>4. QED
      BY <3>1, <3>2, <3>3
  <2> HIDE DEF t
  <2>5. \A i \in Len(a) + 1 .. Len(a \o b) : t[i] \in Chars
    <3>1. \A i \in Len(a) + 1 .. Len(a \o b) : i - Len(a) \in 1 .. Len(b) /\ Len(a) + (i - Len(a)) = i
      BY <2>1, <2>3
    <3>2. QED
      BY <2>4, <3>1
  <2>6. Len(a) + 1 \in Int /\ Len(a \o b) \in Int /\ Len(a \o b) - (Len(a) + 1) + 1 = Len(b)
    BY <2>1, <2>3
  <2>7. /\ s \in Seq(Chars)
        /\ Len(s) = IF Len(a) + 1 <= Len(a \o b) THEN Len(a \o b) - (Len(a) + 1) + 1 ELSE 0
        /\ \A i \in 1 .. Len(a \o b) - (Len(a) + 1) + 1 : s[i] = t[(Len(a) + 1) + i - 1]
    BY <2>5, <2>6, SubSeqProperties
  <2>8. Len(s) = Len(b)
    BY <2>1, <2>3, <2>7
  <2>9. \A i \in 1 .. Len(b) : s[i] = b[i]
    <3>1. \A i \in 1 .. Len(b) : (Len(a) + 1) + i - 1 = Len(a) + i
      BY <2>3
    <3>2. QED
      BY <2>4, <2>6, <2>7, <3>1
  <2> HIDE DEF s
  <2>10. s = b
    BY <2>7, <2>8, <2>9, SeqEqual
  <2>11. QED
    BY <2>10 DEF s, t
<1>11. QED
  BY <1>2, <1>5, <1>6, <1>7, <1>8, <1>9, <1>10

-----------------------------------------------------------------------------
(* The segments and the tokens that meet. *)
LEMMA LiteralIs ==
  ASSUME NEW s, Segmented(s), NEW i \in 1 .. Len(s.names) + 1 PROVE Literal(s, i) \in Seq(Chars)
<1>1. s.literals[i] \in Seq(DOMAIN Wire)
  BY DEF Segmented
<1>2. QED
  BY <1>1, DecodedIs DEF Literal

LEMMA CompoundIs ==
  ASSUME world \in Worlds, NEW s \in CompoundSegments
  PROVE  /\ Len(s.names) \in Nat /\ Len(s.names) >= 1 /\ DOMAIN s.names = 1 .. Len(s.names)
         /\ \A i \in 1 .. Len(s.names) + 1 : Literal(s, i) \in Seq(Chars)
<1>1. Kind(s) = "compound" /\ \E r \in UNION Range(world.members) : s \in Range(r.segments)
  BY DEF CompoundSegments
<1>2. Segmented(s)
  BY <1>1, ValidatorAssumption
<1>3. s.names # <<>>
  BY <1>1 DEF Kind
<1>4. s.names \in Seq(Seq(DOMAIN Wire))
  BY <1>2 DEF Segmented
<1>5. Len(s.names) \in Nat /\ Len(s.names) >= 1 /\ DOMAIN s.names = 1 .. Len(s.names)
  BY <1>3, <1>4, EmptySeq
<1>6. QED
  BY <1>2, <1>5, LiteralIs

(* A request answered is one of those that are made. *)
Requested == last.call = "request" => last.request \in Dispatches[world]

LEMMA RequestedNext == ReadsCounted /\ Requested /\ [Next]_vars => Requested'
<1>1. SUFFICES ASSUME ReadsCounted, Requested, [Next]_vars, last'.call = "request"
               PROVE  last'.request \in Dispatches[world']
  BY DEF Requested
<1>2. world' = world
  BY <1>1, WorldStays
<1>3. CASE last' = last
  BY <1>1, <1>2, <1>3 DEF Requested
<1>4. ASSUME NEW d \in Dispatches[world], ValidateRequest(d) PROVE last'.request \in Dispatches[world]
  BY <1>4 DEF ValidateRequest, Validate, Called
<1>5. CASE last' # last
  BY <1>1, <1>2, <1>4, <1>5, OthersCall
<1>6. QED
  BY <1>3, <1>5

LEMMA TokenIs ==
  ASSUME world \in Worlds, Requested, last.call = "request", NEW token \in Range(last.request.path)
  PROVE  token \in Seq(DOMAIN Wire)
<1>1. PICK q \in Asked(world) : last.request = Dispatched(q)
  BY DEF Requested, Dispatches
<1>2. last.request.path = q.path
  BY <1>1, DispatchedIs
<1>3. PICK p \in world.requests : q.path = p.path
  BY DEF Asked
<1>4. p.path \in Seq(Seq(DOMAIN Wire))
  BY ValidatorAssumption
<1>5. QED
  BY <1>2, <1>3, <1>4 DEF Range

(* The scan that replaced a regular expression captures what that expression,
   lazy and anchored, would have captured, and matches where it would have, for
   all segments and tokens: matchCompound never has to backtrack. *)
THEOREM CapturesAreLazyAlways == Spec => []CapturesAreLazy
<1>1. Init => Requested
  BY DEF Init, Requested, NoCall
<1>2. world \in Worlds /\ Requested => CapturesAreLazy
  <2>1. SUFFICES ASSUME world \in Worlds, Requested, last.call = "request",
                        NEW s \in CompoundSegments, NEW token \in Range(last.request.path)
                 PROVE  LET text == Decoded(token)
                            fits == Fits(s, text)
                            scan == Scan(s, text)
                            ends == [i \in DOMAIN s.names |-> scan.spans[i][2]]
                        IN  /\ scan.ok <=> (fits # {})
                            /\ fits # {} =>
                                 /\ ends \in fits
                                 /\ \A other \in fits \ {ends} : \E i \in DOMAIN ends : LessAt(ends, other, i)
    BY DEF CapturesAreLazy
  <2>2. Decoded(token) \in Seq(Chars)
    BY <2>1, TokenIs, DecodedIs
  <2>3. /\ Len(s.names) \in Nat /\ Len(s.names) >= 1 /\ DOMAIN s.names = 1 .. Len(s.names)
        /\ \A i \in 1 .. Len(s.names) + 1 : Literal(s, i) \in Seq(Chars)
    BY <2>1, CompoundIs
  <2>4. QED
    BY <2>2, <2>3, ScanIsLazy
<1>3. QED
  BY <1>1, <1>2, ReadsCountedInit, WorldsNext, ReadsCountedNext, RequestedNext, PTL DEF Spec

-----------------------------------------------------------------------------
(* The runs of a token's items between two offsets of its text. *)
Runs(token, span) ==
  {jk \in (0 .. Len(token)) \X (0 .. Len(token)) :
     Ends(token, jk[1]) = span[1] /\ Ends(token, jk[2]) = span[2]}

LEMMA RawCaptureIs ==
  ASSUME NEW token \in Seq(DOMAIN Wire), Range(token) \subseteq DOMAIN Stands,
         NEW a \in Int, NEW b \in Int, a < b
  PROVE  Range(RawCapture(token, <<a, b>>)) =
           {WireText(SubSeq(token, run[1] + 1, run[2])) : run \in Runs(token, <<a, b>>)}
<1> DEFINE places == Boundaries(token)
           span == <<a, b>>
<1>1. /\ DOMAIN places = {Ends(token, j) : j \in 0 .. Len(token)}
      /\ \A j \in 0 .. Len(token) : places[Ends(token, j)] = WireEnds(token, j)
  BY BoundariesAre
<1>2. Len(token) \in Nat /\ \A j \in 0 .. Len(token) : Ends(token, j) \in Nat
  BY EndsGrow
<1>3. \A j, k \in 0 .. Len(token) : j < k => Ends(token, j) < Ends(token, k)
  BY EndsIncrease
<1>4. \A j, k \in 0 .. Len(token) : Ends(token, j) = Ends(token, k) => j = k
  <2>1. ASSUME NEW j \in 0 .. Len(token), NEW k \in 0 .. Len(token), j # k
        PROVE  Ends(token, j) # Ends(token, k)
    <3>1. j < k \/ k < j
      BY <1>2, <2>1
    <3>2. Ends(token, j) < Ends(token, k) \/ Ends(token, k) < Ends(token, j)
      BY <1>3, <3>1
    <3>3. QED
      BY <1>2, <3>2
  <2>2. QED
    BY <2>1
<1>5. span[1] = a /\ span[2] = b
  OBVIOUS
<1> HIDE DEF places, span
<1>6. CASE a \in DOMAIN places /\ b \in DOMAIN places
  <2>1. PICK j \in 0 .. Len(token), k \in 0 .. Len(token) : Ends(token, j) = a /\ Ends(token, k) = b
    BY <1>1, <1>6
  <2>2. j <= k
    <3>1. ~(k < j)
      BY <1>2, <1>3, <2>1
    <3>2. QED
      BY <1>2, <3>1
  <2>3. Runs(token, span) = {<<j, k>>}
    BY <1>4, <1>5, <2>1 DEF Runs
  <2>4. RawCapture(token, span) = <<SubSeq(WireText(token), WireEnds(token, j) + 1, WireEnds(token, k))>>
    BY <1>1, <1>5, <1>6, <2>1 DEF RawCapture, places
  <2>5. SubSeq(WireText(token), WireEnds(token, j) + 1, WireEnds(token, k)) = WireText(SubSeq(token, j + 1, k))
    <3>1. k \in j .. Len(token)
      BY <1>2, <2>2
    <3>2. QED
      BY <3>1, WireOfRun
  <2>6. \A x : Range(<<x>>) = {x}
    BY DEF Range
  <2>7. {WireText(SubSeq(token, run[1] + 1, run[2])) : run \in {<<j, k>>}} = {WireText(SubSeq(token, j + 1, k))}
    OBVIOUS
  <2>8. QED
    BY <2>3, <2>4, <2>5, <2>6, <2>7 DEF span
<1>7. CASE ~(a \in DOMAIN places /\ b \in DOMAIN places)
  <2>1. RawCapture(token, span) = <<>>
    BY <1>5, <1>7 DEF RawCapture, places
  <2>2. Runs(token, span) = {}
    BY <1>1, <1>5, <1>7 DEF Runs
  <2>3. Range(<<>>) = {}
    BY DEF Range
  <2>4. QED
    BY <2>1, <2>2, <2>3 DEF span
<1>8. QED
  BY <1>6, <1>7

(* A parameter of a scan that succeeds takes at least a character. *)
LEMMA SpanIs ==
  ASSUME NEW s, NEW n \in Nat, n = Len(s.names), DOMAIN s.names = 1 .. n, NEW text \in Seq(Chars),
         \A i \in 1 .. n + 1 : Literal(s, i) \in Seq(Chars), Scan(s, text).ok, NEW i \in 1 .. n
  PROVE  \E a, b \in Int : a < b /\ Scan(s, text).spans[i] = <<a, b>>
<1>1. PICK pos, ok, end : Passes(pos, ok, end, s, n, text)
  BY Scanned
<1>2. ok[n]
  BY <1>1 DEF Passes
<1>3. ok[i]
  BY <1>1, <1>2, PassesOk
<1>4. pos[i - 1] \in Int /\ end[i] \in Int
  <2>1. i - 1 \in 0 .. n /\ pos \in [0 .. n -> Int] /\ end \in [1 .. n -> Int]
    BY <1>1 DEF Passes
  <2>2. QED
    BY <2>1
<1>5. end[i] >= pos[i - 1] + 1 /\ Scan(s, text).spans[i] = <<pos[i - 1], end[i]>>
  BY <1>1, <1>3 DEF Passes
<1>6. QED
  BY <1>4, <1>5

(* The wire text given with a capture is the run of the token that decodes to
   the capture, and there is none exactly when no run does, for all segments,
   tokens and escapes (matchCompound, wireOffsets). *)
THEOREM WireCapturesDecodeAlways == Spec => []WireCapturesDecode
<1>1. Init => Requested
  BY DEF Init, Requested, NoCall
<1>2. world \in Worlds /\ Requested => WireCapturesDecode
  <2>1. SUFFICES ASSUME world \in Worlds, Requested, last.call = "request",
                        NEW s \in CompoundSegments, NEW token \in Range(last.request.path),
                        Range(token) \subseteq DOMAIN Stands, Scan(s, Decoded(token)).ok,
                        NEW i \in DOMAIN s.names
                 PROVE  LET span == Scan(s, Decoded(token)).spans[i]
                        IN  Range(RawCapture(token, span)) =
                              {WireText(SubSeq(token, run[1] + 1, run[2])) : run \in Runs(token, span)}
    BY DEF WireCapturesDecode, Runs, Ends
  <2>2. token \in Seq(DOMAIN Wire) /\ Decoded(token) \in Seq(Chars)
    BY <2>1, TokenIs, DecodedIs
  <2>3. /\ Len(s.names) \in Nat /\ DOMAIN s.names = 1 .. Len(s.names)
        /\ \A k \in 1 .. Len(s.names) + 1 : Literal(s, k) \in Seq(Chars)
    BY <2>1, CompoundIs
  <2>4. PICK a \in Int, b \in Int : a < b /\ Scan(s, Decoded(token)).spans[i] = <<a, b>>
    BY <2>1, <2>2, <2>3, SpanIs
  <2>5. QED
    BY <2>1, <2>2, <2>4, RawCaptureIs
<1>3. QED
  BY <1>1, <1>2, ReadsCountedInit, WorldsNext, ReadsCountedNext, RequestedNext, PTL DEF Spec
=============================================================================
