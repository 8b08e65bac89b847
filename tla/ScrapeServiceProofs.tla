------------------------ MODULE ScrapeServiceProofs ------------------------
(***************************************************************************)
(* What holds of the scrape service for any number of requests, domains,   *)
(* permits, browsers and retries, and any threshold.                       *)
(***************************************************************************)
EXTENDS ScrapeService, FiniteSetTheorems, TLAPS

\* What the stage of a request tells of its chain.
ChainShape(r) ==
  /\ run[r].stage \in {"trying", "crawling", "learning"} => run[r].todo # <<>>
  /\ run[r].stage = "crawling" => Method(r) = "crawl4ai"
  /\ run[r].stage = "learning" => Method(r) # "mark"

PermitInv == TypeOK /\ PermitsConserved /\ \A r \in Requests : ChainShape(r)

-----------------------------------------------------------------------------
(* How the coroutine of a request moves. *)

LEMMA ConstantTypes ==
  /\ IsFiniteSet(Requests)
  /\ DomainOf \in [Urls -> Domains]
  /\ \A r \in Requests : Jobs[r] \subseteq [url : Urls, force : ForcedMethods]
  /\ MAX_CONCURRENT \in Nat \ {0} /\ THRESHOLD \in Nat \ {0}
  /\ CRAWL4AI_RETRIES \in Nat \ {0} /\ SELENIUM_RETRIES \in Nat \ {0}
  /\ MaxTime \in Nat /\ NoRow \notin Row
BY ScrapeConstants, NoRowIsNone

\* Only the coroutine of r moves, and it moves to s.
MovesTo(r, s) ==
  /\ run' \in [Requests -> Coroutine]
  /\ run'[r].stage = s
  /\ \A q \in Requests : q # r => run'[q] = run[q]

LEMMA GoToMoves ==
  ASSUME TypeOK, NEW r \in Requests, NEW s \in Stages, GoTo(r, s)
  PROVE  /\ MovesTo(r, s)
         /\ run'[r].todo = run[r].todo /\ run'[r].tried = run[r].tried
BY DEF TypeOK, GoTo, MovesTo, Coroutine

LEMMA StartMoves ==
  ASSUME TypeOK, NEW r \in Requests, NEW chain \in Seq(Calls), Start(r, chain)
  PROVE  /\ MovesTo(r, "trying")
         /\ run'[r].todo = chain /\ run'[r].tried = run[r].tried
BY DEF TypeOK, Start, MovesTo, Coroutine, Stages, Holding

LEMMA AttemptMoves ==
  ASSUME TypeOK, NEW r \in Requests, NEW rest \in Seq(Calls), Attempt(r, rest),
         run[r].todo # <<>>
  PROVE  /\ MovesTo(r, IF rest = <<>> THEN "recording" ELSE "trying")
         /\ run'[r].todo = rest
         /\ run'[r].tried = run[r].tried \cup ({Method(r)} \ {"mark"})
<1>1. Method(r) \in Calls
  BY DEF TypeOK, Coroutine, Method
<1>2. run[r].tried \cup ({Method(r)} \ {"mark"}) \in SUBSET Methods
  BY <1>1 DEF TypeOK, Coroutine, Calls
<1>3. (IF rest = <<>> THEN "recording" ELSE "trying") \in Stages
  BY DEF Stages, Holding
<1> QED BY <1>2, <1>3 DEF TypeOK, Attempt, MovesTo, Coroutine, Method

LEMMA AnswerMoves ==
  ASSUME TypeOK, NEW r \in Requests, NEW a \in Answers, Answer(r, a)
  PROVE  MovesTo(r, "done") /\ answer' \in [Requests -> Answers \cup {"none"}]
<1>1. At("done") \in Coroutine
  <2>1. Nothing \in Seen
    BY ConstantTypes DEF Nothing, Seen
  <2>2. "done" \in Stages /\ <<>> \in Seq(Calls)
    BY DEF Stages
  <2> QED BY <2>1, <2>2 DEF At, Coroutine
<1>2. At("done").stage = "done"
  BY DEF At
<1> QED BY <1>1, <1>2 DEF TypeOK, Answer, MovesTo

-----------------------------------------------------------------------------
(* The permits. *)

LEMMA HoldersFinite ==
  ASSUME NEW d
  PROVE  IsFiniteSet(Holders(d)) /\ Cardinality(Holders(d)) \in Nat
<1>1. Holders(d) \subseteq Requests
  BY DEF Holders
<1> QED BY <1>1, ConstantTypes, FS_Subset, FS_CardinalityType

\* Nobody takes or gives back a permit.
LEMMA PermitsStay ==
  ASSUME PermitsConserved, UNCHANGED <<job, free>>,
         \A q \in Requests : run'[q].stage \in Holding <=> run[q].stage \in Holding
  PROVE  PermitsConserved'
<1>1. \A d : Holders(d)' = Holders(d)
  BY DEF Holders, Domain
<1> QED BY <1>1 DEF PermitsConserved

LEMMA PermitTaken ==
  ASSUME PermitInv, NEW r \in Requests, run[r].stage \notin Holding,
         NEW s \in Holding, MovesTo(r, s), UNCHANGED job,
         free[Domain(r)] > 0,
         free' = [free EXCEPT ![Domain(r)] = free[Domain(r)] - 1]
  PROVE  PermitsConserved' /\ free' \in [Domains -> 0..MAX_CONCURRENT]
<1>1. PICK e \in Domains : e = Domain(r)
  BY ConstantTypes DEF PermitInv, TypeOK, Domain
<1>2. free \in [Domains -> 0..MAX_CONCURRENT] /\ r \notin Holders(e)
  BY DEF PermitInv, TypeOK, Holders
<1>3. Holders(e)' = Holders(e) \cup {r}
  BY <1>1 DEF MovesTo, Holders, Domain
<1>4. Cardinality(Holders(e)') = Cardinality(Holders(e)) + 1
  BY <1>2, <1>3, HoldersFinite, FS_AddElement
<1>5. ASSUME NEW d \in Domains
      PROVE  free'[d] + Cardinality(Holders(d)') = MAX_CONCURRENT
  <2>1. free[d] + Cardinality(Holders(d)) = MAX_CONCURRENT
    BY DEF PermitInv, PermitsConserved
  <2>2. CASE d = e
    <3>1. free'[d] = free[d] - 1
      BY <1>1, <1>2, <2>2
    <3> QED BY <1>2, <1>4, <2>1, <2>2, <3>1, HoldersFinite
  <2>3. CASE d # e
    <3>1. Holders(d)' = Holders(d)
      BY <1>1, <2>3 DEF MovesTo, Holders, Domain
    <3> QED BY <1>1, <1>2, <2>1, <2>3, <3>1
  <2> QED BY <2>2, <2>3
<1> QED BY <1>1, <1>2, <1>5, ConstantTypes DEF PermitsConserved

LEMMA PermitReturned ==
  ASSUME PermitInv, NEW r \in Requests, run[r].stage \in Holding,
         MovesTo(r, "done"), UNCHANGED job,
         free' = [free EXCEPT ![Domain(r)] = free[Domain(r)] + 1]
  PROVE  PermitsConserved' /\ free' \in [Domains -> 0..MAX_CONCURRENT]
<1>1. PICK e \in Domains : e = Domain(r)
  BY ConstantTypes DEF PermitInv, TypeOK, Domain
<1>2. free \in [Domains -> 0..MAX_CONCURRENT] /\ r \in Holders(e)
  BY <1>1 DEF PermitInv, TypeOK, Holders
<1>3. Holders(e)' = Holders(e) \ {r}
  BY <1>1 DEF MovesTo, Holders, Holding, Domain
<1>4. Cardinality(Holders(e)') = Cardinality(Holders(e)) - 1 /\ IsFiniteSet(Holders(e)')
  BY <1>2, <1>3, HoldersFinite, FS_RemoveElement
<1>5. Cardinality(Holders(e)') \in Nat
  BY <1>4, FS_CardinalityType
<1>6. ASSUME NEW d \in Domains
      PROVE  free'[d] + Cardinality(Holders(d)') = MAX_CONCURRENT
  <2>1. free[d] + Cardinality(Holders(d)) = MAX_CONCURRENT
    BY DEF PermitInv, PermitsConserved
  <2>2. CASE d = e
    <3>1. free'[d] = free[d] + 1
      BY <1>1, <1>2, <2>2
    <3> QED BY <1>2, <1>4, <2>1, <2>2, <3>1, HoldersFinite
  <2>3. CASE d # e
    <3>1. Holders(d)' = Holders(d)
      BY <1>1, <2>3 DEF MovesTo, Holders, Domain
    <3> QED BY <1>1, <1>2, <2>1, <2>3, <3>1
  <2> QED BY <2>2, <2>3
<1>7. free'[e] \in 0..MAX_CONCURRENT
  BY <1>1, <1>2, <1>5, <1>6, ConstantTypes
<1> QED BY <1>1, <1>2, <1>6, <1>7 DEF PermitsConserved

-----------------------------------------------------------------------------
(* Types and permits are preserved by every step. *)

\* A step in which one coroutine moves.
LEMMA OneMoves ==
  ASSUME PermitInv, NEW r \in Requests, NEW s, MovesTo(r, s),
         PermitsConserved', ChainShape(r)', UNCHANGED <<job, sweep, now>>,
         answer' \in [Requests -> Answers \cup {"none"}],
         letDown' \in [Requests -> SUBSET Methods],
         free' \in [Domains -> 0..MAX_CONCURRENT],
         table' \in [Domains -> Row \cup {NoRow}]
  PROVE  PermitInv'
<1>1. TypeOK'
  BY DEF PermitInv, TypeOK, MovesTo
<1>2. \A q \in Requests : q # r => ChainShape(q)'
  BY DEF PermitInv, ChainShape, MovesTo, Method
<1> QED BY <1>1, <1>2 DEF PermitInv

\* A request that keeps its permit.
LEMMA HolderMoves ==
  ASSUME PermitInv, NEW r \in Requests, NEW s \in Holding, run[r].stage \in Holding,
         MovesTo(r, s), ChainShape(r)',
         UNCHANGED <<job, answer, free, letDown, sweep, now>>,
         table' \in [Domains -> Row \cup {NoRow}]
  PROVE  PermitInv'
<1>1. PermitsConserved'
  BY PermitsStay DEF PermitInv, MovesTo
<1> QED BY <1>1, OneMoves DEF PermitInv, TypeOK

\* A request that answers and returns its permit.
LEMMA HolderResponds ==
  ASSUME PermitInv, NEW r \in Requests, NEW a \in Answers, run[r].stage \in Holding,
         Respond(r, a), UNCHANGED <<job, sweep, now>>,
         letDown' \in [Requests -> SUBSET Methods],
         table' \in [Domains -> Row \cup {NoRow}]
  PROVE  PermitInv'
<1>1. MovesTo(r, "done") /\ answer' \in [Requests -> Answers \cup {"none"}]
  BY AnswerMoves DEF Respond, PermitInv
<1>2. PermitsConserved' /\ free' \in [Domains -> 0..MAX_CONCURRENT]
  BY <1>1, PermitReturned DEF Respond
<1>3. ChainShape(r)'
  BY <1>1 DEF MovesTo, ChainShape
<1> QED BY <1>1, <1>2, <1>3, OneMoves

\* A request without a permit that answers.
LEMMA WaiterAnswers ==
  ASSUME PermitInv, NEW r \in Requests, NEW a \in Answers, run[r].stage \notin Holding,
         Answer(r, a), UNCHANGED <<job, free, letDown, table, sweep, now>>
  PROVE  PermitInv'
<1>1. MovesTo(r, "done") /\ answer' \in [Requests -> Answers \cup {"none"}]
  BY AnswerMoves DEF PermitInv
<1>2. PermitsConserved'
  BY <1>1, PermitsStay DEF MovesTo, PermitInv, Holding
<1>3. ChainShape(r)'
  BY <1>1 DEF MovesTo, ChainShape
<1> QED BY <1>1, <1>2, <1>3, OneMoves DEF PermitInv, TypeOK

LEMMA RowTypes ==
  ASSUME TypeOK, NEW d \in Domains
  PROVE  /\ SeleniumOnly(table[d]) \in Row
         /\ \A m \in Methods : Learned(table[d], m) \in Row
         /\ \A at \in 0..MaxTime : FirstFailure(at) \in Row
         /\ \A s \in Seen : s.row # NoRow /\ table[d] # NoRow => Failed(table[d], s) \in Row
<1>1. table[d] \in Row \cup {NoRow} /\ now \in 0..MaxTime
  BY DEF TypeOK
<1>2. {"selenium", "crawl4ai"} \subseteq Methods
  BY DEF Methods
<1>3. ASSUME NEW s \in Seen, s.row # NoRow, table[d] # NoRow
      PROVE  Failed(table[d], s) \in Row
  <2>1. s.row \in Row /\ s.at \in 0..MaxTime
    BY <1>3 DEF Seen
  <2>2. NewCount(s) \in Nat
    BY <2>1 DEF NewCount, Row
  <2> QED BY <1>1, <1>3, <2>1, <2>2 DEF Failed, Row
<1>4. \A m \in Methods : Learned(table[d], m) \in Row
  BY <1>1 DEF Learned, Row
<1>5. SeleniumOnly(table[d]) \in Row
  BY <1>1, <1>2 DEF SeleniumOnly, Row
<1>6. \A at \in 0..MaxTime : FirstFailure(at) \in Row
  BY <1>2, ConstantTypes DEF FirstFailure, Row
<1> QED BY <1>3, <1>4, <1>5, <1>6

LEMMA ChainIsSequence ==
  ASSUME NEW p
  PROVE  Chain(p) \in Seq(Calls) /\ Chain(p) # <<>>
<1>1. /\ Times("crawl4ai", CRAWL4AI_RETRIES) \in Seq(Calls)
      /\ Selenium \in Seq(Calls)
      /\ Len(Times("crawl4ai", CRAWL4AI_RETRIES)) = CRAWL4AI_RETRIES
  BY ConstantTypes DEF Times, Selenium, Calls, Methods
<1>2. <<"playwright", "mark">> \in Seq(Calls) /\ <<"httpx">> \in Seq(Calls)
  BY DEF Calls, Methods
<1>3. Browsers \in Seq(Calls) /\ Len(Browsers) = CRAWL4AI_RETRIES + 2
  BY <1>1, <1>2, ConstantTypes DEF Browsers
<1>4. CASE p = "selenium"
  BY <1>1, <1>3, <1>4, ConstantTypes DEF Chain
<1>5. CASE p # "selenium"
  BY <1>1, <1>2, <1>3, <1>5, ConstantTypes DEF Chain
<1> QED BY <1>4, <1>5

\* Every stage in which a request works holds a permit.
LEMMA StageFacts ==
  /\ Holding \subseteq Stages
  /\ {"admitted", "routed", "trying", "crawling", "learning", "recording", "counting",
      "storing"} = Holding
  /\ "idle" \notin Holding /\ "waiting" \notin Holding /\ "done" \notin Holding
  /\ {"ok", "rate_limited", "blacklisted", "failed", "error", "lost"} = Answers
BY DEF Stages, Holding, Answers

LEMMA OwnPreserves ==
  ASSUME PermitInv, NEW r \in Requests, Own(r)
  PROVE  PermitInv'
<1> USE StageFacts
<1>1. /\ TypeOK /\ ChainShape(r)
      /\ run[r] \in Coroutine /\ Domain(r) \in Domains
      /\ job[r].url \in Urls /\ job[r].force \in ForcedMethods
      /\ letDown \in [Requests -> SUBSET Methods]
      /\ table \in [Domains -> Row \cup {NoRow}]
  BY ConstantTypes DEF PermitInv, TypeOK, Domain
<1>2. \A m \in Calls : <<m>> \in Seq(Calls) /\ <<m>> # <<>> /\ Head(<<m>>) = m
  OBVIOUS
<1>3. CASE Acquire(r)
  <2>1. MovesTo(r, "admitted")
    BY <1>1, <1>3 DEF Acquire, TypeOK, MovesTo, Coroutine
  <2>2. ChainShape(r)'
    BY <2>1 DEF MovesTo, ChainShape
  <2>3. PermitsConserved' /\ free' \in [Domains -> 0..MAX_CONCURRENT]
    BY <1>3, <2>1, PermitTaken DEF Acquire
  <2> QED BY <1>1, <1>3, <2>1, <2>2, <2>3, OneMoves DEF Acquire, TypeOK
<1>4. CASE AcquireTimesOut(r)
  BY <1>4, WaiterAnswers DEF AcquireTimesOut
<1>5. CASE Route(r)
  <2>1. ASSUME NEW m \in Methods, Start(r, <<m>>)
        PROVE  PermitInv'
    <3>1. <<m>> \in Seq(Calls)
      BY DEF Calls
    <3>2. MovesTo(r, "trying") /\ run'[r].todo = <<m>>
      BY <1>1, <2>1, <3>1, StartMoves
    <3>3. ChainShape(r)'
      BY <3>2 DEF MovesTo, ChainShape
    <3> QED BY <1>1, <1>5, <2>1, <3>2, <3>3, HolderMoves DEF Route, Start
  <2>2. CASE Kind(r) = "pdf"
    BY <1>5, <2>1, <2>2 DEF Route, Methods
  <2>3. CASE Kind(r) # "pdf" /\ Blacklisted(Domain(r))
    BY <1>1, <1>5, <2>3, HolderResponds DEF Route
  <2>4. CASE Kind(r) # "pdf" /\ ~Blacklisted(Domain(r)) /\ Kind(r) = "reddit"
    BY <1>5, <2>1, <2>4 DEF Route, Methods
  <2>5. CASE /\ Kind(r) # "pdf" /\ ~Blacklisted(Domain(r)) /\ Kind(r) # "reddit"
             /\ job[r].force # "none"
    BY <1>1, <1>5, <2>1, <2>5 DEF Route, ForcedMethods
  <2>6. CASE /\ Kind(r) # "pdf" /\ ~Blacklisted(Domain(r)) /\ Kind(r) # "reddit"
             /\ job[r].force = "none"
    <3>1. GoTo(r, "routed")
      BY <1>5, <2>6 DEF Route
    <3>2. MovesTo(r, "routed")
      BY <1>1, <3>1, GoToMoves
    <3>3. ChainShape(r)'
      BY <3>2 DEF MovesTo, ChainShape
    <3> QED BY <1>1, <1>5, <3>1, <3>2, <3>3, HolderMoves DEF Route, GoTo
  <2> QED BY <2>2, <2>3, <2>4, <2>5, <2>6
<1>6. CASE ChooseChain(r)
  <2>1. PICK p : Start(r, Chain(p))
    BY <1>6 DEF ChooseChain
  <2>2. MovesTo(r, "trying") /\ run'[r].todo = Chain(p)
    BY <1>1, <2>1, StartMoves, ChainIsSequence
  <2>3. ChainShape(r)'
    BY <2>2, ChainIsSequence DEF MovesTo, ChainShape
  <2> QED BY <1>1, <1>6, <2>1, <2>2, <2>3, HolderMoves DEF ChooseChain, Start
<1>7. CASE OpenBrowser(r)
  <2>1. MovesTo(r, "crawling") /\ run'[r].todo = run[r].todo
    BY <1>1, <1>7, GoToMoves DEF OpenBrowser
  <2>2. ChainShape(r)'
    BY <1>1, <1>7, <2>1 DEF MovesTo, ChainShape, OpenBrowser, Method
  <2> QED BY <1>1, <1>7, <2>1, <2>2, HolderMoves DEF OpenBrowser, GoTo
<1>8. CASE AttemptSucceeds(r)
  <2>1. run[r].stage \in Holding /\ run[r].todo # <<>> /\ Method(r) # "mark"
    BY <1>1, <1>8 DEF AttemptSucceeds, Attempting, ChainShape
  <2>2. PICK s \in {"storing", "learning"} : GoTo(r, s)
    BY <1>8 DEF AttemptSucceeds
  <2>3. MovesTo(r, s) /\ run'[r].todo = run[r].todo
    BY <1>1, <2>2, GoToMoves
  <2>4. ChainShape(r)'
    BY <2>1, <2>2, <2>3 DEF MovesTo, ChainShape, Method
  <2> QED BY <1>1, <1>8, <2>1, <2>2, <2>3, <2>4, HolderMoves DEF AttemptSucceeds, GoTo
<1>9. ASSUME NEW rest \in Seq(Calls), Attempt(r, rest), run[r].todo # <<>>,
             run[r].stage \in Holding, UNCHANGED <<job, letDown, sweep, now>>,
             table' \in [Domains -> Row \cup {NoRow}]
      PROVE  PermitInv'
  <2>1. PICK s \in {"recording", "trying"} :
          /\ MovesTo(r, s) /\ run'[r].todo = rest
          /\ s = "trying" => rest # <<>>
    BY <1>1, <1>9, AttemptMoves
  <2>2. ChainShape(r)'
    BY <2>1 DEF MovesTo, ChainShape
  <2> QED BY <1>1, <1>9, <2>1, <2>2, HolderMoves DEF Attempt
<1>10. CASE AttemptFails(r)
  <2>1. run[r].stage \in Holding /\ run[r].todo # <<>> /\ run[r].todo \in Seq(Calls)
    BY <1>1, <1>10 DEF AttemptFails, Attempting, ChainShape, Coroutine
  <2>2. CASE Respond(r, "failed")
    BY <1>1, <1>10, <2>1, <2>2, HolderResponds DEF AttemptFails
  <2>3. CASE Attempt(r, Tail(run[r].todo))
    <3>1. Tail(run[r].todo) \in Seq(Calls)
      BY <2>1
    <3> QED BY <1>1, <1>9, <1>10, <2>1, <2>3, <3>1 DEF AttemptFails
  <2>4. ASSUME NEW i \in 2..Len(run[r].todo),
               Attempt(r, SubSeq(run[r].todo, i, Len(run[r].todo)))
        PROVE  PermitInv'
    <3>1. SubSeq(run[r].todo, i, Len(run[r].todo)) \in Seq(Calls)
      BY <2>1
    <3> QED BY <1>1, <1>9, <1>10, <2>1, <2>4, <3>1 DEF AttemptFails
  <2> QED BY <1>10, <2>2, <2>3, <2>4 DEF AttemptFails
<1>11. CASE MarkSeleniumOnly(r)
  <2>1. run[r].todo # <<>> /\ Tail(run[r].todo) \in Seq(Calls)
    BY <1>1, <1>11 DEF MarkSeleniumOnly, ChainShape, Coroutine
  <2>2. table' \in [Domains -> Row \cup {NoRow}]
    BY <1>1, <1>11, RowTypes DEF MarkSeleniumOnly
  <2> QED BY <1>9, <1>11, <2>1, <2>2 DEF MarkSeleniumOnly
<1>12. CASE RecordSuccess(r)
  <2>1. Method(r) \in Methods
    BY <1>1, <1>12 DEF RecordSuccess, ChainShape, Coroutine, Calls, Method
  <2>2. table' \in [Domains -> Row \cup {NoRow}]
    BY <1>1, <1>12, <2>1, RowTypes DEF RecordSuccess
  <2>3. MovesTo(r, "storing")
    BY <1>1, <1>12, GoToMoves DEF RecordSuccess
  <2>4. ChainShape(r)'
    BY <2>3 DEF MovesTo, ChainShape
  <2> QED BY <1>1, <1>12, <2>2, <2>3, <2>4, HolderMoves DEF RecordSuccess, GoTo
<1>13. CASE Store(r)
  BY <1>1, <1>13, HolderResponds DEF Store, TypeOK
<1>14. CASE ReadFailures(r)
  <2>1. [row |-> table[Domain(r)], at |-> now] \in Seen
    BY <1>1 DEF Seen, TypeOK
  <2>2. MovesTo(r, "counting")
    BY <1>1, <1>14, <2>1 DEF ReadFailures, MovesTo, TypeOK, Coroutine
  <2>3. ChainShape(r)'
    BY <2>2 DEF MovesTo, ChainShape
  <2> QED BY <1>1, <1>14, <2>2, <2>3, HolderMoves DEF ReadFailures
<1>15. CASE CountFailure(r)
  <2>1. run[r].seen \in Seen /\ run[r].seen.at \in 0..MaxTime /\ run[r].tried \subseteq Methods
    BY <1>1 DEF Coroutine, Seen
  <2>2. table' \in [Domains -> Row \cup {NoRow}]
    BY <1>1, <1>15, <2>1, RowTypes DEF CountFailure
  <2>3. letDown' \in [Requests -> SUBSET Methods]
    BY <1>1, <1>15, <2>1 DEF CountFailure
  <2>4. PICK a \in {"failed", "error"} : Respond(r, a)
    BY <1>15 DEF CountFailure
  <2> QED BY <1>1, <1>15, <2>2, <2>3, <2>4, HolderResponds DEF CountFailure
<1> QED
  BY <1>3, <1>4, <1>5, <1>6, <1>7, <1>8, <1>10, <1>11, <1>12, <1>13, <1>14, <1>15 DEF Own

\* A step of the admin tools, the clean-up or the clock.
LEMMA NobodyMoves ==
  ASSUME PermitInv, UNCHANGED <<job, run, answer, letDown, free>>,
         table' \in [Domains -> Row \cup {NoRow}],
         sweep' \subseteq Domains,
         now' \in 0..MaxTime
  PROVE  PermitInv'
<1>1. TypeOK'
  BY DEF PermitInv, TypeOK
<1>2. PermitsConserved'
  BY PermitsStay DEF PermitInv
<1>3. \A r \in Requests : ChainShape(r)'
  BY DEF PermitInv, ChainShape, Method
<1> QED BY <1>1, <1>2, <1>3 DEF PermitInv

LEMMA RestartPreserves ==
  ASSUME PermitInv, Restart
  PROVE  PermitInv'
<1> DEFINE inside == {r \in Requests : run[r].stage \in Holding \cup {"waiting"}}
<1>1. TypeOK /\ MAX_CONCURRENT \in Nat
  BY ConstantTypes DEF PermitInv
<1>2. At("done") \in Coroutine /\ At("done").stage = "done"
  <2>1. Nothing \in Seen
    BY ConstantTypes, <1>1 DEF Nothing, Seen
  <2>2. "done" \in Stages /\ <<>> \in Seq(Calls)
    BY DEF Stages
  <2> QED BY <2>1, <2>2 DEF At, Coroutine
<1>3. TypeOK'
  BY <1>1, <1>2 DEF Restart, TypeOK, Answers
<1>4. \A r \in Requests : run'[r].stage \notin Holding
  BY <1>1, <1>2, StageFacts DEF Restart
<1>5. \A d : Holders(d)' = {}
  BY <1>4 DEF Holders
<1>6. PermitsConserved'
  <2>1. \A d : Cardinality(Holders(d)') = 0
    BY <1>5, FS_EmptySet
  <2>2. free' = [d \in Domains |-> MAX_CONCURRENT]
    BY DEF Restart
  <2> QED BY <1>1, <2>1, <2>2 DEF PermitsConserved
<1>7. \A r \in Requests : ChainShape(r)'
  BY <1>4, StageFacts DEF ChainShape
<1> QED BY <1>3, <1>6, <1>7 DEF PermitInv

LEMMA PermitInvInit ==
  ASSUME Init
  PROVE  PermitInv
<1>1. At("idle") \in Coroutine /\ At("idle").stage = "idle"
  <2>1. Nothing \in Seen
    BY ConstantTypes DEF Nothing, Seen
  <2>2. "idle" \in Stages /\ <<>> \in Seq(Calls)
    BY DEF Stages
  <2> QED BY <2>1, <2>2 DEF At, Coroutine
<1>2. job \in [Requests -> [url : Urls, force : ForcedMethods]]
  <2>1. PICK S : job \in [Requests -> S]
    BY DEF Init
  <2>2. \A r \in Requests : job[r] \in [url : Urls, force : ForcedMethods]
    BY ConstantTypes DEF Init
  <2> QED BY <2>1, <2>2
<1>3. TypeOK
  BY <1>1, <1>2, ConstantTypes DEF Init, TypeOK
<1>4. \A d : Holders(d) = {}
  BY <1>1, StageFacts DEF Holders, Init
<1>5. PermitsConserved
  <2>1. \A d : Cardinality(Holders(d)) = 0
    BY <1>4, FS_EmptySet
  <2> QED BY <2>1, ConstantTypes DEF PermitsConserved, Init
<1>6. \A r \in Requests : ChainShape(r)
  BY <1>1 DEF ChainShape, Init
<1> QED BY <1>3, <1>5, <1>6 DEF PermitInv

LEMMA PermitInvNext ==
  ASSUME PermitInv, [Next]_vars
  PROVE  PermitInv'
<1>1. /\ TypeOK /\ table \in [Domains -> Row \cup {NoRow}]
      /\ sweep \subseteq Domains /\ now \in 0..MaxTime
  BY DEF PermitInv, TypeOK
<1>2. ASSUME NEW r \in Requests, Submit(r)
      PROVE  PermitInv'
  <2>1. MovesTo(r, "waiting")
    BY <1>1, <1>2, GoToMoves DEF Stages, Submit
  <2>2. ChainShape(r)'
    BY <2>1 DEF MovesTo, ChainShape
  <2>3. PermitsConserved'
    BY <1>2, <2>1, StageFacts, PermitsStay DEF MovesTo, PermitInv, Submit, GoTo
  <2> QED BY <1>1, <1>2, <2>1, <2>2, <2>3, OneMoves DEF Submit, GoTo, TypeOK
<1>3. ASSUME NEW r \in Requests, Raises(r)
      PROVE  PermitInv'
  <2>1. CASE run[r].stage \in Holding /\ Respond(r, "error")
    BY <1>1, <1>3, <2>1, StageFacts, HolderResponds DEF Raises, TypeOK
  <2>2. CASE run[r].stage = "waiting" /\ Answer(r, "error") /\ UNCHANGED free
    BY <1>3, <2>2, StageFacts, WaiterAnswers DEF Raises
  <2> QED BY <1>3, <2>1, <2>2 DEF Raises
<1>4. CASE ClearBlacklist
  <2>1. table' \in [Domains -> Row \cup {NoRow}]
    BY <1>1, <1>4 DEF ClearBlacklist, Blacklisted, Row
  <2> QED BY <1>1, <1>4, <2>1, NobodyMoves DEF ClearBlacklist
<1>5. CASE Clean
  BY <1>1, <1>5, NobodyMoves DEF Clean
<1>6. CASE CleanupSelects
  BY <1>1, <1>6, NobodyMoves DEF CleanupSelects
<1>7. CASE CleanupDeletes
  BY <1>1, <1>7, NobodyMoves DEF CleanupDeletes
<1>8. CASE Tick
  <2>1. now' \in 0..MaxTime
    BY <1>1, <1>8, ConstantTypes DEF Tick
  <2> QED BY <1>1, <1>8, <2>1, NobodyMoves DEF Tick
<1>9. CASE UNCHANGED vars
  BY <1>1, <1>9, NobodyMoves DEF vars
<1> QED
  BY <1>2, <1>3, <1>4, <1>5, <1>6, <1>7, <1>8, <1>9, OwnPreserves, RestartPreserves
  DEF Next

\* The permits of every domain are conserved, and the state has its types, for any number of
\* requests and permits.
THEOREM PermitInvHolds == Spec => []PermitInv
BY PermitInvInit, PermitInvNext, PTL DEF Spec

\* The state of the service has its types.
THEOREM TypeCorrect == Spec => []TypeOK
<1>1. PermitInv => TypeOK
  BY DEF PermitInv
<1> QED BY <1>1, PermitInvHolds, PTL

\* No way out of a scrape loses or doubles a permit.
THEOREM PermitsConservedHolds == Spec => []PermitsConserved
<1>1. PermitInv => PermitsConserved
  BY DEF PermitInv
<1> QED BY <1>1, PermitInvHolds, PTL

-----------------------------------------------------------------------------
(* The blacklist. *)

\* Whatever is left of a chain, the request will have attempted Crawl4AI, Playwright and
\* Selenium at its end; only Crawl4AI comes between Crawl4AI and Playwright.
Exhausts(todo, tried) ==
  /\ Exhaustive \subseteq tried \cup {todo[i] : i \in 1..Len(todo)}
  /\ \A i, j \in 1..Len(todo) : \A k \in i..j :
       todo[i] = "crawl4ai" /\ todo[j] = "playwright" => todo[k] \in {"crawl4ai", "playwright"}

Failures(d) == Cardinality(LetDown(d))

Walk(r) ==
  /\ run[r].stage # "done" => letDown[r] = {}
  /\ run[r].stage \in {"trying", "crawling"} =>
       \/ Exhausts(run[r].todo, run[r].tried)
       \/ OneAttempt(r) /\ Method(r) # "mark"
  /\ run[r].stage \in {"recording", "counting"} => Exhaustive \subseteq run[r].tried
  /\ run[r].stage = "counting" /\ run[r].seen.row # NoRow =>
       run[r].seen.row.count <= Failures(Domain(r))

\* A row counts no more failures than the domain had.
RowEarned(d) ==
  table[d] # NoRow => /\ table[d].count <= Failures(d)
                      /\ table[d].black => THRESHOLD <= Failures(d)

EarnedInv == (\A r \in Requests : Walk(r)) /\ \A d \in Domains : RowEarned(d)

LEMMA FailuresType ==
  ASSUME NEW d
  PROVE  IsFiniteSet(LetDown(d)) /\ Failures(d) \in Nat
<1>1. LetDown(d) \subseteq Requests
  BY DEF LetDown
<1> QED BY <1>1, ConstantTypes, FS_Subset, FS_CardinalityType DEF Failures

LEMMA Concatenation ==
  ASSUME NEW s \in Seq(Calls), NEW t \in Seq(Calls)
  PROVE  /\ s \o t \in Seq(Calls) /\ Len(s \o t) = Len(s) + Len(t)
         /\ \A i \in 1..Len(s) : (s \o t)[i] = s[i]
         /\ \A i \in Len(s) + 1..Len(s) + Len(t) : (s \o t)[i] = t[i - Len(s)]
OBVIOUS

LEMMA ChainExhausts ==
  ASSUME NEW p, NEW tried
  PROVE  Exhausts(Chain(p), tried)
<1> DEFINE m == CRAWL4AI_RETRIES
           n == SELENIUM_RETRIES
<1>1. m \in Nat \ {0} /\ n \in Nat \ {0}
  BY ConstantTypes
<1>2. /\ Times("crawl4ai", m) \in Seq(Calls) /\ Selenium \in Seq(Calls)
      /\ Len(Times("crawl4ai", m)) = m /\ Len(Selenium) = n
      /\ \A i \in 1..m : Times("crawl4ai", m)[i] = "crawl4ai"
      /\ \A i \in 1..n : Selenium[i] = "selenium"
  BY <1>1 DEF Times, Selenium, Calls, Methods
<1>3. /\ Browsers \in Seq(Calls) /\ Len(Browsers) = m + 2
      /\ \A i \in 1..m : Browsers[i] = "crawl4ai"
      /\ Browsers[m + 1] = "playwright" /\ Browsers[m + 2] = "mark"
  <2>1. <<"playwright", "mark">> \in Seq(Calls)
    BY DEF Calls, Methods
  <2> QED BY <1>1, <1>2, <2>1 DEF Browsers
<1> HIDE DEF m, n
<1>4. CASE p = "selenium"
  <2>1. Chain(p) = Selenium \o Browsers
    BY <1>4 DEF Chain
  <2>2. /\ Len(Chain(p)) = n + m + 2
        /\ \A i \in 1..n : Chain(p)[i] = "selenium"
        /\ \A i \in n + 1..n + m : Chain(p)[i] = "crawl4ai"
        /\ Chain(p)[n + m + 1] = "playwright" /\ Chain(p)[n + m + 2] = "mark"
    <3>1. /\ Len(Chain(p)) = n + (m + 2)
          /\ \A i \in 1..n : Chain(p)[i] = Selenium[i]
          /\ \A i \in n + 1..n + (m + 2) : Chain(p)[i] = Browsers[i - n]
      <4>1. Selenium \in Seq(Calls) /\ Browsers \in Seq(Calls)
        BY <1>2, <1>3
      <4>2. /\ Len(Selenium \o Browsers) = Len(Selenium) + Len(Browsers)
            /\ \A i \in 1..Len(Selenium) : (Selenium \o Browsers)[i] = Selenium[i]
            /\ \A i \in Len(Selenium) + 1..Len(Selenium) + Len(Browsers) :
                 (Selenium \o Browsers)[i] = Browsers[i - Len(Selenium)]
        BY <4>1, Concatenation, Zenon
      <4>3. Len(Selenium) = n /\ Len(Browsers) = m + 2
        BY <1>2, <1>3
      <4> QED BY <2>1, <4>2, <4>3, Zenon
    <3>2. \A i \in n + 1..n + m : i \in n + 1..n + (m + 2) /\ i - n \in 1..m
      BY <1>1
    <3>3. /\ n + m + 1 \in n + 1..n + (m + 2) /\ n + m + 1 - n = m + 1
          /\ n + m + 2 \in n + 1..n + (m + 2) /\ n + m + 2 - n = m + 2
      BY <1>1
    <3> QED BY <1>1, <1>2, <1>3, <3>1, <3>2, <3>3
  <2>3. Exhaustive \subseteq {Chain(p)[i] : i \in 1..Len(Chain(p))}
    <3>1. {1, n + 1, n + m + 1} \subseteq 1..Len(Chain(p))
      BY <1>1, <2>2
    <3>2. Chain(p)[1] = "selenium" /\ Chain(p)[n + 1] = "crawl4ai"
      BY <1>1, <2>2
    <3> QED BY <2>2, <3>1, <3>2 DEF Exhaustive
  <2>4. ASSUME NEW i \in 1..Len(Chain(p)), NEW j \in 1..Len(Chain(p)), NEW k \in i..j,
               Chain(p)[i] = "crawl4ai", Chain(p)[j] = "playwright"
        PROVE  Chain(p)[k] \in {"crawl4ai", "playwright"}
    <3>1. j = n + m + 1
      <4>1. j \in 1..n \/ j \in n + 1..n + m \/ j = n + m + 1 \/ j = n + m + 2
        BY <1>1, <2>2
      <4> QED BY <2>2, <2>4, <4>1
    <3>2. i \in n + 1..n + m
      <4>1. i \in 1..n \/ i \in n + 1..n + m \/ i = n + m + 1 \/ i = n + m + 2
        BY <1>1, <2>2
      <4> QED BY <2>2, <2>4, <4>1
    <3>3. k = n + m + 1 \/ k \in n + 1..n + m
      BY <1>1, <3>1, <3>2
    <3> QED BY <2>2, <3>3
  <2> QED BY <2>3, <2>4 DEF Exhausts
<1>5. CASE p # "selenium"
  <2>1. Chain(p) = <<"httpx">> \o Browsers \o Selenium /\ <<"httpx">> \in Seq(Calls)
    BY <1>5 DEF Chain, Calls, Methods
  <2>2. /\ Len(Chain(p)) = n + m + 3
        /\ Chain(p)[1] = "httpx"
        /\ \A i \in 2..m + 1 : Chain(p)[i] = "crawl4ai"
        /\ Chain(p)[m + 2] = "playwright" /\ Chain(p)[m + 3] = "mark"
        /\ \A i \in m + 4..n + m + 3 : Chain(p)[i] = "selenium"
    <3> DEFINE front == <<"httpx">> \o Browsers
    <3>1. /\ front \in Seq(Calls) /\ Len(front) = m + 3
          /\ front[1] = "httpx"
          /\ \A i \in 2..m + 3 : front[i] = Browsers[i - 1]
      <4>1. Len(<<"httpx">>) = 1 /\ <<"httpx">>[1] = "httpx"
        OBVIOUS
      <4> QED BY <1>1, <1>3, <2>1, <4>1, Concatenation
    <3>2. Chain(p) = front \o Selenium
      BY <2>1
    <3> HIDE DEF front
    <3>3. /\ Len(Chain(p)) = m + 3 + n
          /\ \A i \in 1..m + 3 : Chain(p)[i] = front[i]
          /\ \A i \in m + 3 + 1..m + 3 + n : Chain(p)[i] = Selenium[i - (m + 3)]
      <4>1. front \in Seq(Calls) /\ Selenium \in Seq(Calls)
        BY <1>2, <3>1
      <4>2. /\ Len(front \o Selenium) = Len(front) + Len(Selenium)
            /\ \A i \in 1..Len(front) : (front \o Selenium)[i] = front[i]
            /\ \A i \in Len(front) + 1..Len(front) + Len(Selenium) :
                 (front \o Selenium)[i] = Selenium[i - Len(front)]
        BY <4>1, Concatenation, Zenon
      <4>3. Len(front) = m + 3 /\ Len(Selenium) = n
        BY <1>2, <3>1
      <4> QED BY <3>2, <4>2, <4>3, Zenon
    <3>4. \A i \in 2..m + 1 : i \in 1..m + 3 /\ i \in 2..m + 3 /\ i - 1 \in 1..m
      BY <1>1
    <3>5. \A i \in m + 4..n + m + 3 : i \in m + 3 + 1..m + 3 + n /\ i - (m + 3) \in 1..n
      BY <1>1
    <3>6. /\ {1, m + 2, m + 3} \subseteq 1..m + 3 /\ {m + 2, m + 3} \subseteq 2..m + 3
          /\ m + 2 - 1 = m + 1 /\ m + 3 - 1 = m + 2
      BY <1>1
    <3> QED BY <1>1, <1>2, <1>3, <3>1, <3>3, <3>4, <3>5, <3>6
  <2>3. Exhaustive \subseteq {Chain(p)[i] : i \in 1..Len(Chain(p))}
    <3>1. {2, m + 2, m + 4} \subseteq 1..Len(Chain(p))
      BY <1>1, <2>2
    <3>2. Chain(p)[2] = "crawl4ai" /\ Chain(p)[m + 4] = "selenium"
      BY <1>1, <2>2
    <3> QED BY <2>2, <3>1, <3>2 DEF Exhaustive
  <2>4. ASSUME NEW i \in 1..Len(Chain(p)), NEW j \in 1..Len(Chain(p)), NEW k \in i..j,
               Chain(p)[i] = "crawl4ai", Chain(p)[j] = "playwright"
        PROVE  Chain(p)[k] \in {"crawl4ai", "playwright"}
    <3>1. j = m + 2
      <4>1. j = 1 \/ j \in 2..m + 1 \/ j = m + 2 \/ j = m + 3 \/ j \in m + 4..n + m + 3
        BY <1>1, <2>2
      <4> QED BY <2>2, <2>4, <4>1
    <3>2. i \in 2..m + 1
      <4>1. i = 1 \/ i \in 2..m + 1 \/ i = m + 2 \/ i = m + 3 \/ i \in m + 4..n + m + 3
        BY <1>1, <2>2
      <4> QED BY <2>2, <2>4, <4>1
    <3>3. k = m + 2 \/ k \in 2..m + 1
      BY <1>1, <3>1, <3>2
    <3> QED BY <2>2, <3>3
  <2> QED BY <2>3, <2>4 DEF Exhausts
<1> QED BY <1>4, <1>5

\* The attempts of Crawl4AI that are left may be skipped, nothing else.
LEMMA RestExhausts ==
  ASSUME NEW todo \in Seq(Calls), NEW tried, todo # <<>>, Exhausts(todo, tried),
         NEW i \in 2..Len(todo) + 1,
         i = 2 \/ (Head(todo) = "crawl4ai" /\ i <= Len(todo) /\ todo[i] = "playwright")
  PROVE  Exhausts(SubSeq(todo, i, Len(todo)), tried \cup ({Head(todo)} \ {"mark"}))
<1> DEFINE rest == SubSeq(todo, i, Len(todo))
           k(j) == j + i - 1
<1>1. /\ Len(todo) \in Nat \ {0} /\ rest \in Seq(Calls)
      /\ Len(rest) = Len(todo) - i + 1
      /\ \A j \in 1..Len(rest) : rest[j] = todo[k(j)] /\ k(j) \in 1..Len(todo)
      /\ Head(todo) = todo[1]
  OBVIOUS
<1>2. \A j \in i..Len(todo) : j - i + 1 \in 1..Len(rest) /\ rest[j - i + 1] = todo[j]
  BY <1>1
<1> HIDE DEF rest
<1>3. ASSUME NEW m \in Exhaustive
      PROVE  m \in tried \cup ({Head(todo)} \ {"mark"}) \cup {rest[j] : j \in 1..Len(rest)}
  <2>1. m # "mark"
    BY DEF Exhaustive
  <2>2. CASE m \in tried
    BY <2>2
  <2>3. CASE m \notin tried
    <3>1. PICK j \in 1..Len(todo) : todo[j] = m
      BY <2>3 DEF Exhausts
    <3>2. CASE j = 1
      BY <1>1, <2>1, <3>1, <3>2
    <3>3. CASE j >= i
      BY <1>2, <3>1, <3>3
    <3>4. CASE 1 < j /\ j < i
      <4>1. Head(todo) = "crawl4ai" /\ todo[i] = "playwright" /\ i \in 1..Len(todo)
        BY <3>4
      <4>2. m \in {"crawl4ai", "playwright"}
        BY <1>1, <3>1, <3>4, <4>1 DEF Exhausts
      <4>3. CASE m = "crawl4ai"
        BY <2>1, <4>1, <4>3
      <4>4. CASE m = "playwright"
        BY <1>2, <4>1, <4>4
      <4> QED BY <4>2, <4>3, <4>4
    <3> QED BY <3>2, <3>3, <3>4
  <2> QED BY <2>2, <2>3
<1>4. ASSUME NEW a \in 1..Len(rest), NEW b \in 1..Len(rest), NEW c \in a..b,
             rest[a] = "crawl4ai", rest[b] = "playwright"
      PROVE  rest[c] \in {"crawl4ai", "playwright"}
  <2>1. c \in 1..Len(rest) /\ k(c) \in k(a)..k(b)
    BY <1>1
  <2>2. todo[k(a)] = "crawl4ai" /\ todo[k(b)] = "playwright" /\ rest[c] = todo[k(c)]
    BY <1>1, <1>4, <2>1
  <2> HIDE DEF k
  <2> QED BY <1>1, <2>1, <2>2 DEF Exhausts
<1> HIDE DEF k
<1> QED BY <1>3, <1>4 DEF Exhausts, rest

\* As long as no failure is recorded, the failures of a domain are what they were.
LEMMA SameFailures ==
  ASSUME UNCHANGED <<job, letDown>>
  PROVE  \A d : Failures(d)' = Failures(d)
<1>1. \A d : LetDown(d)' = LetDown(d)
  BY DEF LetDown, Domain
<1> QED BY <1>1 DEF Failures

LEMMA RowsStay ==
  ASSUME EarnedInv, UNCHANGED <<job, letDown, table>>
  PROVE  \A d \in Domains : RowEarned(d)'
BY SameFailures DEF EarnedInv, RowEarned

LEMMA RowWritten ==
  ASSUME TypeOK, EarnedInv, UNCHANGED <<job, letDown>>, NEW d \in Domains, NEW row \in Row,
         table' = [table EXCEPT ![d] = row],
         row.count <= Failures(d), row.black => THRESHOLD <= Failures(d)
  PROVE  \A c \in Domains : RowEarned(c)'
<1>1. \A c \in Domains : table'[c] = IF c = d THEN row ELSE table[c]
  BY DEF TypeOK
<1> QED BY <1>1, SameFailures DEF EarnedInv, RowEarned

\* A step of one request that records no failure.
LEMMA EarnedMove ==
  ASSUME EarnedInv, NEW r \in Requests, NEW s, MovesTo(r, s), UNCHANGED <<job, letDown>>,
         Walk(r)', \A d \in Domains : RowEarned(d)'
  PROVE  EarnedInv'
<1>1. ASSUME NEW q \in Requests, q # r
      PROVE  Walk(q)'
  <2>1. run'[q] = run[q] /\ job' = job /\ letDown' = letDown
    BY <1>1 DEF MovesTo
  <2>2. OneAttempt(q)' <=> OneAttempt(q)
    BY <2>1 DEF OneAttempt, Forced, Kind
  <2>3. Failures(Domain(q))' = Failures(Domain(q))
    BY <2>1 DEF Failures, LetDown, Domain
  <2>4. Method(q)' = Method(q)
    BY <2>1 DEF Method
  <2> QED BY <2>1, <2>2, <2>3, <2>4 DEF EarnedInv, Walk
<1> QED BY <1>1 DEF EarnedInv

LEMMA QuietMove ==
  ASSUME EarnedInv, NEW r \in Requests, NEW s, MovesTo(r, s), UNCHANGED letDown,
         run[r].stage # "done" \/ s = "done",
         s \notin {"trying", "crawling", "recording", "counting"}
  PROVE  Walk(r)'
BY DEF EarnedInv, Walk, MovesTo

\* A move through the chain.
LEMMA WalkMove ==
  ASSUME EarnedInv, NEW r \in Requests, NEW rest \in Seq(Calls), TypeOK,
         run[r].stage \in {"trying", "crawling"}, run[r].todo # <<>>,
         Exhausts(rest, run[r].tried \cup ({Method(r)} \ {"mark"})),
         Attempt(r, rest), UNCHANGED <<job, letDown>>
  PROVE  Walk(r)'
<1>1. /\ MovesTo(r, IF rest = <<>> THEN "recording" ELSE "trying")
      /\ run'[r].todo = rest
      /\ run'[r].tried = run[r].tried \cup ({Method(r)} \ {"mark"})
  BY AttemptMoves
<1>2. letDown'[r] = {}
  BY DEF EarnedInv, Walk
<1>3. CASE rest = <<>>
  <2>1. Exhaustive \subseteq run'[r].tried
    BY <1>1, <1>3 DEF Exhausts
  <2> QED BY <1>1, <1>2, <1>3, <2>1 DEF Walk, MovesTo
<1>4. CASE rest # <<>>
  <2>1. Exhausts(run[r].todo, run[r].tried)'
    BY <1>1 DEF Exhausts
  <2> QED BY <1>1, <1>2, <1>4, <2>1 DEF Walk, MovesTo
<1> QED BY <1>3, <1>4

\* The failure that is recorded is one more failure of the domain.
LEMMA OneMoreFailure ==
  ASSUME PermitInv, EarnedInv, NEW r \in Requests, run[r].stage = "counting",
         letDown' = [letDown EXCEPT ![r] = run[r].tried], UNCHANGED job
  PROVE  /\ \A d : d # Domain(r) => Failures(d)' = Failures(d)
         /\ \A d : d = Domain(r) => Failures(d)' = Failures(d) + 1
<1>1. letDown[r] = {} /\ Exhaustive \subseteq run[r].tried
  BY DEF EarnedInv, Walk
<1>2. letDown \in [Requests -> SUBSET Methods]
  BY DEF PermitInv, TypeOK
<1>3. \A d : d # Domain(r) => LetDown(d)' = LetDown(d)
  BY <1>2 DEF LetDown, Domain
<1>4. ASSUME NEW d, d = Domain(r)
      PROVE  Failures(d)' = Failures(d) + 1
  <2>1. LetDown(d)' = LetDown(d) \cup {r}
    BY <1>1, <1>2, <1>4 DEF LetDown, Domain
  <2>2. r \notin LetDown(d)
    BY <1>1 DEF LetDown, Exhaustive
  <2> QED BY <2>1, <2>2, FailuresType, FS_AddElement DEF Failures
<1> QED BY <1>3, <1>4 DEF Failures

LEMMA CountFailureEarns ==
  ASSUME PermitInv, PermitInv', EarnedInv, NEW r \in Requests, CountFailure(r)
  PROVE  EarnedInv'
<1> DEFINE seen == run[r].seen
<1>1. PICK d \in Domains : d = Domain(r)
  BY ConstantTypes DEF PermitInv, TypeOK, Domain
<1>2. TypeOK /\ table[d] \in Row \cup {NoRow} /\ seen \in Seen /\ job' = job
  BY DEF PermitInv, TypeOK, Coroutine, CountFailure
<1>3. PICK a \in Answers : Respond(r, a)
  BY DEF CountFailure, Answers
<1>4. MovesTo(r, "done")
  BY <1>2, <1>3, AnswerMoves DEF Respond
<1>5. CASE UNCHANGED <<table, letDown>>
  BY <1>2, <1>4, <1>5, RowsStay, QuietMove, EarnedMove
<1>6. CASE /\ (seen.row = NoRow) <=> (table[d] = NoRow)
           /\ table' = [table EXCEPT ![d] =
                          IF seen.row = NoRow THEN FirstFailure(seen.at)
                                              ELSE Failed(table[d], seen)]
           /\ letDown' = [letDown EXCEPT ![r] = run[r].tried]
  <2>1. /\ \A c : c # d => Failures(c)' = Failures(c)
        /\ Failures(d)' = Failures(d) + 1
    BY <1>1, <1>2, <1>6, OneMoreFailure DEF CountFailure
  <2>2. \A c : Failures(c) \in Nat
    BY FailuresType
  <2>3. \A c \in Domains : c # d => RowEarned(c)'
    BY <1>2, <1>6, <2>1 DEF EarnedInv, RowEarned, TypeOK
  <2>4. RowEarned(d)'
    <3>1. CASE seen.row = NoRow
      <4>1. table'[d] = FirstFailure(seen.at)
        BY <1>2, <1>6, <3>1 DEF TypeOK
      <4> QED BY <2>1, <2>2, <4>1 DEF RowEarned, FirstFailure
    <3>2. CASE seen.row # NoRow
      <4>1. table'[d] = Failed(table[d], seen) /\ table[d] \in Row /\ seen.row \in Row
        BY <1>2, <1>6, <3>2 DEF TypeOK, Seen
      <4>2. seen.row.count <= Failures(d) /\ RowEarned(d)
        BY <1>1, <3>2 DEF EarnedInv, Walk, CountFailure
      <4>3. NewCount(seen) \in Nat /\ NewCount(seen) <= Failures(d) + 1
        BY <2>2, <4>1, <4>2 DEF NewCount, Row
      <4>4. /\ table'[d].count \in {NewCount(seen), table[d].count}
            /\ table'[d].black => table[d].black \/ THRESHOLD <= NewCount(seen)
        BY <4>1, <4>3, ConstantTypes DEF Failed, Row
      <4>5. /\ table[d].count <= Failures(d) /\ table[d].count \in Nat
            /\ table[d].black => THRESHOLD <= Failures(d)
        BY <4>1, <4>2, ConstantTypes DEF RowEarned, Row
      <4> QED BY <2>1, <2>2, <4>3, <4>4, <4>5, ConstantTypes DEF RowEarned
    <3> QED BY <3>1, <3>2
  <2>5. ASSUME NEW q \in Requests, q # r
        PROVE  Walk(q)'
    <3>1. run'[q] = run[q] /\ letDown'[q] = letDown[q]
      BY <1>2, <1>4, <1>6, <2>5 DEF MovesTo, TypeOK
    <3>2. (OneAttempt(q)' <=> OneAttempt(q)) /\ Method(q)' = Method(q) /\ Domain(q)' = Domain(q)
      BY <1>2, <3>1 DEF OneAttempt, Forced, Kind, Method, Domain
    <3>3. PICK c : c = Domain(q)
      OBVIOUS
    <3>4. Failures(Domain(q))' = Failures(c)'
      BY <3>2, <3>3 DEF Failures, LetDown
    <3>5. Failures(c) <= Failures(c)'
      BY <2>1, <2>2
    <3>6. run[q].stage = "counting" /\ run[q].seen.row # NoRow =>
            run[q].seen.row.count \in Nat /\ run[q].seen.row.count <= Failures(c)
      BY <1>2, <3>3 DEF EarnedInv, Walk, TypeOK, Coroutine, Seen, Row
    <3>7. Failures(c)' \in Nat
      BY <2>1, <2>2
    <3> QED BY <2>2, <3>1, <3>2, <3>4, <3>5, <3>6, <3>7 DEF EarnedInv, Walk
  <2>6. Walk(r)'
    BY <1>4 DEF Walk, MovesTo
  <2> QED BY <2>3, <2>4, <2>5, <2>6 DEF EarnedInv
<1> QED BY <1>1, <1>5, <1>6 DEF CountFailure

LEMMA OwnEarns ==
  ASSUME PermitInv, PermitInv', EarnedInv, NEW r \in Requests, Own(r)
  PROVE  EarnedInv'
<1>1. /\ TypeOK /\ ChainShape(r) /\ Walk(r)
      /\ run[r] \in Coroutine /\ run[r].todo \in Seq(Calls) /\ Domain(r) \in Domains
      /\ job[r].force \in ForcedMethods
      /\ table[Domain(r)] \in Row \cup {NoRow}
  BY ConstantTypes DEF PermitInv, EarnedInv, TypeOK, Domain, Coroutine
\* A move to a stage outside the chain, with the table as it was.
<1>2. ASSUME NEW s \in {"admitted", "routed", "learning", "storing", "done"}, MovesTo(r, s),
             run[r].stage # "done", UNCHANGED <<job, letDown, table>>
      PROVE  EarnedInv'
  BY <1>2, RowsStay, QuietMove, EarnedMove
<1>3. CASE Acquire(r)
  <2>1. MovesTo(r, "admitted")
    BY <1>1, <1>3 DEF Acquire, TypeOK, MovesTo, Coroutine, Stages, Holding
  <2> QED BY <1>2, <1>3, <2>1 DEF Acquire
<1>4. CASE AcquireTimesOut(r)
  <2>1. MovesTo(r, "done")
    BY <1>1, <1>4, AnswerMoves, StageFacts DEF AcquireTimesOut
  <2> QED BY <1>2, <1>4, <2>1 DEF AcquireTimesOut
<1>5. CASE Route(r)
  <2>1. ASSUME NEW m \in Methods, Start(r, <<m>>), OneAttempt(r)
        PROVE  EarnedInv'
    <3>1. <<m>> \in Seq(Calls) /\ m # "mark" /\ Head(<<m>>) = m
      BY DEF Calls, Methods
    <3>2. MovesTo(r, "trying") /\ run'[r].todo = <<m>>
      BY <1>1, <2>1, <3>1, StartMoves
    <3>3. OneAttempt(r)' /\ Method(r)' # "mark"
      BY <1>5, <2>1, <3>1, <3>2 DEF Route, OneAttempt, Forced, Kind, Method
    <3>4. Walk(r)'
      BY <1>1, <1>5, <3>2, <3>3 DEF Walk, MovesTo, Route
    <3> QED BY <1>5, <3>2, <3>4, RowsStay, EarnedMove DEF Route
  <2>2. CASE Kind(r) = "pdf"
    BY <1>5, <2>1, <2>2 DEF Route, Methods, OneAttempt
  <2>3. CASE Kind(r) # "pdf" /\ Blacklisted(Domain(r))
    <3>1. Answer(r, "blacklisted")
      BY <1>5, <2>3 DEF Route, Respond
    <3>2. MovesTo(r, "done")
      BY <1>1, <3>1, AnswerMoves, StageFacts
    <3> QED BY <1>2, <1>5, <3>2 DEF Route
  <2>4. CASE Kind(r) # "pdf" /\ ~Blacklisted(Domain(r)) /\ Kind(r) = "reddit"
    BY <1>5, <2>1, <2>4 DEF Route, Methods, OneAttempt
  <2>5. CASE /\ Kind(r) # "pdf" /\ ~Blacklisted(Domain(r)) /\ Kind(r) # "reddit"
             /\ job[r].force # "none"
    <3>1. OneAttempt(r)
      <4>1. Kind(r) \in {"pdf", "reddit", "page"}
        BY <1>1, ScrapeConstants DEF TypeOK, Kind
      <4> QED BY <2>5, <4>1 DEF OneAttempt, Forced
    <3> QED BY <1>1, <1>5, <2>1, <2>5, <3>1 DEF Route, ForcedMethods
  <2>6. CASE /\ Kind(r) # "pdf" /\ ~Blacklisted(Domain(r)) /\ Kind(r) # "reddit"
             /\ job[r].force = "none"
    <3>1. GoTo(r, "routed")
      BY <1>5, <2>6 DEF Route
    <3>2. MovesTo(r, "routed")
      BY <1>1, <3>1, GoToMoves, StageFacts
    <3> QED BY <1>2, <1>5, <3>2 DEF Route
  <2> QED BY <2>2, <2>3, <2>4, <2>5, <2>6
<1>6. CASE ChooseChain(r)
  <2>1. PICK p : Start(r, Chain(p))
    BY <1>6 DEF ChooseChain
  <2>2. MovesTo(r, "trying") /\ run'[r].todo = Chain(p)
    BY <1>1, <2>1, StartMoves, ChainIsSequence
  <2>3. Exhausts(Chain(p), run'[r].tried)
    BY ChainExhausts
  <2>4. Exhausts(run[r].todo, run[r].tried)'
    BY <2>2, <2>3 DEF Exhausts
  <2>5. Walk(r)'
    BY <1>1, <1>6, <2>2, <2>4 DEF Walk, MovesTo, ChooseChain
  <2> QED BY <1>6, <2>2, <2>5, RowsStay, EarnedMove DEF ChooseChain
<1>7. CASE OpenBrowser(r)
  <2>1. MovesTo(r, "crawling") /\ run'[r].todo = run[r].todo /\ run'[r].tried = run[r].tried
    BY <1>1, <1>7, GoToMoves, StageFacts DEF OpenBrowser
  <2>2. /\ Exhausts(run[r].todo, run[r].tried)' <=> Exhausts(run[r].todo, run[r].tried)
        /\ OneAttempt(r)' <=> OneAttempt(r)
        /\ Method(r)' = Method(r)
    BY <1>7, <2>1 DEF Exhausts, OneAttempt, Forced, Kind, Method, OpenBrowser
  <2>3. Walk(r)'
    BY <1>1, <1>7, <2>1, <2>2 DEF Walk, MovesTo, OpenBrowser
  <2> QED BY <1>7, <2>1, <2>3, RowsStay, EarnedMove DEF OpenBrowser
<1>8. CASE AttemptSucceeds(r)
  <2>1. PICK s \in {"storing", "learning"} : GoTo(r, s)
    BY <1>8 DEF AttemptSucceeds
  <2>2. MovesTo(r, s)
    BY <1>1, <2>1, GoToMoves, StageFacts
  <2> QED BY <1>2, <1>8, <2>2 DEF AttemptSucceeds, Attempting
\* The next call of the chain, which is the second one or skips to Playwright.
<1>9. ASSUME run[r].stage \in {"trying", "crawling"},
             Exhausts(run[r].todo, run[r].tried),
             NEW i \in 2..Len(run[r].todo) + 1,
             i = 2 \/ (Method(r) = "crawl4ai" /\ i <= Len(run[r].todo)
                        /\ run[r].todo[i] = "playwright"),
             Attempt(r, SubSeq(run[r].todo, i, Len(run[r].todo))),
             UNCHANGED <<job, letDown>>, \A d \in Domains : RowEarned(d)'
      PROVE  EarnedInv'
  <2> DEFINE rest == SubSeq(run[r].todo, i, Len(run[r].todo))
  <2>1. run[r].todo # <<>> /\ rest \in Seq(Calls)
    BY <1>1, <1>9 DEF ChainShape
  <2>2. Exhausts(rest, run[r].tried \cup ({Method(r)} \ {"mark"}))
    BY <1>1, <1>9, <2>1, RestExhausts DEF Method
  <2> HIDE DEF rest
  <2>3. Attempt(r, rest)
    BY <1>9 DEF rest
  <2>4. Walk(r)'
    BY <1>1, <1>9, <2>1, <2>2, <2>3, WalkMove
  <2>5. PICK s : MovesTo(r, s)
    BY <1>1, <2>1, <2>3, AttemptMoves
  <2> QED BY <1>9, <2>4, <2>5, EarnedMove
<1>10. ASSUME run[r].todo # <<>>
       PROVE  /\ Tail(run[r].todo) = SubSeq(run[r].todo, 2, Len(run[r].todo))
              /\ 2 \in 2..Len(run[r].todo) + 1
  BY <1>1, <1>10
<1>11. CASE AttemptFails(r)
  <2>1. run[r].stage \in {"trying", "crawling"} /\ run[r].todo # <<>>
    BY <1>1, <1>11 DEF AttemptFails, Attempting, ChainShape
  <2>2. CASE Respond(r, "failed")
    <3>1. MovesTo(r, "done")
      BY <1>1, <2>2, AnswerMoves, StageFacts DEF Respond
    <3> QED BY <1>2, <1>11, <2>1, <3>1 DEF AttemptFails
  <2>3. CASE ~OneAttempt(r)
    <3>1. Exhausts(run[r].todo, run[r].tried) /\ \A d \in Domains : RowEarned(d)'
      BY <1>1, <1>11, <2>1, <2>3, RowsStay DEF Walk, AttemptFails
    <3>2. CASE Attempt(r, Tail(run[r].todo))
      BY <1>9, <1>10, <1>11, <2>1, <3>1, <3>2 DEF AttemptFails
    <3>3. ASSUME run[r].stage = "crawling", NEW i \in 2..Len(run[r].todo),
                 run[r].todo[i] = "playwright",
                 Attempt(r, SubSeq(run[r].todo, i, Len(run[r].todo)))
          PROVE  EarnedInv'
      <4>1. i \in 2..Len(run[r].todo) + 1 /\ i <= Len(run[r].todo) /\ Method(r) = "crawl4ai"
        BY <1>1, <3>3 DEF ChainShape
      <4> QED BY <1>9, <1>11, <2>1, <3>1, <3>3, <4>1 DEF AttemptFails
    <3> QED BY <1>11, <2>3, <3>2, <3>3 DEF AttemptFails
  <2> QED BY <1>11, <2>2, <2>3 DEF AttemptFails
<1>12. CASE MarkSeleniumOnly(r)
  <2>1. run[r].todo # <<>> /\ Exhausts(run[r].todo, run[r].tried)
    BY <1>1, <1>12 DEF MarkSeleniumOnly, ChainShape, Walk
  <2>2. \A d \in Domains : RowEarned(d)'
    <3>1. SeleniumOnly(table[Domain(r)]) \in Row
      BY <1>1, RowTypes
    <3>2. RowEarned(Domain(r)) /\ Failures(Domain(r)) \in Nat
      BY <1>1, FailuresType DEF EarnedInv
    <3>3. /\ SeleniumOnly(table[Domain(r)]).count <= Failures(Domain(r))
          /\ SeleniumOnly(table[Domain(r)]).black => THRESHOLD <= Failures(Domain(r))
      BY <1>1, <3>2 DEF SeleniumOnly, RowEarned, Row
    <3> QED BY <1>1, <1>12, <3>1, <3>3, RowWritten DEF MarkSeleniumOnly
  <2> QED BY <1>9, <1>10, <1>12, <2>1, <2>2 DEF MarkSeleniumOnly
<1>13. CASE RecordSuccess(r)
  <2>1. Method(r) \in Methods
    BY <1>1, <1>13 DEF RecordSuccess, ChainShape, Calls, Method
  <2>2. \A d \in Domains : RowEarned(d)'
    <3>1. Learned(table[Domain(r)], Method(r)) \in Row
      BY <1>1, <2>1, RowTypes
    <3>2. /\ Learned(table[Domain(r)], Method(r)).count = 0
          /\ Learned(table[Domain(r)], Method(r)).black = FALSE
      BY <1>1 DEF Learned, Row
    <3>3. 0 <= Failures(Domain(r))
      BY FailuresType
    <3> QED BY <1>1, <1>13, <3>1, <3>2, <3>3, RowWritten DEF RecordSuccess
  <2>3. MovesTo(r, "storing") /\ Walk(r)'
    BY <1>1, <1>13, GoToMoves, QuietMove, StageFacts DEF RecordSuccess
  <2> QED BY <1>13, <2>2, <2>3, EarnedMove DEF RecordSuccess
<1>14. CASE Store(r)
  <2>1. MovesTo(r, "done")
    BY <1>1, <1>14, AnswerMoves, StageFacts DEF Store, Respond
  <2> QED BY <1>2, <1>14, <2>1 DEF Store
<1>15. CASE ReadFailures(r)
  <2>1. /\ MovesTo(r, "counting")
        /\ run'[r].tried = run[r].tried
        /\ run'[r].seen = [row |-> table[Domain(r)], at |-> now]
    <3>1. [row |-> table[Domain(r)], at |-> now] \in Seen
      BY <1>1 DEF Seen, TypeOK
    <3> QED BY <1>1, <1>15, <3>1 DEF ReadFailures, MovesTo, TypeOK, Coroutine, Stages, Holding
  <2>2. RowEarned(Domain(r)) /\ Failures(Domain(r))' = Failures(Domain(r))
    BY <1>1, <1>15 DEF EarnedInv, ReadFailures, Failures, LetDown, Domain
  <2>3. Walk(r)'
    BY <1>1, <1>15, <2>1, <2>2 DEF Walk, MovesTo, RowEarned, ReadFailures
  <2> QED BY <1>15, <2>1, <2>3, RowsStay, EarnedMove DEF ReadFailures
<1>16. CASE CountFailure(r)
  BY <1>16, CountFailureEarns
<1> QED
  BY <1>3, <1>4, <1>5, <1>6, <1>7, <1>8, <1>11, <1>12, <1>13, <1>14, <1>15, <1>16 DEF Own

\* A step of the admin tools, the clean-up or the clock: no row gains a failure.
LEMMA NobodyEarns ==
  ASSUME EarnedInv, UNCHANGED <<job, run, letDown>>, \A d \in Domains : RowEarned(d)'
  PROVE  EarnedInv'
<1>1. ASSUME NEW r \in Requests
      PROVE  Walk(r)'
  <2>1. Failures(Domain(r))' = Failures(Domain(r))
    BY DEF Failures, LetDown, Domain
  <2>2. (OneAttempt(r)' <=> OneAttempt(r)) /\ Method(r)' = Method(r)
    BY DEF OneAttempt, Forced, Kind, Method
  <2> QED BY <2>1, <2>2 DEF EarnedInv, Walk
<1> QED BY <1>1 DEF EarnedInv

LEMMA EarnedInvInit ==
  ASSUME Init
  PROVE  EarnedInv
<1>1. At("idle").stage = "idle"
  BY DEF At
<1>2. \A r \in Requests : Walk(r)
  BY <1>1 DEF Walk, Init
<1>3. \A d \in Domains : RowEarned(d)
  BY DEF RowEarned, Init
<1> QED BY <1>2, <1>3 DEF EarnedInv

LEMMA EarnedInvNext ==
  ASSUME PermitInv, PermitInv', EarnedInv, [Next]_vars
  PROVE  EarnedInv'
<1>1. TypeOK /\ table \in [Domains -> Row \cup {NoRow}] /\ \A d \in Domains : RowEarned(d)
  BY DEF PermitInv, TypeOK, EarnedInv
<1>2. ASSUME NEW r \in Requests, Submit(r)
      PROVE  EarnedInv'
  <2>1. MovesTo(r, "waiting")
    BY <1>1, <1>2, GoToMoves DEF Stages, Submit
  <2> QED BY <1>2, <2>1, RowsStay, QuietMove, EarnedMove DEF Submit, GoTo
<1>3. ASSUME NEW r \in Requests, Raises(r)
      PROVE  EarnedInv'
  <2>1. Answer(r, "error")
    BY <1>3 DEF Raises, Respond
  <2>2. MovesTo(r, "done")
    BY <1>1, <2>1, AnswerMoves, StageFacts
  <2> QED BY <1>3, <2>2, RowsStay, QuietMove, EarnedMove DEF Raises
<1>4. CASE ClearBlacklist
  <2>1. ASSUME NEW d \in Domains
        PROVE  RowEarned(d)'
    <3>1. Failures(d)' = Failures(d) /\ Failures(d) \in Nat /\ RowEarned(d)
      BY <1>1, <1>4, SameFailures, FailuresType DEF ClearBlacklist
    <3>2. CASE Blacklisted(d)
      <4>1. table'[d].black = FALSE /\ table'[d].count = 0
        BY <1>1, <1>4, <3>2 DEF ClearBlacklist, Blacklisted, Row
      <4> QED BY <3>1, <4>1 DEF RowEarned
    <3>3. CASE ~Blacklisted(d)
      <4>1. table'[d] = table[d]
        BY <1>4, <3>3 DEF ClearBlacklist
      <4> QED BY <3>1, <4>1 DEF RowEarned
    <3> QED BY <3>2, <3>3
  <2> QED BY <1>4, <2>1, NobodyEarns DEF ClearBlacklist
<1>5. CASE Clean
  <2>1. \A d \in Domains : RowEarned(d)'
    BY <1>5 DEF Clean, RowEarned
  <2> QED BY <1>5, <2>1, NobodyEarns DEF Clean
<1>6. CASE CleanupSelects
  BY <1>6, RowsStay, NobodyEarns DEF CleanupSelects
<1>7. CASE CleanupDeletes
  <2>1. \A d \in Domains : table'[d] \in {table[d], NoRow}
    BY <1>7 DEF CleanupDeletes
  <2>2. \A d \in Domains : RowEarned(d)'
    BY <1>1, <1>7, <2>1, SameFailures DEF CleanupDeletes, RowEarned
  <2> QED BY <1>7, <2>2, NobodyEarns DEF CleanupDeletes
<1>8. CASE Restart
  <2>1. \A d \in Domains : RowEarned(d)'
    BY <1>8, RowsStay DEF Restart
  <2>2. ASSUME NEW r \in Requests
        PROVE  Walk(r)'
    <3>1. At("done").stage = "done"
      BY DEF At
    <3>2. run'[r] = At("done") \/ run'[r] = run[r]
      BY <1>8 DEF Restart
    <3>3. Failures(Domain(r))' = Failures(Domain(r))
      BY <1>8 DEF Failures, LetDown, Domain, Restart
    <3>4. CASE run'[r] = run[r]
      <4>1. (OneAttempt(r)' <=> OneAttempt(r)) /\ Method(r)' = Method(r) /\ letDown' = letDown
        BY <1>8, <3>4 DEF OneAttempt, Forced, Kind, Method, Restart
      <4> QED BY <3>3, <3>4, <4>1 DEF EarnedInv, Walk
    <3>5. CASE run'[r] = At("done")
      BY <3>1, <3>5 DEF Walk
    <3> QED BY <3>2, <3>4, <3>5
  <2> QED BY <2>1, <2>2 DEF EarnedInv
<1>9. CASE Tick
  BY <1>9, RowsStay, NobodyEarns DEF Tick
<1>10. CASE UNCHANGED vars
  BY <1>10, RowsStay, NobodyEarns DEF vars
<1> QED
  BY <1>2, <1>3, <1>4, <1>5, <1>6, <1>7, <1>8, <1>9, <1>10, OwnEarns DEF Next

\* A domain is blacklisted only after as many exhausted scrapes as the threshold, for any
\* number of requests, whatever happens between the statements of the transactions.
THEOREM BlacklistEarnedHolds == Spec => []BlacklistEarned
<1>1. Spec => []EarnedInv
  BY EarnedInvInit, EarnedInvNext, PermitInvHolds, PTL DEF Spec
<1>2. PermitInv /\ EarnedInv => BlacklistEarned
  <2>1. \A d \in Domains : Failures(d) \in Nat /\ THRESHOLD \in Nat
    BY FailuresType, ConstantTypes
  <2> QED BY <2>1 DEF EarnedInv, RowEarned, BlacklistEarned, Blacklisted, Failures
<1> QED BY <1>1, <1>2, PermitInvHolds, PTL
=============================================================================
