--------------------------- MODULE ScrapeService ---------------------------
(***************************************************************************)
(* The scrape tool of the web-research MCP server: UnifiedScrapeService    *)
(* takes a permit of the domain and walks the fallback chain of            *)
(* scrape_with_fallback, which learns from each outcome in one database    *)
(* row per domain and blacklists a domain that failed too often.           *)
(* The URL cache is left out: it is filled and never answers a request,    *)
(* since scrape makes "logger" a local name that a hit uses before it is   *)
(* bound, and the exception is swallowed.                                  *)
(*                                                                         *)
(* A request is suspended between any two of its awaits, so each database  *)
(* transaction and each scraping attempt is a step.  record_failure reads  *)
(* the row in one step and updates it in another (READ COMMITTED, no row   *)
(* lock), beside the other requests, the admin tools and the clean-up of   *)
(* the Celery worker.  Time passes in ticks; telemetry is left out.        *)
(***************************************************************************)
EXTENDS Integers, Sequences, FiniteSets

CONSTANTS
  Requests,          \* calls of scrape, each made once
  Urls,
  Domains,
  DomainOf,          \* extract_domain
  KindOf,            \* "pdf", "reddit" or "page"
  Jobs,              \* the arguments each may have: a URL, and a force_method or "none"
  MAX_CONCURRENT,    \* permits of a domain (rate_limit_max_concurrent)
  MAX_BROWSERS,      \* CRAWL4AI_MAX_CONCURRENT
  THRESHOLD,         \* BLACKLIST_FAILURE_THRESHOLD
  CRAWL4AI_RETRIES,
  SELENIUM_RETRIES,
  Window,            \* ticks in 24 hours
  DaysOld,           \* ticks in days_old of the clean-up
  MaxTime,           \* bound on the clock
  NoRow

Methods == {"httpx", "crawl4ai", "playwright", "selenium", "pdf", "reddit_api"}
\* ScrapingMethod has no value for Playwright.
ForcedMethods == (Methods \ {"playwright"}) \cup {"none"}

ASSUME ScrapeConstants ==
  /\ IsFiniteSet(Requests)
  /\ DomainOf \in [Urls -> Domains]
  /\ KindOf \in [Urls -> {"pdf", "reddit", "page"}]
  /\ Jobs \in [Requests -> SUBSET [url : Urls, force : ForcedMethods]]
  /\ {MAX_CONCURRENT, MAX_BROWSERS, THRESHOLD, CRAWL4AI_RETRIES, SELENIUM_RETRIES}
       \subseteq Nat \ {0}
  /\ {Window, DaysOld, MaxTime} \subseteq Nat

VARIABLES
  job,      \* the arguments of each request
  run,      \* its coroutine: where it is suspended, what is left of its fallback chain, the
            \* methods it attempted, and the row its record_failure read
  answer,   \* its response
  letDown,  \* history: the methods it had attempted when its failure was recorded
  free,     \* permits left of each domain
  table,    \* the domains table
  sweep,    \* domains the clean-up selected and is about to delete
  now

vars == <<job, run, answer, letDown, free, table, sweep, now>>

Never == -1
Row == [pref : Methods, count : Nat, black : BOOLEAN,
        failedAt : 0..MaxTime \cup {Never}, updatedAt : 0..MaxTime]
Seen == [row : Row \cup {NoRow}, at : 0..MaxTime]

ASSUME NoRowIsNone == NoRow \notin Row

\* The stages of a request that holds a permit of its domain.
Holding ==
  {"admitted", "routed", "trying", "crawling", "learning", "recording", "counting", "storing"}
Stages == {"idle", "waiting", "done"} \cup Holding
Answers == {"ok", "rate_limited", "blacklisted", "failed", "error", "lost"}

Calls == Methods \cup {"mark"}
Coroutine == [stage : Stages, todo : Seq(Calls), tried : SUBSET Methods, seen : Seen]

Nothing == [row |-> NoRow, at |-> 0]
At(s) == [stage |-> s, todo |-> <<>>, tried |-> {}, seen |-> Nothing]

TypeOK ==
  /\ job \in [Requests -> [url : Urls, force : ForcedMethods]]
  /\ \A r \in Requests : job[r] \in Jobs[r]
  /\ run \in [Requests -> Coroutine]
  /\ answer \in [Requests -> Answers \cup {"none"}]
  /\ letDown \in [Requests -> SUBSET Methods]
  /\ free \in [Domains -> 0..MAX_CONCURRENT]
  /\ table \in [Domains -> Row \cup {NoRow}]
  /\ sweep \subseteq Domains
  /\ now \in 0..MaxTime

Domain(r) == DomainOf[job[r].url]
Kind(r) == KindOf[job[r].url]
Holders(d) == {r \in Requests : run[r].stage \in Holding /\ Domain(r) = d}
Blacklisted(d) == table[d] # NoRow /\ table[d].black

-----------------------------------------------------------------------------
(* The row of a domain. *)

\* Mutant: a domain learned without its method.
LearnedUnknown(row, m) ==
  [pref |-> "unknown", count |-> 0, black |-> FALSE, failedAt |-> Never, updatedAt |-> now]

Learned(row, m) ==
  IF row = NoRow
  THEN [pref |-> m, count |-> 0, black |-> FALSE, failedAt |-> Never, updatedAt |-> now]
  ELSE [row EXCEPT !.pref = m, !.count = 0, !.black = FALSE]

SeleniumOnly(row) ==
  IF row = NoRow
  THEN [pref |-> "selenium", count |-> 0, black |-> FALSE, failedAt |-> Never,
        updatedAt |-> now]
  ELSE [row EXCEPT !.pref = "selenium"]

FirstFailure(at) ==
  [pref |-> "crawl4ai", count |-> 1, black |-> FALSE, failedAt |-> at, updatedAt |-> at]

\* failure_count after this failure, from the row that was read: older failures are forgotten.
NewCount(s) ==
  IF s.row.failedAt # Never /\ s.at - s.row.failedAt > Window THEN 1 ELSE s.row.count + 1

\* The UPDATE of the session: it writes the attributes that differ from what was read.
Failed(row, s) ==
  [row EXCEPT
     !.count = IF NewCount(s) # s.row.count THEN NewCount(s) ELSE @,
     !.black = IF NewCount(s) >= THRESHOLD /\ ~s.row.black THEN TRUE ELSE @,
     !.failedAt = s.at,
     !.updatedAt = s.at]

\* The fallback chain; "mark" stands for set_selenium_only.
Times(m, n) == [i \in 1..n |-> m]
Selenium == Times("selenium", SELENIUM_RETRIES)
Browsers == Times("crawl4ai", CRAWL4AI_RETRIES) \o <<"playwright", "mark">>

\* Mutant: selenium left out, as if it had been tried first.
ChainWithoutSelenium(preferred) ==
  IF preferred = "selenium" THEN Selenium \o Browsers ELSE <<"httpx">> \o Browsers

Chain(preferred) ==
  IF preferred = "selenium"
  THEN Selenium \o Browsers
  ELSE <<"httpx">> \o Browsers \o Selenium

-----------------------------------------------------------------------------
Init ==
  /\ job \in [Requests -> UNION {Jobs[r] : r \in Requests}]
  /\ \A r \in Requests : job[r] \in Jobs[r]
  /\ run = [r \in Requests |-> At("idle")]
  /\ answer = [r \in Requests |-> "none"]
  /\ letDown = [r \in Requests |-> {}]
  /\ free = [d \in Domains |-> MAX_CONCURRENT]
  /\ table = [d \in Domains |-> NoRow]
  /\ sweep = {}
  /\ now = 0

\* The coroutine goes on to its next await.
GoTo(r, s) ==
  /\ run' = [run EXCEPT ![r].stage = s]
  /\ UNCHANGED <<answer, free>>

Attempt(r, rest) ==
  /\ run' = [run EXCEPT ![r].stage = IF rest = <<>> THEN "recording" ELSE "trying",
                        ![r].todo = rest,
                        ![r].tried = @ \cup ({Head(run[r].todo)} \ {"mark"})]
  /\ UNCHANGED <<answer, free>>

\* The response of a request that holds no permit.
Answer(r, a) ==
  /\ run' = [run EXCEPT ![r] = At("done")]
  /\ answer' = [answer EXCEPT ![r] = a]

\* The response of a request that holds one: the finally of scrape releases it.
Respond(r, a) ==
  /\ Answer(r, a)
  /\ free' = [free EXCEPT ![Domain(r)] = @ + 1]

\* A request arrives, and waits for a permit whatever the URL cache holds.
Submit(r) ==
  /\ run[r].stage = "idle"
  /\ GoTo(r, "waiting")
  /\ UNCHANGED <<job, letDown, table, sweep, now>>

Acquire(r) ==
  /\ run[r].stage = "waiting"
  /\ free[Domain(r)] > 0
  /\ run' = [run EXCEPT ![r].stage = "admitted"]
  /\ free' = [free EXCEPT ![Domain(r)] = @ - 1]
  /\ UNCHANGED <<job, answer, letDown, table, sweep, now>>

\* wait_for gives up on the semaphore.
AcquireTimesOut(r) ==
  /\ run[r].stage = "waiting"
  /\ free[Domain(r)] = 0
  /\ Answer(r, "rate_limited")
  /\ UNCHANGED <<job, letDown, free, table, sweep, now>>

Start(r, chain) ==
  /\ run' = [run EXCEPT ![r].stage = "trying", ![r].todo = chain]
  /\ UNCHANGED <<answer, free>>

\* PDF first, then the blacklist, then Reddit, then force_method.
Route(r) ==
  /\ run[r].stage = "admitted"
  /\ IF Kind(r) = "pdf" THEN Start(r, <<"pdf">>)
     ELSE IF Blacklisted(Domain(r)) THEN Respond(r, "blacklisted")
     ELSE IF Kind(r) = "reddit" THEN Start(r, <<"reddit_api">>)
     ELSE IF job[r].force # "none" THEN Start(r, <<job[r].force>>)
     ELSE GoTo(r, "routed")
  /\ UNCHANGED <<job, letDown, table, sweep, now>>

\* get_domain_method, which hides the method of a blacklisted domain.
ChooseChain(r) ==
  LET row == table[Domain(r)]
  IN /\ run[r].stage = "routed"
     /\ Start(r, Chain(IF row # NoRow /\ ~row.black THEN row.pref ELSE "none"))
     /\ UNCHANGED <<job, letDown, table, sweep, now>>

Method(r) == Head(run[r].todo)

\* Crawl4AI runs in one of the MAX_BROWSERS browsers of the server.
OpenBrowser(r) ==
  /\ run[r].stage = "trying" /\ Method(r) = "crawl4ai"
  /\ Cardinality({q \in Requests : run[q].stage = "crawling"}) < MAX_BROWSERS
  /\ GoTo(r, "crawling")
  /\ UNCHANGED <<job, letDown, table, sweep, now>>

Attempting(r) ==
  \/ run[r].stage = "crawling"
  \/ run[r].stage = "trying" /\ Method(r) \notin {"crawl4ai", "mark"}

\* PDF, Reddit and forced requests have one attempt; a forced one records nothing.
Forced(r) == Kind(r) = "page" /\ job[r].force # "none"
OneAttempt(r) == Kind(r) # "page" \/ Forced(r)

AttemptSucceeds(r) ==
  /\ Attempting(r)
  /\ GoTo(r, IF Forced(r) THEN "storing" ELSE "learning")
  /\ UNCHANGED <<job, letDown, table, sweep, now>>

\* Mutant: the proxy is rotated and the same attempt repeated.
AttemptFailsRetrying(r) ==
  /\ Attempting(r)
  /\ IF OneAttempt(r) THEN Respond(r, "failed")
     ELSE \E i \in 1..2 : Attempt(r, SubSeq(run[r].todo, i, Len(run[r].todo)))
  /\ UNCHANGED <<job, letDown, table, sweep, now>>

\* The next attempt of the chain.  A security checkpoint or a crash of the browser breaks out
\* of the Crawl4AI retries.
AttemptFails(r) ==
  /\ Attempting(r)
  /\ IF OneAttempt(r) THEN Respond(r, "failed")
     ELSE \/ Attempt(r, Tail(run[r].todo))
          \/ /\ run[r].stage = "crawling"
             /\ \E i \in 2..Len(run[r].todo) :
                  /\ run[r].todo[i] = "playwright"
                  /\ Attempt(r, SubSeq(run[r].todo, i, Len(run[r].todo)))
  /\ UNCHANGED <<job, letDown, table, sweep, now>>

\* set_selenium_only, when Crawl4AI and Playwright are exhausted.
MarkSeleniumOnly(r) ==
  /\ run[r].stage = "trying" /\ Method(r) = "mark"
  /\ table' = [table EXCEPT ![Domain(r)] = SeleniumOnly(@)]
  /\ Attempt(r, Tail(run[r].todo))
  /\ UNCHANGED <<job, letDown, sweep, now>>

RecordSuccess(r) ==
  /\ run[r].stage = "learning"
  /\ table' = [table EXCEPT ![Domain(r)] = Learned(@, Method(r))]
  /\ GoTo(r, "storing")
  /\ UNCHANGED <<job, letDown, sweep, now>>

\* The URL cache takes a success, or Redis raises.
Store(r) ==
  /\ run[r].stage = "storing"
  /\ Respond(r, "ok")
  /\ UNCHANGED <<job, letDown, table, sweep, now>>

\* The SELECT of record_failure.
ReadFailures(r) ==
  /\ run[r].stage = "recording"
  /\ run' = [run EXCEPT ![r].stage = "counting",
                        ![r].seen = [row |-> table[Domain(r)], at |-> now]]
  /\ UNCHANGED <<job, answer, letDown, free, table, sweep, now>>

\* Its INSERT or UPDATE, which raises when the row was inserted or deleted since the SELECT.
CountFailure(r) ==
  LET d == Domain(r)
      s == run[r].seen
  IN /\ run[r].stage = "counting"
     /\ IF (s.row = NoRow) = (table[d] = NoRow)
        THEN /\ table' = [table EXCEPT ![d] =
                            IF s.row = NoRow THEN FirstFailure(s.at) ELSE Failed(@, s)]
             /\ letDown' = [letDown EXCEPT ![r] = run[r].tried]
             /\ Respond(r, "failed")
        ELSE Respond(r, "error") /\ UNCHANGED <<table, letDown>>
     /\ UNCHANGED <<job, sweep, now>>

\* Mutant: without the finally.
RaisesKeepingPermit(r) ==
  /\ run[r].stage \in Holding \cup {"waiting"}
  /\ Answer(r, "error")
  /\ UNCHANGED <<job, letDown, free, table, sweep, now>>

\* Anything a request that holds a permit awaits may raise; the client may cancel a request.
Raises(r) ==
  /\ \/ run[r].stage \in Holding /\ Respond(r, "error")
     \/ run[r].stage = "waiting" /\ Answer(r, "error") /\ UNCHANGED free
  /\ UNCHANGED <<job, letDown, table, sweep, now>>

Own(r) ==
  \/ Acquire(r) \/ AcquireTimesOut(r) \/ Route(r) \/ ChooseChain(r) \/ OpenBrowser(r)
  \/ AttemptSucceeds(r) \/ AttemptFails(r) \/ MarkSeleniumOnly(r) \/ RecordSuccess(r)
  \/ Store(r) \/ ReadFailures(r) \/ CountFailure(r)

-----------------------------------------------------------------------------
(* The admin tools, the clean-up task and the server itself. *)

\* The clear_blacklist tool; nothing that can happen between its two statements
\* changes the outcome.
ClearBlacklist ==
  /\ \E d \in Domains : Blacklisted(d)
  /\ table' = [d \in Domains |->
                 IF Blacklisted(d)
                 THEN [table[d] EXCEPT !.black = FALSE, !.count = 0, !.updatedAt = now]
                 ELSE table[d]]
  /\ UNCHANGED <<job, run, answer, letDown, free, sweep, now>>

\* The reset tool.
Clean ==
  /\ \E d \in Domains : table[d] # NoRow
  /\ table' = [d \in Domains |-> NoRow]
  /\ UNCHANGED <<job, run, answer, letDown, free, sweep, now>>

\* The clean-up selects blacklisted domains untouched for DaysOld, then deletes them.
CleanupSelects ==
  /\ sweep = {}
  /\ sweep' = {d \in Domains : Blacklisted(d) /\ now - table[d].updatedAt > DaysOld}
  /\ sweep' # {}
  /\ UNCHANGED <<job, run, answer, letDown, free, table, now>>

CleanupDeletes ==
  /\ sweep # {}
  /\ table' = [d \in Domains |-> IF d \in sweep THEN NoRow ELSE table[d]]
  /\ sweep' = {}
  /\ UNCHANGED <<job, run, answer, letDown, free, now>>

\* The server restarts: the requests and the permits are in its memory.
Restart ==
  LET inside == {r \in Requests : run[r].stage \in Holding \cup {"waiting"}}
  IN /\ inside # {}
     /\ run' = [r \in Requests |-> IF r \in inside THEN At("done") ELSE run[r]]
     /\ answer' = [r \in Requests |-> IF r \in inside THEN "lost" ELSE answer[r]]
     /\ free' = [d \in Domains |-> MAX_CONCURRENT]
     /\ UNCHANGED <<job, letDown, table, sweep, now>>

Tick ==
  /\ now < MaxTime
  /\ now' = now + 1
  /\ UNCHANGED <<job, run, answer, letDown, free, table, sweep>>

Next ==
  \/ \E r \in Requests : Submit(r) \/ Own(r) \/ Raises(r)
  \/ ClearBlacklist \/ Clean \/ CleanupSelects \/ CleanupDeletes
  \/ Restart \/ Tick

Fairness == \A r \in Requests : WF_vars(Own(r))
Spec == Init /\ [][Next]_vars /\ Fairness

-----------------------------------------------------------------------------
(* Properties. *)

\* Every permit of a domain is free or with one of its requests, whichever way the others
\* ended: a response of any kind, an exception, a cancellation or a restart
\* (acquire and the finally of scrape).  So at most MAX_CONCURRENT requests work on a domain.
PermitsConserved ==
  \A d \in Domains : free[d] + Cardinality(Holders(d)) = MAX_CONCURRENT

\* The methods a failure is recorded after.
Exhaustive == {"crawl4ai", "playwright", "selenium"}
LetDown(d) == {r \in Requests : Domain(r) = d /\ Exhaustive \subseteq letDown[r]}

\* A blacklisted domain has let down at least THRESHOLD requests, each after Crawl4AI,
\* Playwright and Selenium, whatever updates of its row were lost, stale or undone
\* (record_failure, record_success, the admin tools and the clean-up).
BlacklistEarned ==
  \A d \in Domains : Blacklisted(d) => Cardinality(LetDown(d)) >= THRESHOLD

\* Every request is answered: the server always gets rid of the requests it was given, by
\* their scraping, by the timeout of the semaphore or by a restart; no chain and no wait for
\* a permit or a browser goes on for ever.
EveryScrapeAnswered ==
  []<>(\A r \in Requests : run[r].stage \in {"idle", "done"})
=============================================================================
