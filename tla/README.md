# GoShield in TLA+

TLA+ models of GoShield, the insurance-fraud pipeline in this repository, and of GoERP,
the back-office application it ships, with TLC runs on small instances and proofs,
checked by TLAPS, for all instances. Paths below are relative to the repository's `src/`.

## 1. The system

The repository holds two programs.

*GoShield* is a set of Go services around PostgreSQL, Kafka, Redis and MinIO,
with a React dashboard. A claim is inserted by **claim-service** and announced
on `claims.new`; **ai-service-go** has it scored by **ai-service-py** and
publishes the score on `claims.analyzed` and, when it is high, on
`claims.flagged`; claim-service writes the score and a verdict into the row and
may publish `claim.flagged` once more; **notification-service** turns both topics
into WebSocket messages and Slack alerts; the dashboard refetches what it is told
of. **auth-service** and **api-gateway** (tokens, rate limits, proxy) stand in front.

*GoERP* (`goerp/`) is a separate Fiber + SQLite application: inventory, sales,
purchases, accounting, CRM, HR, in one process.

| component | state | operations | what is hard | what makes it correct |
|---|---|---|---|---|
| Kafka consumer, `pkg/events/kafka.go` | position, message in hand, attempt, commits not yet sent; at the broker: log, owner, committed offset | `Consume`, `Close`, `Publish` | crash between handling and committing, rebalance in the middle of a message, `Close` while the handler runs, messages that never succeed | at-least-once, in-order, no partition blocked, shutdown ends |
| claim-service | table `claims` | `CreateClaim`, `UploadDocument`, `ReviewClaim`, `DeleteClaim`, `HandleAnalysisResult` | the database write and the publish are not one step; late and repeated results meet analysts' decisions and deletions | a row's status comes from a score of its claim or from an analyst, no claim is forgotten |
| ai-service-go | the event in hand | `ClaimConsumer.Handle` | three attempts, a dead letter for each, two publishes that may fail, crashes in between | every claim is scored or dead-lettered |
| notification-service, consumer | none | `Handle` | at-least-once delivery, two replicas with a hub each | alerts are justified, events reach the right company |
| notification-service, hub | client table, three channels, one channel per client | `Run`, `Broadcast`, `serveWS` with its pump | goroutines, full channels, `select` in any order, peers that stall or vanish | no panic, no message lost or repeated for a client that keeps up, no goroutine held up |
| frontend | query cache, stores, token, socket | `useWebSocketUpdates`, `api.ts`, `ws.ts`, stores | refetch racing the UPDATE, refresh queue, reconnection | the dashboard shows what the table holds |
| auth-service | tables `users`, `refresh_tokens`; the client's cookie | `Register`, `Login`, `RefreshTokens`, `Logout`, `LogoutAll`, `HandleOAuth`, `UpdateUser`, `DeleteUser` | several requests of one browser, statement by statement without a transaction; failed statements whose errors are dropped; lost answers | one token per session, a session that is over stays over, a deleted account is refused |
| api-gateway, rate limiter | one sorted set per key in Redis | `Limiter.Allow`, `RateLimitMiddleware` | timestamps come from the gateways' clocks, scripts overtake each other, the key expires, Redis fails | never more than the limit per window, no refusal below it |
| api-gateway, authentication and proxy | none | `AuthMiddleware`, `ReverseProxy` | none: each request on its own | headers name the token's user |
| GoERP inventory | `products`, `stock_moves` and the catalogue's tables | moves, adjustments, products, `checkReorderAlert` | stock is a sum over moves, alerts are goroutines started by a move and lost at a crash | drops to the reorder point are announced, the views of low stock agree |
| GoERP sales, purchases, accounting, CRM, HR, reports | their tables in SQLite | every call of the API | several statements per call without a transaction; statements that the tables created at start do not allow | what is answered agrees with what is stored and published |

They interact by Kafka topics (claim-service, ai-service-go, notification-service),
by calls over HTTP (gateway to services, ai-service-go to ai-service-py, browser to
gateway), by channels inside notification-service, by rows of PostgreSQL, and, in
GoERP, by rows of SQLite and an in-process bus. `PROJECT.json` lists every component, what is
modelled of it, and the hazards at their lines.

## 2. Modules

| module | models |
|---|---|
| `EventDelivery` | what a consumer group promises: messages of a partition are settled (handled or skipped) in order, and acknowledged only when settled |
| `KafkaConsumer` | `Consumer.Consume`/`Close` in several processes of one group, the shutdown of `claim-service/cmd/main.go`, crashes and rebalances |
| `ClaimLifecycle` | what an analyst may see a row of `claims` do, knowing nothing of Kafka |
| `ClaimPipeline`, `MCClaimPipeline` | the whole pipeline, HTTP handler to dashboard |
| `WsHub` | `Hub.Run`, `serveWS` and the write pumps |
| `Sessions` | what auth-service promises of a session: it begins with a sign-in, and once over it stays over |
| `AuthTokens`, `MCAuthTokens` | auth-service, each call to PostgreSQL a step, and what its handlers leave in the client |
| `RateLimiter`, `MCRateLimiter` | the limiter of api-gateway: middleware, Go side and Lua script |
| `Stock` | GoERP: products, stock moves, the goroutines that announce a low stock, the queries of low stock |
| `ErpSchema` | GoERP: the tables `AutoMigrate` creates, what a call is, when a statement can be executed |
| `ErpInventory`, `ErpSales`, `ErpOffice`, `ErpCrm`, `ErpReports` | every other call of GoERP's API as the statements, checks and publications it is made of |
| `BackOffice` | the server that runs those calls, several at a time, with failures and restarts |
| `Erp`, `MCErp` | `Stock` and `BackOffice` in one process |
| `KafkaConsumer_proofs`, `ClaimPipeline_proofs`, `WsHub_proofs`, `AuthTokens_proofs`, `RateLimiter_proofs`, `Stock_proofs`, `BackOffice_proofs`, `Erp_proofs` | the theorems |

**KafkaConsumer.** `life` is the process (`down`, `running`, `cancelled` after SIGTERM,
`closed` after `reader.Close`), `pc` the place in `Consume`. `Fetch`, `HandlerSucceeds`,
`HandlerFails` and `Commit` are the parts of the loop; a message that does not decode
goes from `Fetch` to `Commit`. `CommitMessages` is asynchronous (`CommitInterval` is
one second): `Commit` puts the offset into `stash`, and `Flush` or `Close` sends it. The
broker (`Assign`, `Revoke`, the offset store) is not in the repository and is
modelled from how `kafka.go` uses it. Only claim-service and ai-service-go wait for
`Consume` when they stop; notification-service does not, which is a `Crash` here.

**ClaimPipeline** sits on top: a consumer group's topic is the set of its
uncommitted events, taken in any order (the producer balances by bytes, so events of a
claim are spread over partitions) and removed when the handler is done, which is what
`EventDelivery` allows. What an HTTP handler has still to do after its database write
is in `requests`; what an AI worker or a claim-service consumer is in the middle of is in
`analysis` and `flagging`. `Loss` is a publish that fails for good, an UPDATE refused at
every attempt, or a process that dies between the write and the publish; `Crash` is a
worker that dies before its commit. Scores are in ten-thousandths, the four decimals of the AI's answer
(`fraud_model.py:197`); the column has three (`Stored`), and the status is decided from the four (`Verdict`). `view` is a dashboard that watches; `home` is the pod
its socket is on. History variables (`issued`, `scored`, `alerts`, `received`) record what
the properties speak of. The hub is reduced to "clients of the company on this pod";
`WsHub` is what that rests on, for a client in the table that keeps up.

**WsHub.** `Run` takes from one of the three channels, and when it has taken a message
offers it to each client of the company in turn (`msg`, `todo`). `serve` is the handler
goroutine, `pump` the write pump. `h.mu` is left out: only `Run` writes the table. A connection is one for good: the
handler returns without waiting for its pump (`websocket.go:98`), and whether the WebSocket library reuses the connection's
object meanwhile is that library's behaviour and not modelled.

**AuthTokens.** An account is its (company, e-mail) pair. A request in flight is a record:
the statement it is about to run (`pc`), its client, the account it serves, the token it was
given and the one it has made. Actions bear the names of the repository's methods or of the
service's and handlers' functions; the reads filter by `is_active` as the SQL does
(`user_repository.go:103`). The table keeps a second flag, `active`, by which no modelled read filters as long as
`is_active` is set, and which is therefore left out: this makes `Update`, which sets only `active`,
a step that changes nothing. `Fails` is a statement that fails, `Crash` a process that dies
or an answer that is lost. `held` is the refresh token a client would send: for a browser
the cookie, which `Register` does not set. `ended`, `overlapped` and `gone` are history. A session is named by
its first token, `line[t]`, which exists only in the model.

**RateLimiter.** One key. `Sample` is `Allow` reading its gateway's clock, `RunScript` the Lua script,
atomic in Redis, `FailOpen` an error of Redis, after which the script may have run or not. `Tick`
advances Redis' clock and expires the key. A member is a timestamp and the value of
`math.random`, so two requests may share one. `Skew` and `Delay` bound how far a clock is ahead and how
long a request is on its way to Redis.

**Stock.** The stock of a product is `into - outOf`, as in the queries, not a
column. `checks` counts the goroutines of `checkReorderAlert` that have not read the
product yet, `announcing` those that have read it as low and not yet published. `CheckFails` is
an error of their read, `StockCrash` the end of the process. `Matching` is the WHERE and HAVING of `ListProducts`,
`ListProducts` its first page: which rows are on it depends on the time they were created, so it is any `PageSize` of them.
`GetLowStockProducts` asks for that page only, of 200 (`inventory_usecase.go:472-478`).

**BackOffice and the statement lists.** A call of GoERP is a list of steps: `get`, `insert`,
`update` and `delete` of a table, `check` of the request, `publish`; a step may have its error dropped,
and the call has an answer for success and one for failure. `ErpSchema` lists tables and columns as
`AutoMigrate` creates them; a statement that names a table or column which is not there fails
whatever the rows are (`Executable`), because SQLite prepares it against the schema. `Succeed` runs the next step, `Fail` lets it
fail, `Restart` drops what is in flight and seeds again. `desk` picks the group of calls a
behaviour is about: no desk writes what another one's steps depend on (orders do depend on customers, but nobody
deletes one, and the seeded one stands for them), so nothing is gained by mixing them. Orders and invoices take their state
from the request, and are drafts only if it gives none (`sales_repo.go:180-182, 283-285`); `preset` has the orders created as confirmed. `NoOfficeRecords`, `CreatedIsStored` and the other properties hold per desk.

**Composition and refinement.** `KafkaConsumer` implements `EventDelivery` (settled
messages are the handled and the skipped ones); `ClaimPipeline` implements
`ClaimLifecycle` (same `row`, `issued`, `scored`); `AuthTokens` implements `Sessions` (a session is open
while it has a live token or an exchange under way). All three are checked by TLC and proved. `Erp`
composes `BackOffice` and `Stock`: one process, so `Restart` and `StockCrash` are one
step; `ErpSpec` implements `StockSpec` and `OfficeSpec`, which is proved and carries the theorems of
`Stock` and `BackOffice` over.

## 3. Runs

| run | bounds | shows |
|---|---|---|
| `consumer` | 2 members, 1 partition, 2 messages, 2 attempts, 1 crash or termination, 1 rebalance | at-least-once, order, offsets that go back only after a rebalance, refinement of `EventDelivery`; every message is settled, a terminated member stops |
| `pipeline_safety` | 1 claim, 2 companies, 1 upload, 1 decision, 1 loss, 1 crash, scores 0.7995 and 0.8100 | the six invariants and the refinement of `ClaimLifecycle` |
| `pipeline_live` | 1 claim, 1 decision, 1 crash, 2 attempts, no loss, 1 pod, scores 0.7995 and 0.8000 | every claim is settled; a FLAGGED claim reaches its dashboard |
| `hub` | 2 connections, 2 companies, 2 messages, channels of 1, 2 and 1 | no use of a closed channel, complete and ordered streams; neither the hub nor a handler waits for a peer; pumps end |
| `auth_safety` | 1 account, 1 browser, 2 requests in flight, 3 token pairs, 1 fault | rotation, tokens that work, sessions and deleted accounts that stay over, refinement of `Sessions` |
| `limiter` | 4 limited requests and 1 skipping, limit 2, window 4, clocks apart by 1, delay 1, 6 instants | the bound of a window, and no refusal below the limit |
| `erp` | 2 callers, 2 new ids, 1 restart; 2 products as long as no stock has moved, 1 after that, a page of 1, levels 0 to 2, quantities 1 and 2, 2 goroutines, 2 faults | what is answered, stored and published agrees; views of low stock agree up to the list's page; drops are announced |
| `lost_creation`, `two_pods`, `silent_rejection`, `ghost_client`, `logout_all` | the smallest that show it | disagreements, section 6 |

*Why these bounds are enough to be interesting.* Two members and one partition give
every overlap of an old and a new owner; two messages give order and offsets that go
back; capacity 1 makes every channel of the hub fill up, and the second message finds it
so. In the pipeline one claim is enough for the races, because no action touches two
claims' rows; the upload gives it two analyses with different scores, so results can
repeat, cross, and come after a decision or a deletion. 0.8000 sits on the threshold
(`>= 0.80`), 0.7995 below it and on it once stored. `MaxRetries` is 3 in the code; 1 or 2 in the runs (with and without a
retry). In auth-service two requests in flight are two tabs or a retry racing its original, three token
pairs are a sign-in, its refresh, and a second refresh or sign-in to meet them; one account is
enough because no statement relates two. In the limiter four requests with limit 2 fill a window and
leave one to be refused on either side of its end, and the times reach past the first expiry. In GoERP
two callers at the same statements give every race of two calls of a desk, and two fresh ids let
each of them insert; two products that can be low are one more than the page holds, and no step relates two products' moves
(`MaxMoving` keeps the moves to one). `MCClaimPipeline`, `MCAuthTokens`, `MCRateLimiter` and `MCErp` declare the symmetric sets. The runs with
liveness use no symmetry. All safety properties are also proved, without bounds. Where the bounded inputs let a run
end, its configuration says `CHECK_DEADLOCK FALSE`.

*Fairness.* Weak fairness of each process: Go schedules a runnable goroutine, Kubernetes
restarts a process, the group coordinator assigns free partitions, a browser sends
the requests it has queued. Nothing is assumed of users, failures or rebalances. In
`AiStep` and `ClaimConsumerStep` fairness is of the worker, not of success: the AI may
fail at every attempt, the dead letter is then what settles the claim. In
`WsHub` a read ends by its deadline (`websocket.go:108`), but a **write** has no deadline,
so `Pump` gets no fairness; `PumpsEnd` assumes it explicitly, as its hypothesis.
auth-service, the limiter and GoERP wait for nobody: what they promise is safety, and their
specifications have no fairness.

## 4. Properties worth a remark

* `StatusExplained`: `UpdateAnalysis` and `UpdateStatus` each overwrite the status without
  a look at it. It says what survives: FLAGGED, and APPROVED where no analyst has signed, now or earlier, are the verdict
  of one score the AI gave that claim, of which the row holds the rounded value. The row alone does not tell which:
  0.800 is FLAGGED or, if it was 0.7995 to 0.7999, APPROVED (section 6). (A late
  result may replace an analyst's decision, `claim_repository.go:220`; the model has this,
  and `ClaimLifecycle` allows it.)
* `PendingTracked`: without losses, crashes cannot make the pipeline forget a claim: a
  PENDING claim's event or result is somewhere, or it is dead-lettered.
* `FlaggedIsAnnounced`: `claim.flagged` has two publishers, so any single fault leaves
  an alert. Two faults do not, hence `losses + crashes <= 1`.
* `CommitsOnlyAdvance` is restricted to behaviours without a rebalance: after one, the old
  owner's late commit does take the offset back. `NoEventLost` has no such restriction.
* `OneTokenPerSession` leaves out the sessions of which two refreshes read the same token before
  either revoked it (`overlapped`): nothing prevents that (`auth_service.go:137-145`), and both are then
  answered. So it shows that only this race breaks the rotation, and does not catch the race. It also leaves out faults: a revocation that fails is only logged.
* `HeldTokenWorks`: a browser's own requests, however they overlap, do not leave it with a
  token that is refused, unless it has expired, was logged out, its user is deleted or something failed. The token that was handed out without having been stored
  (`auth_service.go:280`) is such a failure: what is checked of it is that nothing continues its session (`ImplementsSessions`).
* `LogoutAllIsFinal` speaks of the sessions that logout-all found at rest; `logout_all` shows the others.
* `RateBound` shortens the window by `Lag = Skew + Delay`: with clocks that differ, a script with
  an early timestamp removes nothing and one with a late timestamp removes members that an
  earlier one would still have counted. This is what the code gives, no less. It counts members: of the requests that share one (`redis_limiter.go:42`) or that an
  error of Redis let through (`redis_limiter.go:87`) it says nothing, and more than the limit may pass in these ways.
* `DropsAreAnnounced`: a goroutine announces what it reads, not what its move saw. A drop is
  owed until somebody announces it or the stock recovers.
* `LowStockViewsAgree`: the list of low products is one page of 200. Up to there it names the products that the statistics
  count and the summary marks; past it it is a full page of them, and the answer does not say that there are more.
* `StoredIsAnnounced` is about the orders `ConfirmOrder` has confirmed and about invoices. An order that was created as
  confirmed (`preset`) is left out until `ConfirmOrder` reaches it: nobody announces it (section 6).
* `CreatedIsStored` and `RefusedLeavesNothing` look for a step in the wrong place among all
  the calls' lists of steps; `Register` and `createWorkflow` are the named exceptions (section 6), whose own case they do not catch.

## 5. Proofs

All theorems are about the specifications with arbitrary constants (any number of members,
claims, workers, connections, accounts, requests, products and faults), under the named
assumptions of the modules (`BoundsAssumption`, `CapacityAssumption`, `ScoresAssumption`,
`ValuesAssumption`, `AuthAssumption`, `LimiterAssumption`, `StockAssumption`,
`BackOfficeAssumption`: bounds are naturals, placeholders differ from real values, the flag
threshold is positive and a whole number of thousandths, quantities and the page are positive).

* **KafkaConsumer_proofs**: `TypeCorrect`, `AtLeastOnce`, `InOrder`, `Refinement`, `Advance`. The invariant adds
  to `NoEventLost` and `SettledInOrder` what a member knows: everything below its
  position in a partition is settled except the message in its hand, and
  what is in `stash` is settled. Neither invariant is inductive without it: committing is safe only
  because the offset was settled before it was stashed, and settling keeps the order only
  because the member had settled everything before it. `Advance` (offsets only grow until a
  rebalance takes a partition from a live member) needs `Exclusive`: only the owner of a partition has commits of it to send and, while its
  reader is open, a message of it in hand, and committed offset, stash and position are in that order (`Hold`).
* **ClaimPipeline_proofs**: `TypeCorrect` is inductive on its own. The
  others need what the events in flight say: `Owned` (every event, request and
  piece of work names the company that created its claim), `Backed` (it names a score the
  AI gave that claim) and `ResultsTracked` (while a claim is PENDING no consumer is past
  applying its result, and without losses a worker that is done publishing its result has left it in the
  topic). From these follow `Explained`, because the result
  that is applied is backed and rounding moves a score at most up to the threshold (`Rounding`), `NoFalseAlarm`, `TenantsApart`, `NoClaimForgotten`, and
  `LifecycleImplemented`, in which `ApplyAnalysis` maps to `Judge` because the result it
  applies is backed and is stored as the rounded value of the score whose verdict it gives. `OneFaultStillAlerts` counts the two publishers of `claim.flagged`
  apart: with no fault each of them is sure to tell of every FLAGGED claim, and one fault breaks off one of
  them only (`TwiceCovered`). Its hypothesis is that the threshold at which claim-service publishes is
  not above the one that flags the row; both are 0.80 as shipped (`pkg/config/config.go:194`,
  `services/claim-service/config/config.yaml:54`), and above it claim-service would leave some FLAGGED rows to the AI worker alone.
* **WsHub_proofs**: `TypeCorrect`, `NoPanic`, `NothingMissed`, `InOrder`. `Distribution` ties `todo` to `msg` and
  the table; `Entry` says that a client comes into the table once, from `register`,
  before which its channel is open, and that a channel is closed only when the
  client leaves the table; it keeps `Run` from sending on a closed channel. `StreamComplete`
  follows with what holds of a client that has not yet opened. `InOrder` follows a message through
  the channels: all that a client has received comes before what its channel holds, that before what `Run` is
  about to offer it, and that before what `Run` has not taken (`InLine`).
* **AuthTokens_proofs**: `TypeCorrect`, `LogoutAllFinal`, `SessionsImplemented`, `PanicsExplained`,
  `DeletedRefused`, `RotationCorrect`, `HeldWorks`. All rest on `TypeInv`: a token's account is that of its session's
  first token (`Issued`), and a request that carries a token read it from the table and serves its
  account (`Carried`). `StepEbbs` says that no step but the issue of a pair makes a session alive, and `IssueEffect`
  that the pair of a refresh belongs to a session that its own exchange keeps alive; final logouts and the refinement follow from the two.
  `RotationCorrect` needs `Single`: two exchanges of a session are the same one, because the second would have
  had to read a live token, which `OneTokenPerSession` says the first one had read.
  `HeldWorks` needs that a token is in one place, on its way to a client or with the one whose requests alone
  carry it (`Apart`), so that nobody else revokes it, and that what is on its way works as well (`Usable`).
* **RateLimiter_proofs**: `TypeCorrect`, `WithinLimit`, `RefusedRightly`. The bound is on every member ever
  added, a script sees those still in Redis. The invariant says that a member that has left is too old
  to share a shortened window with a timestamp still to be added (`Left`), which needs that
  timestamps are neither ahead of the clocks (`Past`) nor older than the delay (`Timely`), and that the
  key outlives its members (`Expiry`).
* **Stock_proofs**: `StockCorrect` needs that what is owed can still be read as low
  (`Owing`), so that whichever goroutine reads next announces it.
* **BackOffice_proofs**: `OfficeTyped`, `NothingIsKept`, `EventsFollow`, `CreatedMeansStored`, `RefusedMeansNothing`. The
  first part goes through all the calls of the API and proves of each that it is `Sane`: nothing that can fail comes after
  an insert (`Closes`, but for `Register`), what changes an order or stores an invoice is followed by its
  publication and by nothing that can fail (`Announces`), a call answered 201 drops no error of its inserts or cannot
  reach its answer (`Firm`, but for `createWorkflow`), and no insert into a table of HR, CRM or purchases can be
  executed and find the row it refers to (`Lawful`). The second part knows the calls by that only. Its invariant (`OfficeIInv`) says of a call under way
  that the steps still to come are of its list and arranged as in it (`Proper`), that what is behind it was done
  unless its error was dropped (`Honest`), and that once it has stored a row it will answer with success (`Bound`);
  that the ids drawn are distinct; and that what is stored was told or is about to be (`Heard`). The
  properties of the answers are not inductive without it: when a call answers, its list is empty, and only the invariant remembers what it did.
* **Erp_proofs**: `ErpImplementsStock` and `ErpImplementsOffice` carry these results to the whole server: `ReorderAnnounced`,
  `ViewsOfStockAgree`, `ErpTyped`, `NoRecordIsKept`, `SalesAreAnnounced`, `CreatedIsThere`, `RefusedIsGone`.

Every invariant and every safety action property of the passing runs is a theorem.

*Only model-checked*: liveness, `ShutdownCompletes` among it (the prover has no rules for ENABLED
and fairness).

## 6. Where code and text disagree

With a run that shows it:

1. `lost_creation`: a failed publish leaves a claim PENDING for ever; `claim_service.go:124`
   counts on "a retry job" that does not exist.
2. `two_pods`: replicas of notification-service share a consumer group but not a hub, so
   half the dashboards are not told (`k8s/base/notification-service.yaml:7`, `README.md:105`).
3. `silent_rejection`: `ReviewClaim` sends its event without a company; it reaches no dashboard.
4. `ghost_client`: a connection that ends at once may be unregistered before it is registered,
   and stays in the hub's table.
5. `logout_all`: a refresh that has read its token before logout-all issues and stores the next one after it;
   the session goes on, though the answer is "all sessions revoked" (`handler/http.go:278`).

Read in the code, without a run.

GoShield:

* a score of 0.7995 to 0.7999 is APPROVED and stored as 0.800 (`claim_repository.go:214-225`, `migrations/001_initial_schema.sql:85`,
  `fraud_model.py:197`): a row at the threshold that no analyst has seen and nobody is alerted of (`StatusExplained` allows it);
* a dashboard may refetch before claim-service's UPDATE, and nothing tells it again
  (`notification_consumer.go:119`, `README.md:105`; `FlaggedReachesDashboard` holds because of the second publish);
* a decision MORE_INFO is published as `claim.approved` (`claim_service.go:245`);
* the comment at `claim_service.go:291` says that the flagged event has no company and is
  broadcast to all clients; the code passes `payload.CompanyID`, and the hub sends events without a company to nobody;
* no producer fills `analyst_email`, so the e-mail of `README.md:103` is never sent;
* the server sends no ping, so every WebSocket ends after 60 seconds (`websocket.go:108`);
* the upload hook sends field `document`, the handler reads `file` (`useClaims.ts:53`, `http.go:236`);
* `Register` sets no cookie, and the frontend refreshes by cookie only (`api.ts:42-46`, `README.md:135,149`): the first
  refresh after a registration is refused;
* `UpdateUser` sets only `active`, though `user_repository.go:73` says the two flags are kept in sync; the reads
  of login, refresh and OAuth filter by `is_active` first (line 103), so a deactivated user still signs in;
* `X-RateLimit-Limit` is always 60 (`ratelimit.go:38`), whatever the limit, and `Config.Burst` is not used;
* Redis seeds `math.random` alike for every script run, so two requests of one key with the same
  millisecond are one member and count once (`redis_limiter.go:42`; the model leaves the value open);
* the proxy reads values from the request's context that nothing sets (`reverse_proxy.go:36-44`);
* requests queued behind a token refresh are resumed only when it succeeds: if it fails they never settle (`api.ts:32`);
* the back-off of `ws.ts:42` grows with every close and is reset only by `connect`;
* the notification store counts unread items beyond the list it keeps (`notifications.ts:44`).

GoERP:

* 49 of its 164 statements can never be executed: they name tables or columns that `AutoMigrate` does not create, or
  are not SQLite (`AS` in GROUP BY, `INTERVAL`). Hence HR, CRM and purchases store nothing (`NoOfficeRecords`);
* `createWorkflow` answers 201, and there is no table of workflows;
* an order's and an invoice's state are fields of the request (`sales/domain/sales.go:31`, `sales_handler.go:74-80`, `sales_repo.go:180-182, 283-285`):
  an order can be created as confirmed, and then no `SalesOrderConfirmed` is published;
* the lines of orders and invoices are not stored;
* nobody subscribes to the event bus;
* an adjustment without a location changes nothing and is answered "stock adjusted successfully";
* `ListVariants` passes product and tenant in the wrong order, `ListLocations` a warehouse as the tenant;
* the list of low products ends at 200 (`inventory_usecase.go:472-478`), and the total of its answer counts all active products; the dashboard's `stock_alerts` counts inactive and untracked ones too;
* `UpdateProduct` does not compare reorder point and minimum as `CreateProduct` does (`inventory_usecase.go:88-90`);
* moves of type `adjust` and `return`, and a raised reorder point, start no check (`inventory_usecase.go:633-635`);
* `Register` leaves a tenant behind when its user cannot be created, as with a password longer than
  72 bytes; a company name without letters or digits is answered 400 though tenant and user exist;
* a seeded category that was deleted returns at the next start (INSERT OR IGNORE);
* `SetMaxOpenConns(1)` despite "pool of readers ok" (`database.go:41`), and `database.go:17` describes the DSN of another driver.

## 7. Not modelled, and the plan

Left out for good: presentation (`frontend/src/pages`, GoERP's web pages), deployment, configuration,
logging, the scoring model (ai-service-py), the object store, queries, request validation, wording of messages
and e-mails, roles and passwords, amounts and other values in GoERP's rows, and the gateway's
authentication and proxy, which are functions of one request without state.

Not modelled yet: the frontend's API client and stores, whose state is that of one browser tab (its refresh queue is the
only part with interleavings); the request for the OAuth redirect; `UpdateUser`'s other columns.

Next, in this order:

1. `ApiClient` (frontend): the refresh queue of `api.ts` under `AuthTokens`.
2. `WsHub` under `ClaimPipeline`: the reduction of the hub to its clients as a refinement.
