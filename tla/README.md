# ListiaV2 in TLA+

This directory is a verification development of ListiaV2: TLA+ modules translated from the
JavaScript under `src/`, TLC configurations that check them on small instances, and TLAPS proofs.
All paths below are relative to `src/`.

## 1. The system

ListiaV2 is a purchase-list application: an Express server over one SQLite file, a React client,
a desktop shell that forks the server, and an Android shell.

| Component | Files | State | Operations | Hard behaviour |
|---|---|---|---|---|
| Tables, statements | `server/lib/db.js` | users, suppliers, products, shared_access, id counters | get/all/run/transaction | cascades, id reuse, several processes |
| Catalogue | `server/routes/app.js`, `server/lib/queries.js` | rows | add/edit/delete supplier, product, archive | check-then-insert, rows read before and used after |
| quick-add | `server/routes/token.js` | rows | quick-add, resolveSupplier | second copy of the quota and name rules |
| Sharing, licence | `server/routes/account.js` | shared_access, users | share, unshare, leave, activate | ids remembered over a statement |
| Administration | `server/routes/admin.js` | users | grant, revoke, update, delete | several statements, no transaction |
| Estimate | `server/lib/queries.js`, `routes/app.js`, `lib/utils.js` | quantities, next purchase, prices, budget | item, budget, next, restore, trim | arithmetic, conversion of amounts, partial failure |
| Accounts and sessions | `server/routes/auth.js`, `account.js`, `lib/auth.js` | users, tokens, epoch, e-mail codes | signup, login, verify, resend, password | state read before an await (scrypt) |
| Boot lock, schema, index | `server/lib/db.js` | lock file, schema version, FTS index, triggers | acquire, release, migrate, rebuild | crashes at any statement, stale lock, writers meanwhile |
| Cluster, shutdown | `server/cluster.js`, `index.js` | workers | first administrator, fork, replace, stop | death at any point, signals before handlers exist |
| Desktop shell | `desktop/main.js` | child process | start, wait for health, quit | a second opening, a server that dies |
| Rate limit | `server/lib/auth.js` | buckets | rateCheck, isThrottled, recordAttempt, sweep | window edges, cap, count after an await |
| Mailer | `server/lib/mailer.js` | chain of jobs, transport | queueEmail, sendEmail | deadline racing the answer, retries |
| AI gateway | `server/lib/aiSupport.js`, `aiPriceSearch.js` | calls, cache | chat, price search | silence, fallback, a second call |
| Importer | `server/lib/importer.js`, `importWorker.js`, `routes/app.js` | rows, temporary file | parse, chunks, rollback | counts carried across yields, a chunk failing |
| Client session | `client/src/api.js`, `context/AppContext.jsx`, `App.jsx`, `AuthPage.jsx`, `Layout.jsx` | token, user, requests under way | refresh, login, verify, logout | answers late, lost, cut short |
| Client pages | `client/src/pages/*.jsx` | data shown, flags, windows | load, each button, search, load more | answers out of order, optimistic removal |
| Support chat | `client/src/components/SupportChat.jsx` | conversation, typing | ask, type out, keep | a question while an answer is typed out |
| Licence keys | `server/lib/licensing.js` | none | normalizeDuration, generateKey, verifyKey | written in one place and compared in another; a change of the secret |

What makes each component correct, in one line each: rows never contradict each other across
tables (tables, catalogue, sharing, administration); a request touches only what its caller may
(catalogue, sharing); a trial account stays within its quota (catalogue, quick-add); an amount
moved is neither lost nor invented, and a trim meets the budget (estimate); a session
given for a password ends with it, and a verified address was proved (accounts); one
process at a time is inside the schema and no crash leaves an index that lies (boot); workers that
die come back, and none stays after a stop (cluster, desktop shell); a limit is exceeded at most
as far as fixed windows and awaits allow (rate limit); each mail ends once, in order, and what is
reported of it is true (mailer); every call ends (AI gateway); what an import announces is what it
did (importer); the user shown is the one the requests speak for (session); a page shows what the
server has once nothing is under way, and no button stays disabled (pages, chat); a key issued to
somebody is accepted from him, for the days announced (licence keys).

The parts interact through four things:

* **The database file.** Handlers call `get`/`all`/`run` of `db.js`; every worker of `cluster.js`
  opens the same file, and a process that boots changes its schema while others serve.
* **The memory of one worker.** Rate limits, the queue of mails, the AI cache and the requests in
  flight; the same handler counts, then queues a mail or calls the gateway.
* **Signals and exits** between a primary and its workers, a shell and its server, and the lock
  file they leave or remove.
* **HTTP.** A tab has many requests under way; each ends as the network likes, and its end may
  change the token all later ones carry.

## 2. How the code becomes specifications

`node:sqlite` is synchronous. A handler without `await` therefore runs to its end before its
worker serves another request, while workers in other processes interleave with it at the
boundaries of SQL statements. The modules follow this:

* **A statement is a step** (Store, Catalog, Sharing, Estimate, Accounts, Boot). `job[w]` is the
  local state of the handler worker `w` is running: a label `pc` and the rows it has read. Each
  action performs the statement at that label together with the JavaScript that follows it up to
  the next statement. A `return` is `Respond`. There is no transaction around handlers in the code,
  and none in the model: what a handler wrote before an error stays written. `db.exec` of a script
  is its statements one by one.
* **One worker** (`npm start`) is the instance `Workers = {w1}`: statements of different handlers
  cannot interleave. **Two workers** is `cluster.js`.
* **An await releases the event loop.** In Accounts a *slot* is a request in flight belonging to a
  worker; `CanRun` lets a slot move only when no other slot of its worker stands between two
  awaits. In Worker and Importer an action is what one turn of the event loop does, from one await
  to the next.
* **A process that dies** (Boot, Lifecycle) leaves the lock file and what it has executed. A signal
  is recorded and delivered later; before its handlers are installed it kills.
* **A tab is one record** (Api, Session, Pages, Chat). What the code does between two awaits is a
  function from tab to tab with the code's name (`refresh`, `onUnauth`, `applyAuth`...), and an
  action is a composition of such functions. A request under way is sent, served or *hung* (its
  headers came, its body does not); how it may end is `Endings`, and the end runs the handler that
  awaits it, at once with the changes `api.js` makes to the tokens.
* A table is a function from ids to rows; AUTOINCREMENT is a counter that never goes back. A `Map`
  remembers its order of insertion where evictions use it (module Maps).
* **A transaction** is used by the importer alone. Chunks run in one turn of the event loop, so
  nothing of the worker reads between their rows; other connections see the rows as of the last
  commit, and a write of theirs waits. The model lets nothing else run while one is open.

| Module | Models | State | Actions |
|---|---|---|---|
| `Store` | tables and statements of `lib/db.js`, licence state as its two readers see it (`getUserLimits`, `userLicensed`) | `account`, `supplier`, `product`, `share`, the three id counters, `job` | `Begin` (attachUser, requireAuth) |
| `Catalog` | suppliers, products, archive of `routes/app.js`; quick-add of `routes/token.js` | - | one per statement of each handler; the same statement of two handlers is one action |
| `Sharing` | shares and licence activation of `routes/account.js`; licences and user deletion of `routes/admin.js`; expiry | - | one per statement; `LicenceExpires` is the clock |
| `Server` | the two together, over one database | - | `Next`, and all properties |
| `Estimate` | the estimate page: `routes/app.js`, `lib/queries.js`, amounts of `lib/utils.js` | `product` (quantities, price, link), `budget`, `job` | price form, budget, next purchase and back, trim, product form's quantity, archive |
| `Accounts` | sign-up, sign-in, e-mail codes (`routes/auth.js`), password form (`account.js`), user form (`admin.js`) | `user`, `mailbox`, `session`, counters, `job` | one per statement, and `CodeAges` for the clock |
| `Boot` | lock, column, index script and triggers of `lib/db.js` | lock file, schema, rows, index, each process's stage | one per system call or statement; requests' writes with the triggers there are |
| `Lifecycle` | `index.js`, `cluster.js`, `desktop/main.js` over Boot | users, parent, signals | first administrator, listen, stop, the two timers of a stop, fork, replace, open, ask health, quit, crash |
| `RateLimit` | `buckets` of `lib/auth.js` and the routes that ask it | buckets, sign-ins in flight | check-and-count, look, count after scrypt, tick, sweep |
| `MailQueue` | what `queueEmail` promises (abstract) | line, outcome | queue, end the first |
| `Mailer` | `lib/mailer.js` | chain, job, sends, reports | start, send, deadline, wake; the transport's steps |
| `AiGateway` | `lib/aiSupport.js`, `lib/aiPriceSearch.js` | calls, cache | headers, timer, body, pictures, cache set and sweep |
| `Worker` | the last three in one worker's memory, with the routes that move several of them | traffic, sign-ups being hashed | each route: its limits, then its mail or call |
| `Importer` | `lib/importer.js`, `importWorker.js`, `/import` | the user's rows, imports, the open transaction | parse, read, begin, row, commit or roll back, unlink; other requests of the user |
| `Licensing` | `lib/licensing.js`, and who issues keys in `routes/admin.js` | none | operators: a duration, a key, what verifying says |
| `Api`, `Session`, `Pages`, `Chat` | the client: requests and tokens; who is signed in; pages; the support window | `tab`, and of the server what pages show | every click that sends a request, every end of one, debounce and typing timers |
| `Client` | one tab and its server | `left` (bounds) | `Next`, and all properties |
| `Maps` | JavaScript's `Map`, which iterates in order of insertion | none | operators: set, delete, the first keys |
| `MCServer`, `MCEstimate`, `MCAccounts`, `MCLifecycle`, `MCWorker`, `MCImporter`, `MCClient` | instances for TLC | | |
| `ServerProofs`, `EstimateProofs`, `AccountsProofs`, `LifecycleProofs`, `WorkerProofs`, `ImporterProofs`, `LicensingProofs`, `ClientProofs` | theorems | | |

An operator called "faulty variant" in its comment is a plausible mistake in the definition that
follows it. Nothing uses it; substituting it shows that a property notices the mistake.

Abstractions, and why they lose nothing the properties speak of:

* **Store, Catalog, Sharing.** Names of products, units, telephones, notes, pagination and
  read-only views are left out. A supplier's name stays because three different foldings of it
  decide about duplicates: `LowerOf` (SQLite's `lower()`), `NormalOf` (`normalizeName`), and
  equality (the UNIQUE key). A licence's end is a step of the clock on the row. Of a user there is
  existence, licence and administration; a user deleted is not replaced by a new registration.
  `Begin` carries the rows in `req.user`, which handlers use to their end, however old.
* **Estimate.** Amounts are integers, ten-thousandths of a piece. `Stored` is what `parseAmount`
  reads after `storeAmount` wrote: not the identity. Prices and budgets are whole numbers of rials.
  The code computes with floats. Sums of binary fractions are exact there (`Exact`); any other may be
  off by a rounding error, and then comparing a total with a budget it equals may answer either way
  (`OverBudget`), and so may the question whether a division leaves a rest (`PiecesNeeded`): sets of
  outcomes. A rest smaller than one `Fine`-th of a piece may go unnoticed: 1e-9 in the code, 1/1000 in the
  instance, as TLC's integers have 32 bits, and any value in the proofs. That a comparison of sums
  that differ comes out right is assumed; it holds for sums below a thousand million toman, where a
  float's error is smaller than the least difference of two amounts times prices. The
  day a product is archived on is chosen at the statement (the handler reads the clock there).
* **Accounts.** E-mail codes never collide by chance; a mail once queued is delivered (`mailbox`),
  as losing it can only withhold a step. Licence columns, rate limits, cookies and the session's
  thirty days are left out.
* **Boot, Lifecycle.** A row is its name, and of the tables only products, the added column and the
  first administrator appear. The lock is fresh or old; having waited a minute is a choice between
  trying again and `GiveUpWaiting`.
* **RateLimit.** Time is relative: what is left of each window. The numbers are smaller and all
  windows have one length; nothing compares two windows. `recent` is history, for the property.
* **Mailer, AiGateway.** The transport and the gateway are external: they do anything at any time,
  or nothing. `overrun` and `doubt` are history. Of an answer it matters whether it is there, has
  prices, has pictures.
* **Importer.** Of a row, its supplier's name and whether its other cells pass. The rows are one
  user's: those of others are behind other owner ids in every statement. Where suppliers are shared
  the product form takes a product over from another owner (`TakeProduct`, no quota is asked) or gives
  it to one (`DropProduct`, which is a deletion as far as this user's rows go); `moved` is history.
* **Client.** Of the server's data a page tells apart products (active, archived, gone), how many
  other changes were made, and what was asked for. A handler of a page is a record: which pages
  have it, its flag, what it shows at once, what it asks of the server, what it calls after an
  answer and after an error. A good answer that is cut short is, for `api.js`, an object without
  fields (`Bare`): some pages draw it as none at all (`Lenient`), the others throw and are replaced by
  the card of the error boundary (`Crashed`), whose buttons are `Retry`. The mixes of pages with
  little else on them are met on such a page.

## 3. Runs

| Run | Instance | Shows |
|---|---|---|
| `one_worker` | one worker, three users: a trial user shares with an administrator who grants and revokes his licence; he activates one himself | `NamesAndSharesHeld` (names distinct under both foldings; at most `MaxShares` collaborators), `QuotaHeld` (an insertion leaves a never-licensed owner within his quota), `AccessRespected` (rows change only for their owner or by a current collaborator; the cascade along `supplier_id` agrees with access along `owner_id`) |
| `two_workers` | two workers, two users with access to each other, one of them an administrator who deletes the other while requests go on (licences, which none of these properties is about, do not change here) | `TypeOK`, `OwnerConsistent` (a product's owner is its supplier's owner), `ReferencesOK` (no dangling key), `SupplierIdentity`, `OnlyOwnShares` |
| `estimate` | one worker, two users on one page | `TypeOK`, `TrimFits` (a trim brings the page within the budget up to a rest that goes unnoticed, and with one piece of its last product back the page could be over it again) |
| `estimate_moves` | two workers moving the same products | `NoOverdraft`, `QuantityConserved` |
| `accounts` | one worker, two requests in flight, every operation of the module | `TypeOK`, `SessionsFresh` (a valid token given for a password was given for the present one), `EmailProven`, `StaysVerified` |
| `processes` | an update by one worker that dies twice; two workers on a new database, one dying; the desktop application opened twice, or its server dying | `TypeOK`, `BuildersAlone`, `BootSurvives`, `IndexComplete` (with one worker the index is the products, whatever statement a process died at), `ClusterRecovers`, `StopEnds` |
| `worker` | one worker, six mixes of requests: two mails whose address changes, sign-up, verification, chat, search, sign-in | `TypeOK`, `RateHeld` (any stretch as long as a window lets through at most twice the limit), `GuessesBounded` (sign-ins in flight go beyond by their number at most), `ReportsTrue`, `OneConnection`, `CacheHeld`, `QueuePromise` (the mailer implements `MailQueue`, liveness included), `AllAnswered` |
| `importer` | two imports of three kinds of file, and another request between any two of their steps: suppliers inserted, renamed, deleted; products inserted, moved, taken over, deleted; the licence changed | `TypeOK`, `RowsAccounted` (rows, errors and the count announced agree; a failed import leaves whole chunks), `OneHome` (one supplier for one normal name, unless the product form moved a product), `QuotaByOthers` (beyond the quota only by what came otherwise), `ImportsEnd` (every upload is answered and its file removed) |
| `client` | one tab: each page with two overlapping clicks and a fault, the sign-in page, the card of a page that throws, the support window, sessions that end elsewhere | `TypeOK`, `ShownIsSender` (the tokens held, the refresh whose answer will be shown and the user shown are of one user, and only the late answer to a change of password parts them), `SearchShowsTerm`, `PagesAgree`, `BusyEnds` (flags of buttons, forms, chat, first screen and of a search for a long enough term are released, unless a body never comes) |

Three runs end in a counterexample; each is a place where the code does something else than a line
of the repository says. The line is quoted in PROJECT.json under "findings".

| Run | What happens |
|---|---|
| `password_reset` | a password form waiting for its hash overwrites the administrator's reset |
| `index_gap` | a second worker boots while the first serves: between dropping a trigger and creating it again, a write is not indexed, for good |
| `late_refresh` | a refused request signs the user out while an earlier answer of `/me` is on its way; the late answer shows the user again |

**Bounds.** In Store, Estimate and Accounts ids, codes and epochs are capped by `MaxSupplierId`,
`MaxProductId`, `MaxShareId`, `MaxUserId`, `MaxCode`, `MaxEpoch`. They act where a request is
accepted (`RoomFor`): a request begins only when there are ids left for it and for every handler in
flight, so no handler is ever stopped half-way, and refusing a request only shortens
behaviours. Two or three ids of a kind (one product for two workers, whose hazards are
about suppliers and shares) let a row be inserted, deleted and inserted again while
another worker remembers the first; quotas and share limits of 1 make the limit reachable with
them. Two epochs are a change overtaking a change; three codes are the one replaced, the one
replacing it, and one for another account. `MaxAmount` keeps the product form's quantities finite.
`estimate` edits a product to 2.0001 pieces, which is no binary fraction, with prices of 3 and 4 rials
and budgets of 4, 5 and 10: ties, rests below and above the tolerance and pages that fit are all met.
Two workers, or two requests in flight, suffice for the hazards listed, which are all between two
actors; the theorems remove this bound where there is one. Names are three spellings of one name,
so that every pair of foldings differs on some pair.

The other runs are bounded by budgets in their state, which only end behaviours early: `crashes`,
`starts` and `writes` of a scenario (two processes, one product, two names: a crash during the
rebuild and another during the next, with a write after each, is the shortest history in which a
half-filled index could be taken for a whole one); `others` of the importer (one other request
between any two steps of two imports, chunks of two in files of four and five rows, so that a file
has a chunk before and one after the request, and one is too long); `left` of the client (two
clicks and a lost, cut or hanging answer on each page, so that two answers cross or one fails
between two). In `worker` the window is one tick long, so that three windows meet, at most two
mails and two calls are in flight, limits are one and two, the cap on buckets is one and the cache
holds one entry: each limit is reached by two of what it limits. What grows without a limit in the
code is finite there because a mail is queued once, attempts are three, and `recent` forgets what
is older than a window.

**Deadlock** is checked in the runs of Store, Estimate, Accounts and Worker, where a handler
always has a next step and an idle worker accepts a request. `importer`, `client` and `processes`
(with `index_gap`, `late_refresh`) switch it off: there the budgets may be spent, every import
answered, every process ended and every request over.

**Symmetry** is used over workers in `two_workers` and `estimate_moves` and over slots of one
worker in `accounts`; nothing tells them apart, and none of these runs checks liveness.

**Fairness.** The runs of handlers assume none and check no liveness: handlers run through finitely
many labels and wait for nothing but the thread pool. Elsewhere:

* `processes`: a process that can go on does (`WF` of its own steps and its end), parents hear of
  exits and timers of the primary and of the health question fire. `SF` of `Patience`: the deadline
  of a wait for the lock is compared at every turn of its loop, and turns alternate with finding
  the lock gone and losing it again. Nobody is obliged to send requests, crash, open or quit.
* `worker`: promises and timers of node always come (`WF` of the job's steps and its deadline, of a
  call's timer, of the pictures'); a body that stalls is ended by the timer of node's own HTTP
  client (`BodyEnds`). The mail server and the gateway need not answer, sweeps and clocks need not
  run.
* `importer`: the timer of the parsing thread, and the continuation of a handler that has yielded.
  No obligation that the thread answers, or that others send requests.
* `client`: every request ends (`Net`: the browser's timer of `api.js`, or the network) and timers
  fire. There is **no** obligation that the body follows the headers: `api.js` clears its timer
  at the headers, and `BusyEnds` names this one exception.

**Refinement.** `Queue == INSTANCE MailQueue WITH line <- Line, outcome <- report`: the jobs not
ended, running one first, are the line; attempts, deadlines and late answers are stutters. Run
`worker` checks `QueuePromise == Queue!QueueSpec`, with its liveness, of the whole worker.

**What PagesAgree exempts.** A page at rest (nothing of it under way, no timer) shows what the
server has, unless it is *crossed*: a request whose answer is shown was under way together with
another such request or with a change (or with requests of the page before); an answer was lost
after the server had done its work and the handler does not load after an error; a load failed; the
page threw; a
confirmation outlived its page; or a price was cleared under a filter. In these places the code makes
no attempt, and the model sets `crossed` where they happen; what is left is each handler's promise
on its own. A page that shows an answer cut short, as no suppliers or a counter of zero, is not at
rest either: what is said of it is that, asked again, it is right. The counter of the menu is compared
on the start page and the purchases, whose loads set it; the supplier's page counts at the click, and
a refusal does not count back (`SupplierDetail.jsx:78`). Of the administrator's list the number of
changes is compared and not the term: `removeUser` and `saveUser` load it for the empty term
(`Admin.jsx:69`).

**What the runs reach.** Distinct states: `client` 114 792, `importer` 309 110, `estimate` 997 560,
`estimate_moves` 451 771, `accounts` 1 175 906.

## 4. Proofs

A theorem holds for every value of the constants that satisfies the assumptions of its module. They
are the types of the constants, and besides: names equal under `lower()` are equal under
`normalizeName()` (`FoldingAssumption`); what quick-add is given for a supplier is also a name
(`DigitsAssumption`: it has one field, and digits may be either); no code is out at the start
(`CodesAssumption`); finitely many processes (`LifeAssumption`); a key of a rate limit has one limit
whoever checks it, and a route asks two different ones at most (`RateAssumption`: keys begin with
their purpose). TLC evaluates all of them on the instances of section 3. Where a theorem assumes
`OneWorker` it is about `npm start`; section 7 says what several workers do.

`ServerProofs` proves of `Server`, for any users, workers, requests, names and quotas:

| Theorem | Statement |
|---|---|
| `Invariance` | `Spec => []IInv`, `IInv == TypeOK /\ ReferencesOK /\ OwnerConsistent /\ MemoryOK` |
| `TypeCorrect`, `ReferencesHold`, `OwnersConsistent`, `MemoryHolds` | the parts |
| `SupplierIdentityHolds` | `Spec => SupplierIdentity` |
| `OwnSharesOnly` | `Spec => OnlyOwnShares` |

`OwnerConsistent` is not inductive: a handler inserts a product with an owner read earlier. What
carries it is `MemoryOK`: the remembered supplier is below the counter, and if its row still exists
it has the remembered owner. That survives other workers' steps since no step changes a supplier's
owner or reuses an id (`KeepsOwner`, proved of every step), and `MemorySurvives` is the one lemma
that says so. `ReferencesOK` needs no memory: foreign keys are enforced at the statement, so each
write has its own guard. There is one lemma per action, or per group of actions that differ in one
label; `JobStep`, `SupplierJobStep` and `OtherJobStep` reduce each to the job it writes.
`OwnSharesOnly` needs one fact more (`SharesKnown`): the share a handler remembers is of its user,
and if the row still exists it is the same share, since ids are not used again.

The second half of `ServerProofs` is about one worker (`OneWorker`), for any users and constants:

| Theorem | Statement |
|---|---|
| `HandlersStayRight` | `Spec => []HandlersOK` |
| `NamesAndSharesStay` | `Spec => []NamesAndSharesHeld` |
| `QuotaStays` | `Spec => QuotaHeld` |
| `AccessStays` | `Spec => AccessRespected` |

No key of a table enforces any of these; a handler checks, in one statement, and acts in another.
`HandlersOK` says for each label what the earlier statements have found out and that it is still so:
the handler is on the path of its operation (`OnPath`), the caller may use the owner's rows
(`MayUse`), there is room within the quota (`HasRoom`), no other supplier has the name under either
folding (`IsFree`). A reading step extends it while the tables stand still (`ReadHeld`), a writing
step mostly answers, after which nothing has to be known (`AnswerHeld`). The clock is not the
worker's and may end a licence between two statements; it changes no count and makes no account
licensed.

`EstimateProofs` proves of `Estimate`, for any workers (the last: one worker), users, products and
amounts:

| Theorem | Statement |
|---|---|
| `PageInvariance`, `PageTypeCorrect` | `Spec => []Inv`, `Spec => []TypeOK` |
| `NothingOverdrawn` | `Spec => []NoOverdraft` |
| `MovesConserve` | `ASSUME MovesOnly PROVE Spec => QuantityConserved` |
| `TrimsFit` | `ASSUME OneWorker, TwoDecimals PROVE Spec => TrimFits` |

A handler writes whole amounts computed from an old row. Conservation holds nevertheless, because
what is remembered of a row, though old, adds up to the same as the row itself (`GoodMemory`); a
write of it cannot change the sum. `MovesOnly` says that nobody types a new quantity, which a move
may overwrite, and `TwoDecimals`, that amounts have at most two decimals: three are too many
(section 7).

A trim ends with the page within the budget, or above it by a rest below the tolerance
(`AlmostFits`), and took no more than it must: with one piece of the last product back the page could
be over the budget again. "Could" is the float at a tie: where the sum is no binary fraction, a page
worth just its budget may seem to be above it, and loses a piece. The loop's invariant, `TrimInv`,
says of a trim of the only worker: the list and the budget it remembers are those of now; the rows
behind it cost nothing unless the page almost fits (so a loop that ends without fitting would end on a
page that costs nothing); and with the last piece back, the page could be over the budget. With two
decimals what a round sends is what it meant to send (`SendsExactly`). Whatever the comparison and the
division answer, the pieces taken are not one too many and leave at most a negligible rest
(`PiecesFacts`).

The rest is about `Total`, a sum over the page's rows that the community modules define by a
recursive function on their subsets. The lemmas that open it are proved here: the function exists
(`SumExists`), its value depends on the rows' prices alone (`OneSum`), any row can be taken out
first (`SumWithout`), so a change of one row changes the total by the difference of its prices
(`ChangeTotal`). Each is an induction over sets of rows, done by hand: among the sets that would
refute it one is smallest (`Smallest`, from `WFMin`), and its pick refutes it.

`AccountsProofs` proves of `Accounts`, for any workers, users and requests in flight:

| Theorem | Statement |
|---|---|
| `AccountsInvariance`, `AccountsTypeCorrect` | `Spec => []Inv`, `Spec => []TypeOK` |
| `PasswordsRaiseEpoch` | `Spec => [][Grows]_vars`: no step changes a password without its epoch |
| `SessionsStayFresh` | `ASSUME OneWorker PROVE Spec => []SessionsFresh` |
| `AddressesProven` | `ASSUME OneWorker PROVE Spec => EmailProven` |
| `VerifiedStays` | `ASSUME OneWorker PROVE Spec => StaysVerified` |

Signing in holds a row over an await, during which anything may happen to the table. `Grows` is
what makes that harmless: the row held has the epoch of now only if it has the password of now
(`Knows`), so the token made from it is either right or already worth nothing. Administrators'
resets and user forms do not disturb it. `SessionsFresh` speaks of tokens given for a password that was sent
(`knew` is what the client sent); a code from a mail asks for none, so its token says nothing of what
its holder knows, and like every other it ends when the password changes (`PasswordsRaiseEpoch`).
The password form is different: it does not use the
epoch it wrote but reads it again. The conjunct `Settled` says that the password stored then is
its own, and only this conjunct needs `OneWorker`: between the UPDATE and the reading nothing
awaits, so no other slot of the worker can come in between (`OthersAwait`).

`AddressInv` carries the last two. `RowsUnmoved`: between reading a row and writing it back, where
nothing awaits, the row does not change its address or its flag, and a code that was compared was
mailed to the address stored. `CodesMailed`: a code stored was mailed to the address stored, but for
the moment in which a handler has changed the address and not yet drawn the next code (`Changing`).
The proof of `AddressesProven` corrected the property: signing in verifies an account with a
reserved name *as it was read*, before the await, and an administrator may rename the account
meanwhile.

`LifecycleProofs` proves of `Lifecycle`, for any processes, scenarios, products and names:

| Theorem | Statement |
|---|---|
| `TypesStay` | `Spec => []TypeOK` |
| `OneBuilder` | `Spec => []BuildersAlone` |
| `BootsSurvive` | `Spec => BootSurvives` |
| `IndexStaysComplete` | `Spec => []IndexComplete` |

As long as nobody took or removed a lock he did not hold (`~disturbed`), the file is there while
somebody is inside the schema (`HeldInside`), at most one is (`Inside`), and who is about to add
the column finds it missing (`ColumnAwaited`): so no process dies of a column added twice or of a
second first administrator. The condition cannot be dropped: breaking a lock that looks old, giving
up after a minute, and the exit hook that removes the file whoever wrote it, all let two in.

`IndexStaysComplete` is about a cluster of one worker, which may die at any statement of the script
and be replaced. `IndexInv` says that the version in the file is the present one only over a whole
index (`Whole`), and what the process in the script knows before each of its statements
(`Progress`): which of table, rows and triggers the statements behind it have made. A death leaves
the first part, and the next process starts from it alone. Writes come only while the worker serves,
where all three triggers exist.

`WorkerProofs` proves of `Worker`, for any mails, keys, routes, limits, queries and requests:

| Theorem | Statement |
|---|---|
| `TypesHold` | `Spec => []TypeOK` |
| `QueueKept`, `WorkerQueueKept` | the mailer, and the worker, implement `Queue!QueueSafety` |
| `OneAtATime` | `Spec => []OneConnection` |
| `ReportsHold` | `Spec => []ReportsTrue` |
| `LimitsHold` | `Spec => []RateHeld` |
| `GuessesHold` | `Spec => []GuessesBounded` |
| `CacheHolds` | `Spec => []CacheHeld` |

The invariant `WorkerInv` is a conjunction of one part for each structure in the worker's memory, and
the steps of the others leave a part alone.

* `MailInv`: the job is a queued mail's (`JobOK`), a mail waits once and has not ended
  (`WaitsOnce`), the sends are finitely many (`SendsOK`), without an overrun the one send is the one
  the job races (`Lone`), and copies accepted and pending are accounted for by the result and the
  attempts that ended in doubt (`Accounted`). `MailCounts` bounds the attempts.
* `RateInv`: what was let through in the present window of a key is in its bucket, what was let
  through before it, in the same stretch, is at most one limit. So a stretch as long as a window,
  which touches two windows, has let through at most two limits. An eviction forgets a count, and
  the property says so (`evicted`). A sign-in in flight has looked and not yet counted: for the key of
  a name all of this holds with those in flight on top (`NameKeyOK`).
* `AiInv`: the cache is a Map (`IsMap`: `older` orders its keys) of at most its maximum. That dropping
  the stale and then the oldest makes room for one more is a lemma on the sizes of Maps: the first
  `n` keys of an iteration are `n`.

`ImporterProofs` proves of `Importer`, for any files, chunks and quotas and any number of imports:

| Theorem | Statement |
|---|---|
| `TypeStays` | `Spec => []TypeOK` |
| `RowsStayAccounted` | `Spec => []RowsAccounted` |
| `HomesStayOne` | `Spec => []OneHome` |
| `QuotaStaysByOthers` | `Spec => []QuotaByOthers` |

Between its chunks an import is *settled* (`Settled`): its rows in the table, those deleted
or moved away since, and its errors are the rows it has read; each of its products that no form has
moved is of the supplier its map has for the name (`Homes`), though that supplier may have been
renamed; and the user's products are no more than those counted at the upload, those added, and those
that came otherwise. In a chunk it is *halfway* (`Halfway`): the same up
to the rows done. The open transaction holds what a rollback goes back to, and that is settled
(`OpenOK`), so a chunk that throws ends where the last one did. Proving this found a step the model
should not have had: an upload could count products in the middle of another's transaction, rows
that a rollback then takes away. The two readings now wait for the commit, as they do in the code.

`ClientProofs` proves of `Client`, for any users, products, terms, bounds and requests under way:

| Theorem | Statement |
|---|---|
| `Invariance`, `TypesHold` | `Spec => []Inv`, `Spec => []TypeOK` |
| `SenderShown` | `Spec => ShownIsSender` |
| `PagesHold` | `Spec => []PagesAgree` |
| `SearchHolds` | `Spec => []SearchShowsTerm` |

`PagesAgree` speaks of a page at rest, and says nothing while a request is out; the invariant has to.
Its part `PagesOK` says of a page on which no two answers crossed that requests take turns
(`TurnsOK`: nothing else that changes or fills the page is under way with a load, and a load's answer
is the server's state of now) and that what is shown is what the server has (`Matches`), unless a
request under way excuses it (`Excuses`): a load that will replace it, a change the server has made
and the page will hear of, a row shown ahead of the server. The list of purchases is held to more: a
product taken out of it at the click is hidden (`Hides`) by that very request until the server has
archived it, so the others of the list are right at every moment and the counter with them. At rest
nothing is excused. A page that shows an answer without its fields, or the boundary's card, has no data
to compare; `TypeOK` says that only the pages that draw such an answer as none ever hold one.

That an answer still heard is of the page that is there is `HeardOK`; that the routes of `App.jsx`
show the sign-in page or a page exactly when the user and the boot flag say so is `Mounted`, which
does not hold in the middle of a stretch and is re-established by rendering (`RenderedOK`). A stretch
between two awaits is a chain of functions from tab to tab: each has a lemma on what it keeps mounted
(`Keeps`), that it keeps pages right (`PagesToo`) and that it parts no user from the tokens (`Calm`),
and a stretch is put together from these (`Finish`). `HandlerTable` says once, of the table of the
buttons' handlers, what all of this relies on: that each change is followed by a load or answered
with the page, and that what is shown before the answer is loaded again when the answer is an error.

The first attempt at `SenderShown` failed for a good reason. The property had been stated of the
user shown and the tokens alone; with one more request than the run allows, the late answer to a
change of password puts back an earlier user's token while a refresh of the present one is out, and
what the refresh brings then is the wrong user at a step that is no longer the late answer. `Agree`
now speaks of that refresh too (`Asked`), and the exception is exactly the step at which they part.

`LicensingProofs` proves of the operators of `Licensing`, for any names, secrets and durations
(`WellFormed`: lower case is idempotent, and an activation id is not in lower case), since there is
no state to run:

| Theorem | Statement |
|---|---|
| `NamedKeysWork` | a key issued to a user under his name is accepted, for the days announced |
| `MasterKeysWork` | so is a key for everybody, also after the secret has been changed |
| `IdKeysRefused` | a key issued for a user's activation id is refused to him |
| `EarlierKeysRefused` | a key issued to a user under an earlier secret is refused, though the secret is trusted |
| `EnterpriseRefused` | a key for everybody in the tier ENTERPRISE is refused |

The last three contradict what the program says of itself (section 7). All five rest on one fact
about reading: `ReadBack`, the period in a key is read as the one it was made for, which fails for
the duration `D0` alone.

## 5. Only model-checked, and out of the prover's reach

Every safety property of the passing runs is proved. The quota, name, share, access and address
properties and the trim's hold with one worker and not with several (section 7); `TrimFits` also
needs amounts of two decimals. `IndexComplete` is about one worker; `index_gap` shows why.

Liveness and ENABLED are outside of what TLAPS proves: `ClusterRecovers`, `StopEnds`, `AllAnswered`,
`ImportsEnd`, `BusyEnds` and the liveness of `QueuePromise` stay with TLC. The library's theorems of
induction take an operator as a parameter, which the provers cannot instantiate. Where a proof needs
induction it takes a smallest counterexample instead, from `NatLessThanWellFounded` and `WFMin`,
which need none: `Least` in ImporterProofs for numbers, `Smallest` in EstimateProofs for sets of
rows. No module declares a RECURSIVE operator, which would take the SMT backend from every module
above it; sums are folds.

## 6. Plan

What could come next, in this order:

1. The API-key and profile handlers of `routes/account.js`, in Accounts; a run of Accounts with
   two workers.
2. Refinements: an abstract catalogue whose requests are atomic, implemented by `Server` with one
   worker (`HandlersOK` says what it needs); an abstract session table implemented by `Accounts`.
3. The desktop shell's remote mode.

## 7. Not modelled, and what no property says

Not modelled: spreadsheet parsing, serialization, dates,
formatting, e-mail templates, styles (no state of their own); maintenance scripts, the migration
from the Python version, load tests (run by hand or not part of the program); the service worker
and the Android page (static files). Of an import's neighbours the deletion of the user himself is left
out; of the start page the product window, which nothing opens (`Dashboard.jsx:311`).

**Divergences met while reading or modelling, not kept as runs.**

* With several workers two requests count before either inserts: a trial account gets a supplier
  more than its quota (`app.js:142`), a name twice (`app.js:153`), a collaborator too many
  (`account.js:243`). Nothing promises these across workers; `one_worker` shows them for one.
* Editing a product moves it to an owner whose quota is full, which adding refuses; quick-add asks
  the column `is_licensed`, which expiry leaves set, and goes on adding.
* An amount with three decimals is stored as `0.125` and read back as 125, as `parseAmount` takes
  the point for a separator of thousands (`lib/utils.js:26`).
* Clearing a price and sending an invalid field with it ends the handler before the link that
  belonged to the price is cleared.
* After a deadline the mailer has two connections open (`mailer.js`, the comment above
  `queueEmail` speaks of one); `OneConnection` states the exception.
* A licence key issued for an activation id is refused (`IdKeysRefused`): it is signed over the id in
  lower case (`licensing.js:140`) and compared with the id in upper case (`:163`, `:186`). The page of
  the licence shows the id as needed when buying (`License.jsx:203`), and the administrator's form
  asks for «نام کاربری یا شناسه فعال‌سازی مشتری» (user name or activation id, `admin.js:319`).
* A personal key issued under an old secret is refused after the secret changes
  (`EarlierKeysRefused`): `verifyKey` computes the activation id, which is part of the signed text,
  with the new secret (`licensing.js:111`, `:173`), while `licensing.js:8` and `.env.example:14` say that
  keys issued before can still be verified. Keys for everybody survive.
* The form offers ENTERPRISE for keys for everybody (`Admin.jsx:429`), which verifying never tries
  (`EnterpriseRefused`); and the duration `D0` is announced as no days and issued without end.

**Hazards without a property**, since no line of the repository says what should happen.

* Statements without a transaction: revoking a licence is two statements; the user form writes name
  and profile before it refuses a password; a share ended while a request that has read it goes on;
  of two sign-ups with one name the second meets the UNIQUE key.
* The product form writes the quantity as typed over a move in between; with several workers a trim
  computes on rows another reprices.
* Each worker counts attempts and keeps a queue of its own: limits are per worker, and mails not
  sent are lost on a stop. Two API keys drawn at once: the first client is shown one that does not
  work.
* The desktop shell gives up after sixty questions, whether or not the server is about to listen.
* The chat gives each model thirty seconds, and the browser gives up on the whole before the last.
* Where a supplier is there in two spellings, an import goes to the one read last: `new Map` keeps the
  last of equal keys (`importer.js:69`).
* A page worth just its budget may lose a piece to a trim: 1.1 pieces at 110000 sum to
  121000.00000000001 (`app.js:653`, `:669`); and a page may stay above its budget by less than a
  1e-9th of a piece. Nothing says what happens at a tie; `TrimFits` names both.
* Moving a product onto another supplier in the middle of an import parts the products of one name,
  and moving one in from another owner passes the trial's quota (`app.js:346`); `OneHome` and
  `QuotaByOthers` say so.
* In the client: the late answer to a password form brings back its token (`api.js:142`,
  exempted in `ShownIsSender`); a lost refresh shows the sign-in page to somebody signed in
  (`AppContext.jsx:60`); a lost check deletes a good token (`AuthPage.jsx:79`); a lost sign-out
  leaves the cookie (`Layout.jsx:92`); a term made too short during a search leaves the skeleton until the next search
  ends, as nobody lowers the flag (`SearchPage.jsx:33-36`; `BusyEnds` is about terms long enough to
  search for); a page whose first load failed keeps its skeleton until it is opened again; a load that
  is cut short shows no suppliers, or counts zero (`Suppliers.jsx:25`, `Dashboard.jsx:28`), and other
  pages throw; a refusal on the supplier's page leaves the menu's counter as it was counted at the click
  (`SupplierDetail.jsx:78`, `:106`); deleting or saving a user shows the list for the empty term
  (`Admin.jsx:69`); the account page has one busy flag for all its forms; two tabs
  share a token but not the user shown.
