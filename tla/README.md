# A TLA+ model of kushfinds-backend

The repository is the HTTP backend of a marketplace: accounts with e-mail
verification, refresh-token sessions, user and business profiles, brands,
stores and file uploads, over PostgreSQL (pgx, a connection pool) and MinIO.
This directory holds TLA+ modules of its core, the TLC runs that check them on
small instances, and TLAPS proofs of what matters most for any number of users,
requests and connections. Source paths below are relative to the repository.

## How the program runs

Every HTTP request is a goroutine (`net/http`). A handler decodes and validates
the body, calls a service, the service calls repositories, and each repository
method is one or a few SQL statements. There is no shared memory between
requests: they meet only in the database, in the pool and in MinIO. So a step of
the models is one SQL statement (or one call to the pool, or one commit), and
concurrency is the interleaving of those steps.

* `pkg/transactor/postgresql`: `WithinTransaction` puts a transaction in the
  context; `GetExecutor` takes it from there. Repository methods that use
  `GetExecutor` run on the transaction, those that use `r.client` run on the
  pool, also when they are called inside `WithinTransaction`.
* PostgreSQL runs at its default, READ COMMITTED: a statement sees what was
  committed when it began, waits for the row locks of open transactions, and
  looks at the row again when the lock is gone. Cycles of row waits are ended by
  the deadlock detector, which aborts one of the transactions.
* The server can die at any point; open transactions are rolled back then. On
  SIGTERM it waits at most five seconds (`cmd/kushfinds/main.go:47`) and does not
  wait for the goroutines that send mail.

## Inventory

| Component | State | Operations | What is hard | What makes it correct |
|---|---|---|---|---|
| Sessions (`internal/auth/service`, `auth/db`) | table `sessions`, unique on (user_agent, user_id); the cookie of each client | Login, RegisterVerify, Refresh, Logout | two requests with one token; a refresh that hits the row of another user agent; deadlocks; a commit whose answer is lost; crashes | a token is exchanged at most once, never lost by a failed refresh, never back once gone; a logout is final |
| Connection pool and transactions (`pkg/client`, `pkg/transactor`, pgxpool) | connections, row locks | BEGIN, statement, COMMIT, ROLLBACK, statement on the pool | statements on the pool inside a transaction take a second connection | nothing leaks; requests wait for each other for good only when each connection is with another contender |
| Accounts (`internal/auth/service`, `internal/code`, `internal/user`) | tables `users`, `codes`; mailboxes | RegisterEmail, VerifyResend, RegisterVerify, SaveProfileInfo, SavePassword, Login | checks and writes in separate statements, no unique index on e-mail or username, mail sent after the answer, codes that age and are replaced | sessions only for verified users; verification only by the owner of the address; one user per e-mail and username |
| User profile (`internal/user`) | columns of `users` | GetByID, UpdateProfile, SaveProfileInfo | existence checks, the write and the read of the answer are separate statements; a write can outlive its handler | no link dangles; an answer shows the own write and never goes back |
| Business profile (`internal/user`) | table `business_profiles` | GetUserBusinessProfile, UpdateBusinessProfile, AdminUpdateBusinessProfile, CheckBusinessProfileExists | an edit resets the verification while an administrator verifies; she may lose her rights meanwhile; reference rows may go, which sets links to NULL | what is verified is what an administrator sent to be verified; its place is a chain of region, state and country |
| Brands (`internal/market/brand`) | `brands` and four child tables | CreateBrand, UpdateBrand, DeleteBrand, GetUserBrand(s) | name check before write; lists replaced by delete and insert; reads in five statements; publishing checks a verification that can be lost | a brand and its lists come from one request; a name is only shared by requests that overlapped |
| Stores (`internal/market/store`) | `stores` and two child tables | CreateStore, GetUserStore(s) | brand deleted meanwhile; conditional insert of the lists | what was sent is stored |
| Uploads (`internal/upload`) | a MinIO bucket | UploadFile, GetFile | bucket created on demand; key is the clock; swallowed error | a name given to a client is the file it sent |
| Reference data (countries, states, regions, industries, sections, socials) | tables no handler writes | the lists a client picks from, lookups of a row, `CheckLocationExists`, `Check...Exist` | counting with duplicates; a row that goes between check and write | accepts exactly the lists whose every id exists; what is picked from the lists is accepted |
| Access tokens and middleware, error mapping, password hashing, mail client, wiring, configuration, logging, migrator, API docs, tests, mocks | none, or fixed at start | | | |

They interact by calls from the services down to the repositories and by shared
tables: sessions are created by accounts (Login, RegisterVerify), accounts and
user profiles write columns of one row, brands and stores ask the business profile whether publishing is allowed, stores hang on
brands by a foreign key, everything shares the pool.

The hazards of this code, each at its line and with the property that would
catch it, are listed in `PROJECT.json`.

## Modules

| Module | Models | Proofs |
|---|---|---|
| `SessionStore` | abstract: what the `sessions` table promises (Issue, Rotate, Revoke as single steps) | |
| `Sessions` | the four session operations, statement by statement, with row locks, deadlocks, expiry, failures and crashes; implements `SessionStore` | `Sessions_proofs` |
| `ConnPool` | the pool and the row locks under the scripts of all handlers | `ConnPool_proofs` |
| `AccountStore` | abstract: what an account may become, a code at a time (Open, Renew, Arrive, Verify, SetName, SetPassword) | |
| `Registration` | the six account operations over `users` and `codes`, with mails and ageing codes; implements `AccountStore` | `Registration_proofs` |
| `Profiles` | reading and writing user and business profiles, with the reference rows they point to, administrators and late writes | `Profiles_proofs` |
| `BrandStore` | abstract: brands as single things, written by one request each (Create, Replace, Delete) | |
| `Brands` | the brand operations statement by statement over a table and its child tables, with row locks, failures and the verification of business profiles; implements `BrandStore` | `Brands_proofs` |
| `MarketStore` | abstract, extends `BrandStore`: stores as single things that are opened once on a brand and go with it (CreateBrand, UpdateBrand, DeleteBrand, CreateShop) | |
| `Stores` | extends `Brands`: creating and reading stores, with the foreign key to the brand, its key-share lock and the cascading delete; implements `MarketStore` | `Stores_proofs` |
| `Lookups` | how a list of references loses its duplicates and is checked by a COUNT | `Lookups_proofs` |
| `Uploads` | uploads and downloads over the object storage, with names taken from the clock | `Uploads_proofs` |
| `MC...` | small instances of the above for TLC | |

Operators whose names begin with `Bug` are not part of the system. Each is what
a plausible mistake would make of the operator after it (the row lock is not
respected, an error does not roll back, a SELECT loses a condition, ...); it is
there to show that a property notices that mistake.

### Sessions

State: `row` is the committed table (key = user and user agent, since the index
is unique on them; the UPSERT therefore replaces), `lock` the rows written by an
open transaction, `work` what that transaction has done so far. A transaction's
writes become visible at `Commit`. `known` are the tokens clients hold, and
`born` and `removedBy` record the history the properties speak of.

| Action | Code |
|---|---|
| `StartIssue` | Login or RegisterVerify has passed its checks (those are module `Registration`) and calls `generateTokens` |
| `StartDelete` | `refreshHandler` or `logoutHandler` with a cookie a client was given; expiry is decided here because `NOW()` in PostgreSQL is the start of the transaction |
| `DeleteMiss`, `DeleteInTx`, `DeleteNow` | `DeleteNotExpirySessionByToken`: no row; in Refresh's transaction; in Logout's autocommit |
| `Load` | `GetByID` answered, `generateTokens` made the successor |
| `UpsertInTx`, `UpsertNow` | `CreateSession` in a transaction (Refresh, RegisterVerify), in autocommit (Login) |
| `Commit`, `Fail` | the two ends of `WithinTransaction` |
| `Answer` | the handler sets the cookie, or the client never learns the token |
| `DeadlockAbort`, `Expire`, `Crash` | PostgreSQL's detector, time, the process |

A refresh may present any user agent, so its DELETE and its UPSERT may be about
different rows: two of them can lock in opposite order.

### ConnPool

Each handler is a script: `Pool` (a statement on the pool: it takes a connection
and gives it back), `Begin`, `Exec` (a statement on the transaction's
connection), `Commit`. Three handlers run a pool statement inside their
transaction: RegisterEmail (`CheckRecentlyCodeExists`), RegisterVerify (`Verify`
reads the user back) and Refresh (`GetByID`). The market's transactions
(`CreateBrand`, `UpdateBrand`, `CreateStore`) run theirs before the BEGIN and after
the COMMIT. All other handlers (`OneByOne`: VerifyResend, the business profile, every
GET) take one connection at a time. Statements that follow each other in the same way
and need no contended row count as one.

Statements name the rows they need or lock: a user, her session, her brand, and for a
brand's key one row per request, since inserts of stores share the key and only the
DELETE of the brand needs it alone. Rows that no transaction locks (codes, business
profiles) are left out. A handler that stops early, by a business error, a failing
statement or a cancelled context, is `Fail`. RegisterVerify of a user who is already
verified leaves out two steps of its script; it then waits for less.

What it shows is worth knowing. Call a contender a request that is in a transaction, or
at a statement that needs a row: while there are fewer contenders than connections, the
pool never stalls, however many other requests there are. With as many, it can (`Exhausted`): several refreshes with one
cookie, say, where the first holds the row and one connection and waits for a
connection for `GetByID`, and all others hold a connection each and wait for the
row. PostgreSQL sees no cycle, since one of the waits is inside the process; only
a cancelled context (the client leaves) ends it. `pkg/client/postgresql` uses
pgxpool's default size. `NoStall` says that this is the only way to stall: no connection is
left, nobody has two, somebody waits for a second one within a transaction, and there
are as many contenders as connections. `Served` says that requests that nobody
cancels are all served or end up just there.

### Registration

`users` and `codes` are the tables; a request first looks up (`...Lookup`), then
may check (`...Check`), then writes (`Register`, `Resend`, `Verify`,
`SaveProfileInfo`, `SavePassword`, `Login`), each in a step of its own, so every
check can be stale when the write happens. What it read is in `req`. Writes that
the code makes in one transaction are one step: nothing else can see between
their statements, and module `Sessions` has the finer steps where they matter.
`SendMail` is the goroutine started after the commit; the mail may be lost, and
arrives whenever it likes. A code is a value of its own per request (six random
digits in the code: that two are equal by chance is left out), and ages from
recent (no resend) to live to expired. `GetByEmail` may return any row with the
address, which matters once there are two.

The runs start from every kind of account the program can have left behind.

What all this comes to is `AccountStore`: a code belongs to one account and reaches only
its address, one that arrived there verifies the account and opens its first session, a
username and a password come after that, and nothing is ever taken back. It does not
say that addresses or usernames are unique, nor that a username stays: two requests of
one user that overlap both write one (`OverlapOnly`).

### Profiles

State: `refs` are the rows of `countries`, `states` and `regions`, with the constant
`Above` as `country_id` and `state_id`; `users` has of each user whether the username
is set, and the three links; `business` the row of `business_profiles`, with the links,
`is_verified` and the request whose data it holds; `admins` the users with `is_admin`.
`taken` of a row (the requests that wrote it), `answer` (the `taken` of the row a
request answers with), `before` and `entitled` are history.

| Action | Code |
|---|---|
| `GetByID`, `UpdateProfile`, `SaveProfileInfo`, `GetUserBusinessProfile`, `UpdateBusinessProfile`, `AdminUpdateBusinessProfile` | the handlers, past token, decoding and validation; `UpdateProfile` refuses a region without a state, a state without a country (`Nested`) |
| `CheckCountry`, `CheckState`, `CheckRegion` | `UpdateProfile`'s lookups, one SELECT for each link, not of the chain |
| `IsAdmin`, `CheckBusinessProfileExists` | the first two checks of the administrator's variant |
| `CheckIndustry`, `CheckLocationExists` | `validateBusinessProfileData`: the industry is any or missing, the place is a join of the three tables |
| `Look` | the two SELECTs of `SaveProfileInfo`; whose the name is already is module `Registration` |
| `WriteUser`, `Upsert` | the UPDATE and the INSERT ... ON CONFLICT, whole rows or columns at once; `KeyLost` when a foreign key has lost its row |
| `ReadUser`, `ReadProfile` | the SELECT of the answer; a profile with a NULL link does not scan and ends in an internal error |
| `Fail`, `Drop` | an error, a client who leaves, a server that stops: a statement sent before may be over, never run, or run later, with nobody there to read it (`"lost"`) |
| `Browse`, `PickCountry`, `PickState`, `PickRegion` | a client fills in a form from the three lists |
| `DeleteRef`, `SetAdmin` | the operator, in SQL, no code of the repository: deleting a place cascades to what is below it, is refused while a user links to it and sets a business's link to NULL |

`VerifiedData` is what the flag is worth. The owner may edit at any time, the
administrator verifies what her form showed her, and either may be late: still,
whatever a verified row holds was in the body of a request that verified it, and whose
caller was an administrator at some moment since it began. It is not said that the
owner's last edit survives; an administrator's upsert writes over it. `LinksFit` says
which places can end up in the tables, `AnswersForward` that answers read in a
statement of their own are still fresh: of the own write, and of all that earlier
answers showed.

### Brands

State: `rows` is the table `brands`, `lists` its child tables (states,
sub-sections, documents, socials; their number is the constant `ListCount`).
What a row or a list row says is `data` of the request that wrote it, so the
tables hold the names of writers, and a brand that was there before the
requests is its own writer. A list is empty or not: `full` of the writer. `lock`
is the transaction that holds a row, `dead` the list rows an open transaction
has deleted, `got` what a `GetUserBrand` has read so far.

| Action | Code |
|---|---|
| `Create`, `Update`, `Delete`, `Get` | the handlers, past decoding and validation (`ToDomain` takes duplicates out of three of the lists) |
| `CheckBrandExists`, `CheckBusinessProfileExists`, `CheckBrandNameIsAvailable` | the checks of `validateBrandData` and `DeleteBrand`, each a statement on the pool; the ones on read-only tables can only refuse, which `Fail` does |
| `InsertRow` | BEGIN and INSERT of `CreateBrand` |
| `UpdateRow`, `ClearList` | BEGIN and UPDATE of `UpdateBrand`, which takes the row lock, then one DELETE per child table |
| `Commit` | the batches of `createBrandRelatedEntities`, which nobody sees before, and COMMIT |
| `DeleteBrand` | the DELETE, which waits for the lock and cascades |
| `ReadRow`, `ReadList` | `GetUserBrand`, one SELECT per table; also the answer of a create or an update |
| `Fail` | an error anywhere, a client who leaves, a server that stops |
| `UpdateBusinessProfile`, `AdminUpdateBusinessProfile` | the upserts of a profile: one statement each, so one step |

An answer of `GetUserBrand` is not a snapshot. `AnswerForward` says what it is: if
its parts differ in version, the later read is the newer, and the older was
overwritten or deleted in between. `PublishedAllowed` allows the one thing the
code allows: a profile that loses its verification after the check leaves the
brand published (the history `lapsed` says whose it did), and nothing unpublishes
brands when a profile is edited.

### Stores

Extends `Brands`; the composition (`MarketNext`) interleaves its requests with all
of that module. State: `stores`, `pics` and `socs` are the committed rows of
`stores`, `stores_pictures` and `stores_socials`, `place` the brand of each store,
`body` what it was sent with, `share` the open transactions that hold the key of
their brand's row.

| Action | Code |
|---|---|
| `CreateStore`, `GetUserStore` | the handlers, past decoding and validation |
| `CheckStoreProfile`, `CheckStoreBrand` | `validateStoreData`, statement by statement; its other checks are of read-only tables and can only refuse, which `FailStore` does |
| `InsertStore` | BEGIN and INSERT: the foreign key fails if the brand is gone, else the brand's key cannot go until the transaction ends |
| `CommitStore` | the batches of `createStoreRelatedEnitities`, which nobody sees before, and COMMIT. Without pictures the socials are not inserted: that is what `repository.CreateStore` does |
| `ReadStore`, `ReadPictures`, `ReadSocials` | `GetStoreByID`, one SELECT per table, then the comparison of the owner (`OwnerFits`) |
| `DeleteCascading` | `DeleteBrand` of module `Brands` with what its foreign keys do to stores |
| `EditProfile` | the two writes of a profile, with the history `lapsedStores` |
| `FailStore` | an error anywhere, a client who leaves, a server that stops |

`NoOrphan` says that the check of the brand, made four statements before the
INSERT, cannot be outrun by a delete: the foreign key sees to it. `MarketStoreSpec`
says what brands and stores come to together (`MarketStore`): a brand keeps its owner
for life, a store is opened once, with all its rows, on a brand of its owner that is
there, no update of the brand changes it, and the brand's deletion takes both in one
step. `NoOrphan` is a part of the invariant behind it. `StoreAnswers` says
how an answer of three SELECTs may differ from the store: only by lacking parts of a
store that is deleted by then.

### Lookups

One request, one list. `listed` is what was sent, `out` what is left of it, `args` the
ids the query asks for, `table` the reference table. `RemoveDuplicates` and `Gather`
are one turn each of the code's loops, `CheckExist` compares the COUNT with the
number of arguments. With a main section (`main`) this is the check of a brand's
sections; without one it is the check of states or socials, of a brand or a store.
`Kept` says what the duplicates' removal leaves (so no batch breaks a primary key),
`ExactCheck` that comparing a COUNT with a length is a test of membership, which it
is only because no id is asked for twice.

### Uploads

State: `bucket`, `objects` (the file under each name), and a wall clock that may jump
to any of its values. `UploadFile` is `BucketExists`, `MakeBucket`, `Stamp` (the name
is the millisecond before the file is sent) and `PutObject`. `PutObjectFails` is its
error, which the code drops: the answer is a success with an empty name, and the file
may be stored, not stored, or stored some time after the answer (`PutLate`). `GetFile` asks the storage twice, `Stat` for the type and `Copy`
for the bytes; the two may see different files of one name. minio-go adds the ETag that
`Stat` found as a condition to the second request, which would then fail instead, so the
model allows more there than the library does. `FilesFound` says what an answered name is worth: the file, or one of
an upload that took the same millisecond; `NamesStay` that nothing but such an upload
changes what a name serves.

## Properties and runs

| Run | Instance | Shows |
|---|---|---|
| `sessions` | 1 user, 2 user agents, 1 older token, 3 requests of any kind | `TokenAccounting`, `TokensStored` (a successor is stored before its token is used up, and a token before it is handed out), `LogoutFinal`, `NoneStuck`, `NoResurrection`, the refinement `StoreSpec` |
| `sessions_live` | 2 older tokens, 2 requests | `Answered`: every request ends |
| `conn_pool` | 3 connections, 3 requests for one user: any two handlers with a third that runs one statement, or any three with nested queries | `NothingLeaks`, `NoStall`, `Served` |
| `registration` | 1 older user, 2 addresses, 1 username, 3 requests | `SessionVerified`, `ProvenAddress`, `NoPhantomMail`, `OverlapOnly`, the refinement `AccountSpec` |
| `profiles` | 2 users, one with profiles; 2 countries, a state and a region; 4 bodies; 2 requests of any kind | `VerifiedData`, `LinksFit`, `AnswersForward` |
| `brands` | 1 older brand, 2 users, 2 child tables, 3 bodies, 2 requests of any kind | `WholeBrand`, `AnswerForward`, `NamesChecked`, `PublishedAllowed`, the refinement `BrandSpec` |
| `stores` | 1 brand, 1 older store, 1 new one, 1 user, 2 requests for the brand, 1 for a store | `StoreAnswers`, `StoresAllowed`, the refinement `MarketStoreSpec`, `AllAnswered`: requests for brands and for stores end |
| `lookups` | 3 ids, 2 URLs, every list of up to 3 entries, every table, every main section | `Kept`, `ExactCheck` |
| `uploads` | 3 uploads, 1 reader, 2 milliseconds | `FilesFound`, `OneAnswer`, `NamesStay` |
| `email_race`, `username_race`, `resend_race` | 2 requests | violations, see Findings |

Why the bounds are enough to be interesting: three requests allow a winner, a
loser that waits for its lock, and a third that finds what they left; two user
agents allow a refresh to hit a foreign row and a cycle of two; two older tokens
in `sessions_live` are what a deadlock needs. In `registration` three requests
allow a registration, a verification of it and anything that interferes, and the
older user may be at any stage of her account (450,558 states; a fourth request or a
second address of hers is beyond a run of some minutes). In `profiles` the bodies are a
place, a region of another country, a region without a country, and nothing; two
requests are an owner's edit and an administrator's, or a write and a read; the country
with the region and the region itself may be deleted, before, between and after the
checks; and the user without profiles is there to be, or not to be, an administrator.
The `VIEW` forgets the body of a request that was refused, which no step and no
property looks at. In `conn_pool` three requests with nested queries can take all three
connections and stall; two of them and a request that runs one statement may take all
three too, but are one contender short of a stall, so all must be served (the proof is
for any number of requests and connections). One user is the worst case for row locks. In `Brands` two child tables are a first and a last one,
which is all an order of deletes or reads can tell apart (the proofs are for any
number); bodies differ in name, in whether they publish and in which list is
empty, and the third has another owner. In `stores` the brand can be updated and
deleted while a store is created for it or read; one body is enough, since a store
that lacks a list has fewer ways to go wrong (the proofs are for every body). Three
entries in `lookups` make a duplicate with something before, between or after it. In
`uploads` two milliseconds make names collide and differ; three uploads allow two
that share a name and one that finds no bucket with them. `Requests`, `OldTokens`, users, addresses and
usernames are interchangeable in the specifications, hence the symmetry sets; the
runs with a liveness property use none.

Deadlock checking is off: every request is answered in the end and then nothing
happens any more, which is no fault. That requests do get there is what
`Answered`, `AllAnswered` and `Served` say.

Fairness. `Answered` of `Sessions` assumes that a goroutine whose next statement can
run does run it (`WF(Step)`) and that PostgreSQL's detector acts on a lasting cycle
(`WF(DeadlockAbort)`). `AllAnswered` assumes the former, for requests for brands and
for stores (`MarketFairness`): an operation of the market locks rows of one brand, so
there is no cycle. `Served` assumes only the former too, and allows for requests that wait
for ever in an exhausted pool. None of them assumes that an
answer succeeds, that anything fails or that anybody gives up.

## Findings

Each is a check and a write in separate statements, where an error text and an
integration test promise the check:

* `email_race`: two registrations of one address that overlap both succeed.
  `OverlapOnly` (checked and proved) says that this is the only way.
* `username_race`: two users save one username.
* `resend_race`: two resends within the minute both send a code; only the later
  one is valid.

Brand names are checked in the same way (`market/brand/service/service.go:146`):
`NamesChecked` (checked and proved) says that two brands share a name only if they
overlapped.

Also noticed: documents are the one list of a brand from which duplicates are not
removed, so a body that names a URL twice fails on the primary key and the whole
write is rolled back with an internal error. `Login` fills the token's `is_admin` claim from `IsVerified`
(`auth/service/service.go:363`); nothing reads the claim, the administrator check
asks the database. A business profile that lost its industry or a part of its place
(`ON DELETE SET NULL`) cannot be read until it is written again: `GetUserBusinessProfile`
scans the NULL into an `int` and ends in an internal error (`ReadProfile`).

## Proofs

All proofs are for arbitrary constants; the assumptions on them are the named
`ASSUME`s: `None` is none of the other values (nor a brand of `BrandStore` or a store of `MarketStore`), there is at least
one child table, bodies of requests are well formed, a generated UUID is not an older
token, new users are not older ones, the sets of connections and requests are
finite, there is a connection (pgxpool's size is at least one), `country_id` and `state_id` are never NULL. `tlapm` checks every step.

* `Sessions_proofs`. `Inv` strengthens the properties to an inductive invariant:
  an open refresh still finds its token in the row it locked (`WorkOK`), locks
  belong to open transactions that wrote the row (`LocksOK`), and a token not yet
  committed is nowhere (`HistoryOK`). The steps that change the table (`Commit`,
  `DeleteNow`, `UpsertNow`) all go through `Write`, so the accounting of tokens is
  proved once for it. From `Inv` follow `TokenAccounting`, `TokensStored`,
  `LogoutFinal`, `NoResurrection`, and the refinement: a commit of
  a refresh is `Rotate`, one of a login or a verification is `Issue`, a logout's
  DELETE is `Revoke`, all else stutters. `NobodyStuck` is about the waiting: in a set of
  requests that wait only for each other, take a smallest nonempty part in which
  everybody waits for somebody (the requests are finite, so there is one). Leave out one
  of its members: what is left has somebody who waits for nobody in it, and who therefore waited
  for the one left out. So each of them is waited for by another, which is a cycle, and
  the detector of `OnCycle` sees it.
* `ConnPool_proofs`. A request holds a transaction's connection exactly between
  the `Begin` and `Commit` of its script, and a second one only during a pool
  statement: one lemma (`ScriptFits`) says so of every script, and all else uses only
  that. `NeverStalls`: suppose that nobody can take a step. If nobody wanted a second
  connection, somebody would wait for a row: whoever waits, if a connection is idle, and
  else an owner of one. But row locks alone stop nobody, since who holds a user's row waits
  at most for a session's, who holds any other for none (`HeldAt` says which rows a
  script holds at each step). So somebody wants a second connection, and no connection is
  idle. Nobody has two, for the second would run a pool statement inside the transaction,
  which needs no row and could finish. Hence each connection belongs to another
  contender, and there are as many (pigeonhole).
* `Registration_proofs`. The key lemma is `StepGrows`: no step takes back a row,
  its address, its verification, its username or its password, nor a stored code
  or an arrived mail. So what a request read about its user still holds when it
  writes (`OthersKeep`), and `Inv` is inductive. `NothingUndone` is that lemma as an
  action property. `Refinement`: the transactions of RegisterEmail and VerifyResend are
  `Open` and `Renew`, for which a code must be new (`CodesOnce`); a mail that arrives is
  `Arrive` for a user with the address it was sent to, which rests on `NoPhantomMail`;
  RegisterVerify's transaction is `Verify`, since the code it checked is her own, stored
  and arrived, and stays so; a login stutters, since whoever is verified had a session.
  `OverlapOnly` compares what each of two requests had `seen` when it
  first looked: whatever had written by then was there to be noticed, and by the first
  lemma still is. `UniqueWhenApart` is the converse of the findings: as long as no two
  requests that clash (`Clash`: one address, one username, one user's code) are both
  past their check and before their write (`Apart`), addresses and usernames are unique
  and no code is replaced within its minute. Its invariant is that what a check found
  still holds at the write (`Window`). `Apart` is no assumption on the constants but on the
  behaviour: the code does nothing to keep them apart.
* `Profiles_proofs`. `Inv` adds to the properties what the steps behind a request say
  of it (`Checked`: a place that reached the upsert is a chain, an administrator's
  request past `IsAdmin` is entitled), which steps belong to which operation
  (`StepOK`), what a form was picked from (`PickOK`), whose writes a row has taken
  (`TakenOK`) and that a row is what its writer sent (`Sender`). A deletion of a place
  takes its whole subtree, so what is left of a chain still fits (`LinksFit`); a row's
  `taken` only grows, so an answer holds every earlier one (`AnswersForward`).
* `Brands_proofs`. `Inv` adds to the properties that a row is of the request that was
  sent for it and that who was overwritten is in no row (`RowsOK`), that a locked row
  is being updated and what its transaction has deleted is exactly what the child
  tables hold (`LocksOK`: nobody else changes them meanwhile), where a request is and
  what its checks found (`CallOK`), and that what was read is still there or
  superseded (`PartsOK`). So a commit replaces every list whole (`Rewritten` is what
  the writer leaves behind), which is `WholeBrand`; the tables are then a function of
  the rows (`StoreIs`), a commit is `Create` or `Replace` of `BrandStore`, a DELETE that
  finds the brand is `Delete`, all else stutters.

* `Stores_proofs`. `BrandsKept`: forgetting the stores, every step of the market is a
  step or a stutter of `Brands`, so the invariant proved there is at hand. `StoresInv`
  adds to the properties that an open transaction holds the key of a brand there is
  (`ShareOK`), that a request past its checks has a brand of its user or one that was
  deleted meanwhile (`OwnersOK`), that an update under way keeps the owner
  (`UpdatersOwn`), and where a request is and what it has found (`StoreCallOK`). The
  step that could orphan a store, the cascading delete, waits for `share` to be free
  of the brand and then takes all its stores. So a store's rows are those it was sent
  with or none (`MarketIs`), and the steps map to `MarketStore` (`MarketRefinement`): a commit
  of a brand's request is `CreateBrand`, or `UpdateBrand` since the row it locked has the
  same owner, a store's commit is `CreateShop`, the cascading delete is `DeleteBrand`, all
  else stutters. `WaitsAreShort`: who waits in the market waits
  for an open transaction on its brand, which can go on itself, since no transaction of
  the market locks a second row.
* `Lookups_proofs`. The two loops have the invariants `DedupOK` and `ArgsOK`, each for
  the entries before `i`; one lemma says what a turn of the loop does to the list that
  is kept. At the end `args` has no id twice, so its length is the cardinality of
  what is asked for, and a COUNT that equals it means that nothing is missing
  (`CountingIsExact`).
* `Uploads_proofs`. An upload's name is fixed before it is stored (`SenderOK`), so what
  is found under a name was stored for it; files are never removed, so what a reader's
  `Stat` found is still there, or replaced, at its `Copy`.

Each module's invariant is proved inductive together with its type invariant, and
`Types` (`StoreTypes`) states the latter. The runs check the properties an invariant is
made of, not the invariant as a whole.

Only model-checked: the liveness properties `Answered`, `AllAnswered` and `Served` (the prover
has no rules for fairness) and, naturally, the violations. What they rest on is
proved for any number of requests: somebody whom all others wait for can always go on
(`NobodyStuck`, `NeverStalls`, `WaitsAreShort`), and nobody goes on for ever (the
theorems `NobodyGoesOnForever`: a step never takes a request back, and it has only so
many statements to run). That finitely many requests therefore all end under the fairness
assumed, or in the pool's one way to stall, is the part left to TLC.

## Not modelled

Access tokens, hashing, decoding and validation of bodies, error mapping and
logging have no state that lives between requests. The clocks of the server and
of the database are taken to agree (the columns are `TIMESTAMP`s without time zone
compared with `NOW()`). A brand's country, market section and the reference
tables are left out of `Brands` and `Stores`: a missing id only refuses the request
(`Lookups` says when), and one that goes between the check and the write fails on its
foreign key. Of a business profile the name, address and phone number are not told
apart, nor is the industry beyond being there when it is checked. The SELECTs of whole
lists (`GetUserBrands`, `GetUserStores`, store types, industries, sections, socials)
show nothing a property could be about. Of an upload the size and the extension are
left out, apart from the panic on a name without a dot. The recovery and
change-password codes have no caller.

## Plan

Done: `SessionStore`, `Sessions`, `ConnPool`, `AccountStore`, `Registration`, `Profiles`, `BrandStore`,
`Brands`, `MarketStore`, `Stores`, `Lookups`, `Uploads`, with proofs. What could follow:

1. An abstract object storage (a register per name that is written once per
   millisecond) that `Uploads` implements.
2. `Registration` and `Profiles` composed over one row of `users`, and `Profiles` with
   `Brands`: both have the verification of a business profile.
