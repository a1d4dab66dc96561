# PPE warehouse: models, checks and proofs

The program is a web server for the personal protective equipment of a
warehouse: employees receive items, bring them back, and every movement is
recorded. It is written in Go (`src/internal`), keeps its data in six CSV files
and serves every HTTP request in a goroutine of its own. This directory holds
TLA+ modules for the parts that decide whether the records are right, TLC
configurations that check them on small instances, and proofs that the core
properties hold for instances of any size.

## The system

| Part | State | Operations | Talks to |
|---|---|---|---|
| CSV repositories (`internal/storage`) | six files, one mutex shared by all | `List`, `GetByID`, `ListByTransactionID`, `GetByEmail`, `Add`, `Update`, `DecreaseQuantityIfEnough`, `IncreaseQuantity`; `ensureFiles` at start | the file system |
| Stock ledger (`transactions_service.go`, `items_service.go`) | none of its own; `items.csv`, `transactions.csv`, `returns.csv` | `AddItem`, `IssueItem`, `ReturnItem` | items, users, transactions and returns repositories, two to five calls each |
| Accounts (`auth_service.go`, `password_hasher.go`) | `accounts.csv`, the pepper | `Register`, `SetApproval`, `ResetPasswordByAdmin`, `ChangePassword`, `EnsureDefaultAdmin`, `Authenticate` | accounts repository, bcrypt |
| Sessions and access (`session_service.go`, `auth_middleware.go`, `auth_handler.go`) | map of tokens with expiry, under a mutex of its own; lost on restart | `Create`, `GetAccountID`, `Delete`, `RequireAuth`, `RequireAdmin`, `Login`, `Logout` | accounts |
| Roster (`users_service.go`, `departments_service.go`) | `users.csv`, `departments.csv` | `AddUser`, `AddDepartment`; two handlers that create a warehouse user on the fly | users and departments repositories |
| Handlers of `/issue`, `/return`, uploads | none | resolve names to users, call the services, one call per uploaded row | all services |
| Views (home page, dashboard, history, exports) | none | read several files one after the other | all services |
| Start and wiring (`app.go`, `csv_store.go`, `password_hasher.go`) | which files are there, the pepper in memory | `Run`: `ensureFiles`, `loadOrCreatePepper`, `EnsureDefaultAdmin`, routes | the file system |
| Pages, translation (`i18n`, view models) | none | text | |

What is hard about it is the same everywhere: a repository call is atomic, a
service is not. The mutex is released between two calls of one request, so
other requests run between a check and the write it was made for; a service
that writes two files does not undo the first write when the second one fails;
and a file is rewritten in place, so a crash or a full disk meets it half
written. `PROJECT.json` lists each such place under `hazards`.

What makes each part correct:

* repositories: each method behaves as one step on a table; only a fault loses
  rows; a file that cannot be read is not overwritten; every call returns;
* stock ledger: stock is never negative; shelf and ledgers account for every
  unit; nothing is returned that was not issued, or more of it;
* accounts: one account per address; a decision once taken is not undone by
  another call; a password is replaced only by someone entitled to;
* sessions: a request is admitted only for a live session of an approved
  account; a reset password must be changed first;
* roster: a name always stands for the same user; what a worker books carries
  that user; nobody is created twice for one name; an account whose approval
  succeeded has its user;
* uploads: the report is exact, so that correcting and sending again what was
  reported adds each row once (sending the whole sheet again adds the rows of
  the first time twice, and nothing in the code prevents it);
* start: whatever earlier starts left behind, a process that serves has all its
  files, an administrator who can log in, and checks every hash it has stored;
* views: the figures of a page differ from the books by explained amounts only,
  and the return form offers what can be returned.

## Modules

| Module | Models | Checked by | Proved in |
|---|---|---|---|
| `Totals` | the loops that add up quantities | `MCInventory` (`TotalIsSum`) | `TotalsProofs` |
| `Inventory` | `AddItem`, `IssueItem`, `ReturnItem` as sequences of repository calls | `MCInventory` | `InventoryProofs` |
| `Width` | the same arithmetic in Go's `int` | `MCWidth` (`wide_return`) | `WidthProofs` |
| `Tables` | the formats of the six files and the effect of each method on rows | through the next two | |
| `Repository` | what the services assume: tables changed in one step (abstract) | as a property of `CsvStore` | |
| `CsvStore` | mutex, `readAll`, `os.Create`, buffered `writeAll`, disk errors, crash | `MCCsvStore` | `CsvStoreProofs` |
| `Accounts` | `AuthService` over `accounts.csv` | `MCAccounts` | `AccessProofs` |
| `Access` | sessions, middleware and the account handlers, composed with `Accounts` | `MCAccess` | `AccessProofs` |
| `Roster` | `users.csv` and the handlers that look up and create users | `MCRoster` | `RosterProofs` |
| `Upload` | the uploads of items and employees, row by row | `MCUpload` | `UploadProofs` |
| `Startup` | `Run` up to the first request, and the pepper | `MCStartup` | `StartupProofs` |
| `Views` | pages that read several files, composed with `Inventory` | `MCViews` | `InventoryProofs` |
| `Dashboard` | what the dashboard computes from one reading of the files | `MCViews` (`DashboardAddsUp`) | `InventoryProofs` |

How they hang together: `CsvStore` implements `Repository`, and that is what allows
all the other modules to take a repository call as one step. A fault inside a call is
the other kind of step of `Repository`, `Damage`: rows of the file are lost, or it can
no longer be read. `Inventory` (and with it `Views`), `Upload` and `Startup` have it as
cut writes; `Accounts`, `Access` and `Roster` only have faults that leave their file as
it was, so what they show holds as long as no write to `accounts.csv` or `users.csv` is
cut short. `Access` contains `Accounts`, and its behaviours are behaviours of `Accounts`. `Views` runs beside
`Inventory` without touching it. `Roster` decides which users `Inventory` is called
with: outside cut writes users are only ever added and keep their ids, so `Inventory` may take its
sets `Users` and `Warehouse` as constants, and `ActorAccepted` says that the checks
it makes on them do not refuse a request the handlers let through.

### Inventory

`items` and `stock` are `items.csv` (the ids that have a row, and the quantity
column), `txs` and `rets` the two ledgers. `req[r]` is what request `r` holds
in its local variables between two repository calls; `pc` names the call it is
about to make. `IssueItem` stands for the service up to its stock check, then
come `DecreaseQuantityIfEnough` (or `InsufficientStock`) and `AddTransaction`.
`ReturnItem` stands for the service up to its comparison, then `IncreaseQuantity`
(or `ItemNotFound`) and `AddReturn`. The reads before the last check are folded
into it: users and transactions never change once written, so those reads
commute with everything else. A request rejected before its first write changes
nothing and takes no step.

What can go wrong in a repository call: `CallFails` is an error that leaves the file as
it was (it cannot be opened or created, an id is taken). `AddItemCut`, `ShelfCut`,
`IssueCut` and `ReturnCut` are writes cut short after `os.Create` has emptied the file:
some of the rows are lost, and the file may end in half a row (`torn`), after which
every call on it fails (`FileIsTorn`). An error in the middle of a write is returned to
the service; one of the last flush is not, because `writeAll` evaluates `w.Error()`
before its deferred `Flush`, so the service goes on as if the row were there. The rows
lost are any, where the code loses the last ones: `stock` and the ledgers are sets, and
the properties are about all of them. Whenever the service does see an error, it
leaves its first write in place. `Crash` drops all requests between two calls; a process
that dies inside a write is a cut followed by a `Crash`, two faults, which the proofs
cover and the run, with one fault, does not.

The server may start with transactions of items that are no longer in
`items.csv` (`src/data` has some), hence `SeedStock` and `SeedTxs`.

Five variables are bookkeeping and not in the program: `supplied` (units there
at the start or added), `drift` (units that requests cut short moved without a
record, and units of rows that were lost), `overlapped` (issues whose returns were
validated while another return of the same issue was between its check and its row),
`cut` (how often each file has lost rows) and `faults`. Once `transactions.csv` has lost a
row, its returns name an issue that is not there, and `NewID` may draw its id again;
`LedgerLinked` (for the links) and `ReturnsWithinIssueIfSerial` are about the time
before. Quantities are exact integers in this module; where sums leave Go's `int` is
`Width`'s subject.

### Tables, Repository, CsvStore

A row is an id and one value: the quantity in `items.csv`, the address in
`accounts.csv`. `Tables` gives for each file the number of columns `writeAll`
writes and the fewest `readAll` keeps, and for each method when it goes on to
write and what. `Repository` has the two kinds of step a service sees: a method
changes one table, or a fault cuts one short or makes it unreadable.

In `CsvStore` a call waits for the mutex (`Begin`, `Lock`), reads and decides
(`Read`, `ReturnEarly`), empties the file (`Create`), lets parts of it reach the
disk whenever the buffer of `bufio` is full (`FlushSome`) and ends with the
deferred `Flush`, `Close` and `Unlock` (`Finish`). `OpenFails`, `WriteFails`,
`FlushFails` and `Crash` can strike at every step. `FlushFails` reports success:
`return w.Error()` is evaluated before the deferred `Flush`. A line is its number
of columns and its row; `encoding/csv` rejects the whole file when a line has
another number of columns than the header (`Rejected`), before `readAll` can skip
it; since all lines then have the header's number of columns, `readAll` keeps either
all rows or, when that number is too small, none. A file that was emptied, or has
only part of its header, reads as an empty table. Not represented: a row torn inside its last column, which is kept with a
shortened last field, and values that are not numbers.

The refinement maps the table of a file to what `readAll` would return, or,
while a call is between `Create` and `Finish`, to what that call is writing.

### Accounts

`accounts` is `accounts.csv` by id. `Register` stands for the service up to and
including the hash, `Add` and `EmailAlreadyExists` for the repository call that
follows. `SetApproval`, `ResetPasswordByAdmin` and `ChangePassword` stand for the
read, the checks and the change of the copy, `Update` for the repository call
that writes the whole copy back. A hash is a record of the password it was made
from; a password has a length in bytes, because the pepper (64 characters) is
appended before bcrypt, which takes 72 bytes. `Verify` also accepts a hash made without
pepper, which only a file of an older version has (`FromOldVersion`; nothing the program
does makes one). `intended` (bookkeeping) is what
each account would be if every completed call had changed its own fields only;
`overlapped` names the accounts that were read by one call while another one was
about to write them, `past` has all hashes an account ever had. On an overlapped account
`Update` may undo a decision, which `LastDecisionKept` therefore leaves out;
`PasswordChangeVerified` leaves out nothing, and says what the worst is that this can do
to a password: an earlier one of the same account comes back.

### Access

`Access` extends `Accounts` with the session table (`sessions`; `drawn` are the
tokens handed out, and 32 random bytes are never drawn twice), a clock, and
`http[r]`, where a request is. `Authenticate` is the service's check, `Create` the
session that `Login` starts afterwards. A protected request takes `GetAccountID`
(or `Expire`, which removes a session that has run out), then `Admit` or `TurnAway`
for the middleware, then its handler: `Logout`, `Answer`, or a service of `Accounts`
that ends with `ServiceEnds`. `Entitled` is what `RequireAuth` and `RequireAdmin`
demand together. `"/issue"` stands for all pages open to any active user.
`RequestFails` is an error from a repository anywhere on the way, `Restart` loses
requests and sessions and keeps the files. A browser may present any token it was
ever given, also one whose cookie it should have dropped. The employee that
`AdminSetApproval` creates after the approval is in `Roster`.

`AdmittedIsEntitled` is about requests and the account as it is *now*, so it says
that a withdrawn approval or a reset password binds the sessions opened before.
A request that was already past the middleware may finish (`stale`, bookkeeping).
`ChangedByOwnerOrAdmin` leaves out `overlapped` accounts: there, a worker's change
of password can write back an approval that an administrator has just withdrawn.

### Width

One item and its issues, one call at a time, with sums that wrap around like Go's
`int`: `strconv.Atoi` accepts any `int` a form contains, and neither
`totalReturned+quantity` nor the addition to the stock is checked. `Half` is 2^63 in
the program. No quantity is excluded. In the run `wide_return` TLC issues some
units, takes one back, and then returns nearly the largest `int`: the sum wraps to a
negative one and passes. `ExactUntilSumWraps` (proved) says that this is all: until the
returns of one issue add up to more than the largest `int`, stock and ledger are what
exact arithmetic makes of them, so that `Inventory` may use it.

### Roster

`users` is `users.csv` in file order, a user being its id, name, role, and where it
came from (the employee number says: a form, `AUTO-` and the time, or an account
id). Lookups take the first row that matches (`FirstNamed`, `ById`). A request is
in `lookup` while `resolveOrCreateWarehouseUserByName` is about to read the users,
in `addUser` when it found nobody, in `service` once the handler calls `IssueItem`
or `ReturnItem`; the page that shows the outcome looks the user up once more.
`ensure` and `addEmployee` are the same steps of `ensureApprovedAccountInEmployees`.
Roles keep their spelling as far as the code tells it apart: the handlers fold
letter case and blanks, the service compares with "warehouse" (`IsWarehouseUser`
and `ServiceAccepts`), and `AddUser` stores the folded form (`StoredRole`).
`overlapped` (bookkeeping) holds the names for which a creation met another
addition; `moves` and `settled` record who booked what, and whose approval was answered
without an error. A page is not an answer of that kind: its handlers discard the error
of the lookup (`currentWarehouseActor`) and show it all the same. What holds only outside `overlapped` is exactly what the two
separate calls, a lookup and an addition, cannot keep.

### Upload

A sheet is a sequence of rows of five kinds (`Refused`, blank and sound), which is
all the loop tells apart. `at`, `added` and `errors` are the handler's loop
variables; `SkipBlank`, `RefuseRow`, `AddRow` and `AddFails` are one pass of the
loop each, `Answer` the page; it lists the table, and when that fails the report is
lost (`AnswerFails`). The client sends a sheet (`Send`), sends the reported
rows again (`Correct`) or leaves them (`GiveUp`). `sent` and `dropped` are
bookkeeping.

`table` has every row that was added, in order, and `gone` the places of those that a
write cut short has taken out of the file again (`WriteCut`), always the last ones;
`readable` says whether the file can still be read. Such a write returns an error
(`AddFails`) or, when it was the deferred `Flush` that failed, none (`AddRowCut`): the row
is counted and is not in the file. So `AnswerTruthful` does not say that all rows counted
are in the file. It says what is left of the report: a row reported is not in the
file, so that it may be sent again, and a row that was counted is in the file unless a cut
write has taken it away.

### Startup

`ensureFiles` takes the files in the order of the code and leaves those that exist
alone (`EnsureFile`, `EnsureAccounts`), then the pepper is read or drawn, stored and
used (`LoadPepper`, `NoPepper`, `NewPepper`), then `EnsureDefaultAdmin` adds the
administrator unless the address is there. `StartCutShort` ends the process inside
any of these writes, `Stop` between them; `RegisterCutShort` is the same for an
account added while the server runs. A key may be cut short, too: what is left of
it is a pepper like any other (`PartOf`), unless nothing is left. `ReadKeyFails` is
`os.ReadFile` failing on a file that is there, which the code takes for a missing
file: the pepper is replaced and every hash made before can no longer be checked.
`HashesCheckable` and `ServesComplete` therefore except it.

### Views, Dashboard

`page` holds what a page has read so far; between two reads the requests of
`Inventory` go on. `FiguresReconcile` says by how much the three totals of the
dashboard may differ from the balance of the books: by the rows that were recorded
after the page was requested. A cut write of `Inventory` may take rows out of a file
while the page is read; the properties are then about pages during which none did
(`Whole`), and a file that cannot be read ends the page or leaves its list empty
(`ReadFails`). `NamelessOnlyIfNewer` is about returns in the history
whose issue the page has not read, `OffersComplete` and `OffersCurrent` about the
list of issues with units left on the return form.

`Dashboard` has the filters, totals, charts and the low-stock list as operators on
one reading (sequences of items, issues and returns). They are functions of the
reading and not of an execution, so their laws are about any reading `t`
(`IsReading`). The ids in a row need not be in the other files: `src/data` has issues
of items that are in no list, and a return may be read whose issue was not. The
dashboard looks such ids up in maps that give it an empty record (`Department`,
`ItemOfReturn`). Filters by day, department, item and person partition the events, but
for the rows of people, departments and items that no list offers, which count only in
the unfiltered total (`FiltersPartition`); the charts lose no units (`ChartsMatchTotals`), and the
low-stock list has the name of every item that runs low, once (`LowStockNamesAll`).
TLC evaluates them over the readings `MCReadings` as an assumption of `MCViews`, and
they are proved for every reading.

## Runs

| Run | Instance | States | Shows |
|---|---|---|---|
| `inventory` | 2 requests, 2 items (1 unit of one, 1 or 2 of the other once it is added), 2 issues, 2 returns, quantities 0..2, 1 fault | 366,962 | `StockNeverNegative`, `BooksBalance`, `ReturnsWithinIssueIfSerial`, `LedgerLinked`, `ShelfWithinSupply`, `RequestsAnswered` |
| `over_return` | 2 requests, no faults | | `ReturnsWithinIssue` fails |
| `csv_store` | 2 goroutines, `items.csv` and `accounts.csv`, 3 calls, 1 fault | 69,123 | `ImplementsRepository`, `AcknowledgedKept`, `TornFileKept`, the lock discipline (`TypeOK`), `CallsReturn` |
| `short_lines` | `items.csv` with a short line | | `ShortLinesTolerated` fails |
| `accounts` | 2 requests, administrator (with a hash without pepper) and 2 more accounts, 5 calls | 267,162 | `EmailsUnique`, `LastDecisionKept`, `PasswordChangeVerified`, `CallsAnswered` |
| `access` | 2 requests, administrator and 1 more account, 2 sessions, 3 calls, 2 instants, 1 fault | 1,824,216 | `AdmittedIsEntitled`, `ChangedByOwnerOrAdmin` |
| `long_password` | one registration | | `LongEnoughAccepted` fails |
| `roster` | 2 requests at a time, 3 calls, 3 accounts (two of one name), 1 user at the start, 1 fault | 499,049 | `ActorAccepted`, `BookedByFirstNamed`, `CreatedOnlyIfMissing`, `SettledHasUser`, `NameKeepsUser` |
| `upload` | 2 clients, sheets of 2 rows, 3 sheets sent, 1 form, 1 fault | 3,238,156 | `RowsAccountedFor`, `AnswerTruthful`, `SheetOrderKept` |
| `wide_return` | an `int` of 5 bits, supply 6, every quantity, 4 calls | | `ReturnsWithinIssue` fails |
| `startup` | new and older installation, 2 people, 5 peppers, 3 stops or cut writes, 1 failed read | 189,754 | `HashesCheckable`, `ServesComplete`, `ComesToServe` |
| `views` | 1 page beside 2 requests, 2 items, 2 issues (one at the start), 1 return, 1 fault, 1 failed read | 497,187 | `FiguresReconcile`, `NamelessOnlyIfNewer`, `OffersComplete`, `OffersCurrent`; `DashboardAddsUp` |

The runs with a liveness property use no symmetry.

Bounds. Two requests are enough for each race here, since every one of them is
between one check and one write of somebody else. In `inventory` a stock of 1 or 2 with
quantities up to 2 lets two issues compete for the last units and lets an issue be
returned in two parts, and the two items, of which a cut write may lose either row, make
one of them vanish while requests hold units of it; one fault puts a failed second write,
a crash or a cut write at every place. In
`csv_store` three calls let a writer, a competing writer and a later reader meet,
on files in the present and in the older, narrower format. In `accounts` five
calls let one account be registered, approved, reset and changed with an
overlapping call. In `access` three calls are a registration, its approval, and a
withdrawal, reset or change of password while a session of the account is open; a
lifetime of 0 ticks lets it run out at the one tick there is. In `roster` three
calls let two creations of one name meet and a later page or form find what they
left. In `upload` two rows let one fail and the next succeed, three sheets let a
client correct a sheet while another one uploads; one fault is a failed call, a cut write, a
flush whose failure nobody sees, a lost page or a crash. In `startup` three stops reach a
key, a sample file and an accounts file that were all cut short, and five peppers
are enough for every start to draw its own. In `views` one new issue beside the one there
is, and one return, let a return and the issue it names both be recorded between two
reads of a page, and the one fault lets a file lose either.
The bounds `MaxIssues`, `MaxReturns`, `MaxCalls`, `MaxSends`, `MaxForms`, `MaxClock`,
`MaxFaults` and `MaxReadFaults` end every behaviour, so the configurations do not
check for deadlock; that every request and every call ends is a liveness property
instead.

Fairness. A request in flight keeps moving (`WF` of its own steps), because the
Go scheduler runs every runnable goroutine. `Lock` in `CsvStore` is strongly fair:
the mutex is free again and again, and `sync.Mutex` hands it to a waiter that has
waited for a millisecond. In `Startup` the steps of `Run` are fair, and so is
starting the program again after it has stopped, which is what an operator or a
service manager does. Nothing obliges a client to send a request, and no fault is
ever fair.

### What the failing runs say

* `over_return`: the rule above `ReturnItem`, "total returned (summed across
  returns) cannot exceed original issued quantity", holds for returns made one
  after the other. Two returns of one issue at the same time both add up
  `returns.csv` before either has a row in it, and both pass. The stock is then
  larger than what was ever supplied.
* `wide_return`: the same rule fails for one call after another when a return is nearly as
  large as the largest `int`, because the sum it is compared by wraps to a negative one.
  The stock then wraps, too. Nothing between the form and the file bounds a quantity.
* `short_lines`: `readAll` of `items.csv` has a test under the comment "tolerate
  malformed/short lines". It is never reached for a line that is shorter than the
  header: `csv.Reader` returns an error for the whole file, and so does every
  call on that file until somebody repairs it.
* `long_password`: `Register` asks for "at least 4 characters" and then fails with
  "failed to hash password" for more than eight bytes. `ResetPasswordByAdmin` and
  `ChangePassword` have the same limit.

## Proofs

Every theorem below holds for every value of the constants that satisfies the
assumption named, so for any number of requests, rows, ids and faults. An
invariant is proved from an inductive one, in three steps: it holds initially,
each action keeps it (one lemma or step per action), and it implies the property.

**Inventory** (`TotalsProofs`, `InventoryProofs`; `InventoryAssumption`: finitely many
requests, starting rows that are well formed with unique ids and non-negative
stock, and an empty id that differs from all others): `TypeOK`,
`StockNeverNegative`, `LedgerLinked`, `BooksBalance`, `ReturnsWithinIssueIfSerial` and
`ShelfWithinSupply`, under any number of failed calls, crashes and cut writes. None is
inductive alone. The first layer, `Core`, adds to the types what a request relies on
between two calls: `HeldReadsValid` (the issue it read is still there as long as
`transactions.csv` has lost no row, the quantity is positive), `NoRowNoStock` (an item
without a row has no stock, so adding it does not overwrite any), and that without a
fault no file has lost a row or is torn (`NoFaultNoLoss`). `Core` is inductive by itself;
the others are inductive relative to it.

* `BooksBalance`: each step moves units between the shelf, a request and a ledger.
  `HeldUpdate` and `PendingUpdate` say that a step of one request moves the total
  in flight by what that request holds, `ItemQtyInsert` that a new row moves the
  total of its own item, `RowsLost` that the rows a cut write loses take their units
  out of the total of the ledger; those, and what a crash cuts off, go to `drift`.
* `ReturnsWithinIssueIfSerial` is stated with its strengthening: besides the total,
  the one return in flight fits into what is left, and there is only one. A fresh
  issue has no returns (`FreshIssue`, from `LedgerLinked`), and a recorded return
  uses up at most what it was allowed (`TotalReturnedAdd`; less when its row is lost).
* `ShelfWithinSupply` follows from the last three: the returns of an item, grouped
  by the issue they name (`TotalGrouped`), fit into what each issue took
  (`TotalFits`), so by `BooksBalance` the shelf is within the supply.

**Totals** (`TotalsProofs`, no assumption). Sums are cardinalities of sets of units
(`Totals`), so that their laws follow from the theorems about finite sets, by
bijections in place of induction: one row more (`TotalInsert`, `QtyInsert`), one row
changed (`TotalUpdate`), rows without units (`TotalRestrict`), two tables added row by
row (`TotalPlus`), a table cut in two (`TotalSplit`), and a table whose rows have
owners, which totals what the owners' shares do together (`TotalByOwner`), from which
the bounds `TotalFits` and `TotalGrouped` follow. The run `inventory` evaluates
`TotalIsSum`, which compares `Total` with a fold of addition over small tables.

**Width** (`WidthAssumption`): `ExactUntilSumWraps`, for any width of `int`, any supply and
whatever quantities are passed. Its strengthening says that no issue exceeds the supply:
the sum compared then wraps only to a negative value, which means that it exceeds the
largest `int`, and every other sum and difference stays in the range where `WrapExact`
applies.

**CsvStore** (`CsvStoreAssumption`: the files have formats, values are integers, and the
marks for a free mutex and an unreadable file are not values): `TypeOK` with the
lock discipline, `ImplementsRepository`, `TornFileKept`, and, if the files at the
start can be read (`SeedsReadable`), `AcknowledgedKept`. The inductive invariant adds
to `TypeOK` that a call uses a method of its file (`Known`), that the table about to
be written is what the method makes of the file as it is (`Ready`), and that a file
being written holds a part of the writer's table (`Writing`). For the refinement,
`Create` maps to `Call`, a write cut short to `Damage`, everything else to a
harmless fault or a stutter. `EncodeReads` says that `readAll` of what `writeAll`
writes gives the table back, `LeftBehind` that what a cut write leaves is a first
part of the table or unreadable.

**Accounts** (in `AccessProofs`; `AccountsAssumption`: lengths are numbers, the administrator is one of the
ids, and the mark for an id without an account differs from all ids and accounts):
`TypeOK`, `EmailsUnique`, `LastDecisionKept` and `PasswordChangeVerified`. Added to them are that
calls on an account that is not `overlapped` exclude one another (`OneAtATime`), and
for every account, overlapped or not, that what a call is going to write back is justified
by a hash it can have read (`OwnerKnew`), and that the hash an account has is among those
it has had (`PastComplete`).

**Access** (the above and `AccessAssumption`): `WebImplementsService` says that every step
of the web application is a step of `Accounts` or leaves it alone, so the theorems
about `Accounts` hold behind the middleware. `AdmittedIsEntitled` and
`ChangedByOwnerOrAdmin` need that administrators stay administrators (`AdminKept`),
that sessions are of existing accounts (`LiveIds`), that who is on an
administrator's page is one (`AdminPages`), and that a change of password is of the
account whose session was presented (`OwnPassword`).

**Roster** (`RosterAssumption`: ids in the starting file are unique, its users came from
forms, and the only spelling of "warehouse" in it is the plain one): `ActorAccepted`,
`BookedByFirstNamed`, `CreatedOnlyIfMissing`, `SettledHasUser` and `NameKeepsUser`. The
strengthening says that the file never gets another spelling (`OneSpelling`), what a
request knows on its way (`Acting`: the other person's id is in the file, the user it
acts for is the first of its name), and that outside `overlapped` at most one
request creates a user of a name, and only while nobody has it (`OneCreation`).
`LongerNames` is the heart: a row more at the end changes nobody's first row.

**Startup** (`StartupAssumption`): `TypeOK`, `HashesCheckable` and `ServesComplete`, from how far
`ensureFiles` has come (`FilesPresent`) and from a new pepper being drawn only where
there is none to lose (`PepperInOrder`).

**Upload** (`UploadAssumption`: finitely many clients, and the bounds are numbers):
`TypeOK`, `RowsAccountedFor`, `AnswerTruthful` and `SheetOrderKept`, for sheets of any
size. `Core` is inductive by itself: the loop stands somewhere in its sheet, whose
rows it sends in order, it has added or reported fewer rows than it has passed, and
what it reported are rows before that place (`RequestsSound`); two requests never carry
the same upload number, and none is in use that was not given out (`UploadsApart`). Relative to
it, `RowsAccountedFor` is inductive as it stands: each step moves a row between the
copies in the file, those a cut write has taken out of it, what requests have
outstanding and what was given up, and
`TotalUpdate` says that a step of one client moves the sum over all of them by its
own share. `AnswerTruthful` is proved with `Told`, which says the same
row by row. `SheetOrderKept` comes with it: a row
that is added next is later in its sheet than all rows of it that are in the table.

**Views** (in `InventoryProofs`; `InventoryAssumption` and `ViewsAssumption`: finitely many
item ids, so that a total over all items is a number): `ViewsTypeOK`,
`FiguresReconcile`, `NamelessOnlyIfNewer`, `OffersComplete` and `OffersCurrent`.
`PagesOnlyRead` says that a behaviour with pages is a behaviour of the ledger, which
carries all invariants of `Inventory` over. The inductive invariant `PageSound` says
what a page may rely on between two reads while no file loses rows (`Whole`): what it has
read of a ledger holds all that was there at its request and is still there now, because
otherwise ledgers only grow (`LedgersGrow`); and the balance noted at its request, `StartBalanced`, is that of
`BooksBalance` at that moment. `FiguresReconcile` follows from it item by item: stock,
issues and returns are split by item (`TotalByOwner`), each of the two ledgers into
the rows of before and after the request (`TotalSplit`), and a return whose issue the
page does not know counts for its own item, which `LedgerLinked` makes the same one.
`OffersComplete` needs that what is left of an issue only shrinks (`ReturnedGrows`).

**Dashboard** (in `InventoryProofs`; `DashboardAssumption`): for every reading,
`FiltersPartition` (`FiltersSplit`), `ChartsMatchTotals` (`ChartsComplete`) and
`LowStockNamesAll` (`LowStockListed`). Issues and returns are treated alike, as rows
that pass a filter (`Passing`): a filter by person, department or item gives each row
one owner (`UnitsByOwner`, from `TotalByOwner`), a day cuts the rows in two
(`UnitsInTwo`). The charts go by the same law, the owner being the day, or the pair of
a department's label and an item's name, so shared names do not matter; a count is a
sum of ones (`CountOnes`). The row listed for a name is the least of those that run
low (`LeastRow`).

Every safety property of the passing runs is proved. Proved only is `ExactUntilSumWraps`,
an invariant over quantities of any size. Only model-checked are the
liveness properties (`RequestsAnswered`, `CallsReturn`, `CallsAnswered`, `ComesToServe`:
the prover has no reasoning about fairness), and `TotalIsSum` (a fold over data, which
would need an induction the provers cannot instantiate). The four properties of the
failing runs are false, and each shows its counterexample.

## Not modelled

* On the home page and dashboard: the ten most recent events (sorted by second with
  an unstable sort) and the list of expiring items (deduplicated by name like the
  low-stock list, which is modelled).
* Code no route, handler or start calls: `listTransactionsTableRows` of
  `home_handler.go`, `renderUsersTable`, `TodayYYYYMMDD`, `ValidateDate`, and
  `DepartmentsService.AddDepartment`, so that `departments.csv` never changes while
  the program runs.
* Reading a workbook and finding its columns, before an upload changes anything;
  lists and exports that read one table; page templates, translation, formatting,
  timestamps.
* The random sources: `NewID` is a choice of any id (one already in use makes `Add`
  fail), tokens and peppers are never drawn twice.
* Expired sessions that nobody presents again stay in the table, in the code and in
  the model; no property is about the memory they take.
* Everything under `src/.gomodcache`: third-party packages. Of these, the models use
  what the code relies on: `encoding/csv`, `bufio`, `bcrypt` and the standard library.
  The program itself is about 4,400 lines of Go, and the map in `PROJECT.json`
  refers to those.

## Plan

Done: all modules of the table above, and the proofs listed.

Left, in this order:

1. An abstract ledger, one step per issue or return, that `Inventory` implements as
   long as nothing fails and no returns of an issue overlap.
2. Cut writes of `users.csv` and `accounts.csv` in `Roster` and `Accounts`, where a lost row
   gives a name or an address another owner.
3. One composition of `Accounts`, `Roster` and `Inventory` for `POST /issue` and
   `POST /return`, in place of the argument above about users that only grow.
