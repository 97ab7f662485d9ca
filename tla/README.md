# A verification project for the wedding website

TLA+ models of the Go server's own logic and of its web client's RSVP form, the TLC runs that check them on small
instances, and theorems about them that TLAPS checks for every value of the
constants. Everything is translated from the code; paths below are relative to
`src/internal/` unless they say otherwise.

## The system

A household is invited under one login code. Its members log in with the code,
answer the RSVP form until a deadline, and may add one companion. An admin keeps
the list of households and guests, reissues codes and reads what was answered.
One Go process serves a JSON API and the web client over one SQLite file.

| Component | State it keeps | Operations |
|---|---|---|
| RSVP use case (`application/rsvp`) | none of its own; rows `household`, `guest`, `audit_log` | Load, Save, AddPlusOne, RemoveMember, the same three by the admin |
| Household administration (`application/households`) | the same rows, `session` when a code is reissued | Create, Update, Delete, ReissueCode, AddGuest, UpdateGuest, RemoveGuest |
| Domain rules (`domain`) | none: pure functions | normalise and apply answers and patches, resolve names, ages and seating needs, plus-one rules, session lifetimes, codes |
| Login and sessions (`application/auth`, `persistence/session.go`, `web/middleware/session.go`) | `session` rows, the browser's cookie | LogInHousehold, LogInAdmin, ResolveSession, LogOut, purge |
| Login rate limiter (`web/middleware/ratelimit.go`) | a map of recent failures per client address, under a mutex | RetryAfter, RecordFailure, the sweep |
| Persistence (`persistence`) | the SQLite file: one write connection, four readers | statements, `inTransaction`, `requireOneRow` |
| Migrations (`persistence/migration.go`) | `schema_migration` | apply what is missing, refuse an unknown version, before anything is served |
| Client address (`web/middleware/clientip.go`) | none | resolveClientIP |
| Login codes (`domain/code.go`, `persistence/household.go`) | the codes that are taken | GenerateCode, NormalizeCode, ValidateCode, the five attempts of `withGeneratedCode` |
| Web client (`src/web/src`) | the form's draft, the query cache | load, reseed, submit, correct, reload, add, remove, log in and out, leave on a 401 |
| Process and pools (`cmd/wedding`, `configuration/database.go`, `persistence/transaction.go`) | the two handles with their connections, the requests in flight | open, migrate, listen, drain, close; take a connection, give it back; Ready |
| Guest list export (`persistence/export.go`) | none; a connection to read for as long as the client takes rows | StreamGuests |
| HTTP input and output, other middleware, wiring | none that outlives a request | |

How they interact: a request passes `RequestID`, `ClientIP`, recovery, the rate
limiter (login only), `SessionGate.Resolve`, a `RequireHousehold` or
`RequireAdmin` gate, its handler, a use case, and the stores. Reads go to the
read pool, outside any transaction; each write is one statement or one
transaction on the single write connection. The audit row is written after the
commit, and a failure of it is only logged.

What is hard here is therefore not one request but several: a request reads,
computes, and writes later, and whatever else commits in between (a second phone
of the household, the admin, a deleted household whose row id returns) meets it
at its commit. And all of them share one connection to write, a few to read, and a
process that may be told to stop. `PROJECT.json` lists these hazards line by line.

## Modules

`Domain` the pure rules (`domain/rsvp.go`, `guest.go`, `addition.go`,
`setting.go`): one operator per function, a function that may refuse as a
predicate and a value.

`Rsvp` (EXTENDS `Domain`) the household and guest tables with every request that
writes them. Variables: `household`, `guest` (the rows), `audit` (creations and
deletions of guests), `clock` (seconds), `request` (what each request in flight
holds). One action per statement: `Receive` is the deadline check, `Save...` is
`SaveFindHousehold`, `SaveApply` (members, matching, rules, normalisation),
`SaveAnswer` (the transaction), `RecordAudit`; the other operations likewise.
A refusal is the second disjunct of the action it happens in, `Abort` a request
that dies between two of them. An admin's patch of a guest is stored only where one
of the fields `ApplyGuestPatch` compares changes (`PatchChanges`): a rename to the
name a guest has is refused, though it moves the seeded name. A deleted row has blank
values, so its id can return, as it does in SQLite without AUTOINCREMENT.

`AnswerBook` what the two RSVP tables promise, without requests, reads or
transactions: one variable, `book`, with a sheet per household (who is a member, who
of them is a companion, what each says, which seats the household wants, whether it
has answered), and the acts that change one sheet at once: `Answer`, `Join`,
`Leave`, and the hosts' `Open`, `Close`, `Enlist`, `Strike`, `Amend`. Its promises
are `SheetsConsistent`, `ListPromises` and `SaidStaysSaid`.

`RsvpBook` (EXTENDS `Rsvp`) reads the tables as that book. `SheetOf` is the refinement
mapping: `open` is the row's existence, `members` its living guests, `companions`
those with origin `guest_added`, `says` their attendance, `wants` which of the three
seat counts is positive, `answered` whether `rsvp_submitted_at` is set. `KeepsTheBook`
is `AnswerBook`'s specification under this mapping: a request changes one sheet, at its
commit, by one act, whatever it read before. Where the hosts edit the list
(`HostsEdit`) the book allows what the code then does: an answer that misses a guest
inserted meanwhile, and an `Amend` that brings old seats back.

`Sessions` codes, session rows and cookies. Variables: `code`, `session`,
`issued`, `cookie`, `clock`, `request`. `FindSession`, `FindHousehold`,
`DiscardSession`, `Refresh` are ResolveSession; `LogInFindByCode`, `AdminLogIn`,
`IssueSession`, `RevokePrevious` the two logins; `AssignNewCode` (some code no other household has, or no code after five collisions) and
`DeleteForHousehold` ReissueCode; `Respond` is the browser applying Set-Cookie;
`PurgeExpired` the daily sweep, at any time. A request that fails after the gate has
found its cookie dead may still be answered, and clears it (`Failed`).

`RateLimiter` the failures of each address as ages in ticks, so that the state
space is finite without a last moment. A request comes from an address
(`ComesFrom`) and reads the clock before it gets the mutex (`lag`).

`Server` the process, its two pools and the requests that share them. Variables:
`phase` (`down`, `opened`, `serving`, `draining`, `closed`, `failed`), `held` (who has a
connection of which pool), `request` (each with the list of statements its handler
runs and its age since it arrived), `sweep` (the purge), `waited` and `starts`. A
handler takes a connection for one statement or transaction and gives it back
(`Acquire`, `Execute`, `StatementFails`); a download keeps its own until the client
has taken the rows, the write deadline passes or the client hangs up (`Downloaded`,
`Overdue`, `HangUp`); readiness gives up waiting (`PingTimesOut`). `Open`, `Listen`,
`StartFails`, `ListenFails`, `Signal`, `ShutdownReturns`, `Exit` are `main` and `run`,
`Kill` a process that gets no chance. `ListenAndServe` may return an error while
requests are served; `run` then returns it, and its deferred `Close` runs without a
drain (`failed`, against `closed` after one). `Plans` are the statement lists of the
handlers: an answer shown, a session refreshed, a save, the logins and the logout, an
admin's write, the download, readiness.

`Migration` processes that open one database file: a server that is replaced, a
seed beside it. Variables: `applied` (the rows of `schema_migration`), `schema`
(the scripts whose effects the file holds, in order), `writer` (who is in a
BEGIN IMMEDIATE transaction), `process`, `mishaps`. The steps of `migrate` are
actions; `Crash` rolls back, `PowerFailure` loses the last commits, as
`synchronous=NORMAL` may.

`MemberSet`, `ClientAddress` and `LoginCode` are pure functions
(`matchSubmissionToMembers`, `resolveClientIP`, the login code from drawing, and
drawing again while it is taken, to typing), each with the reference it has to agree
with. `Algorithms` asks them a question each (`Questions`, of which
`QuestionsAssumption` says only what they are about) and its properties compare the
answer; `MCAlgorithms` gives it a bounded set of questions, and `AlgorithmsProofs` proves
the properties for every set.

`WebClient` one browser at the RSVP page (`components/rsvp`, `lib/api/rsvp.ts`,
`lib/api/session.ts`). Variables: on the server `stored`, `guests`, `closed`,
`sessions`; in the browser `me`, `cache` (the query `rsvp`), `form` (`RSVPForm`'s
state, the last refusal and the member it names among it) and `calls` (the call of
each kind under way). Each member has a scope and may have an age, which only a child
may have and only the card of a child who comes shows (`ShowsAge`); the draft keeps it
and `toRequest` sends it in any case. `Save` refuses after the deadline, for another
member set, and for an age on an adult, which it names with the member (`RefusedAt`).
A save that succeeded is in the cache at once and `settling` until `me` has been
fetched again; only then the form turns to the summary (`Settled`). What the guest does is an
action named as the function it runs; a call is `sent`, then served (`Show`,
`Save`, `AddPlusOne`, `RemoveCompanion`, or `Unauthenticated`), then delivered
(`Fetched`, `Saved`, `Added`, `Removed` and their failures), so that calls
overtake each other and outlive the form that made them. `Lose` is a call that
ends in a `NetworkError`, before or after the server has acted on it. Whatever
changes the answer elsewhere is `Elsewhere...` (a patch that changes nothing is refused,
and no change), `DeadlinePasses` and `Revoke`. `Starts` are the member lists there may be
at first: who is a child with an age, and how many guest ids have been given out.

`MCRsvp`, `MCSessions`, `MCRateLimiter`, `MCMigration`, `MCWebClient`, `MCServer` and
`MCAlgorithms` give the constants small values. `RsvpProofs`, `AnswerBookProofs`,
`SessionsProofs`, `RateLimiterProofs`, `MigrationProofs`, `WebClientProofs`,
`ServerProofs` and `AlgorithmsProofs` hold the theorems and their lemmas.

Definitions commented "Variant" are plausible bugs of the definition after
them. Nothing uses them; they exist to show that a property can tell the code
from the bug.

## Abstractions

* Texts are members of a small set with a `TrimSpace` function; a code is a
  model value; a token is the id of its session.
* `dietary_note` moves as the name does and is never refused; `has_stroller` as
  the seats and is never normalised: both are left out. The household's name,
  addressee and admin note are one `label`; `last_login_at` and
  `rsvp_note_seen_at` are left out.
* `audit_log` is reduced to the creations and deletions of guests.
* `WebClient` keeps the scope of each member, whether it has an age, and one direction
  for everything typed for the household. Of what a save can refuse in a member's
  fields it keeps the age: the other controls (name, seating need) are on the card of
  everybody who comes, so a refusal of theirs is seen where it can be mended; of somebody
  who stays away a hidden seating need can be refused too, and another scope brings its
  control back. It serves each call in one step, for `Rsvp`
  has the steps inside; a login or logout is one step; the first visit, which
  waits for the answer, is the fetch and then the visit.
* `Rsvp` takes authentication as given, `Sessions` takes the RSVP as one request
  (`Me`) that acts for the household.
* `Server` knows of a statement only its pool: what it does is the subject of the
  other modules. A run of reads in a row is one.

## Runs

Every bound is a constant of the cfg. Deadlock is checked in `Limiter`,
`Migration` and `Algorithms`; in `Rsvp` and `Sessions` the clock or the supply of
ids ends, in `WebClient` the logins, in `Server` the starts, and the system may stop
there. The runs that check liveness use no
symmetry.

| Run | Asks | Bounds |
|---|---|---|
| `RsvpHousehold` | Two devices of one household save, add and remove at once, across the deadline | 1 household of one adult, 3 guest ids, 2 requests, 2 moments |
| `RsvpAdmin` | Every operation of the admin, the save in its place included, two at once: patches of kind and age, guests inserted into a household that is being deleted, ids that return | 1 household id, 1 guest id, a child, 2 requests |
| `SessionsVisits` | A browser visits over six ticks, requests die anywhere, the purge runs at will | 1 browser, 1 session id, 2 requests, lifetimes 4 and 3, refresh 2 |
| `SessionsHouseholds` | Codes reissued and households deleted while browsers are logged in, requests of one browser overlapping | 2 browsers, 2 households, 2 sessions, 3 codes, which may collide, 2 requests, no time |
| `Limiter` | A refusal is earned and lifts as told, overruns are bounded, silent addresses go, no limit is for ever | 2 addresses, 2 requests of which one moves between them, limit 2, window 2, lag 1 |
| `Migration` | Two processes start, crash and restart with five releases, of which some are broken | 3 scripts, 2 processes, 2 crashes or power failures |
| `Algorithms` | The pure functions against their references | lists of up to 3 answers for up to 3 members, headers and routes of up to 2, 3 bytes, six drawn codes against two that are taken |
| `WebForm` | A form is filled in, left, reopened, saved and reloaded while calls overtake each other; does what was typed stay, and does a guest who keeps trying get on? | 1 household: somebody invited alone, or a child with an age whose household has no guest id left to add; 2 guest ids, 1 login, 2 calls under way, 1 disturbance, scope `both`, no direction |
| `Server` | A save, a download and a probe share the pools of a process that drains, is killed, fails to start or to listen, and starts again | 3 requests, 1 connection to read, write deadline 2, grace period 1, 2 starts |

Two requests are enough for every overlap of a read and a write listed under
hazards, because each involves one reader and one writer. Two guest ids more than
the household has members are what two companions at once need; a deleted row's
id returns with a single id as well as with many. Lifetimes are a few ticks, long
enough for a session to be refreshed, to miss its refresh and to expire. A
session that dies gives its id back to nobody, so `RevokedStaysRevoked` needs one.
`SessionsHouseholds` creates no household after it has deleted one; what happens
otherwise is below. In `Limiter` one request stays behind the watched address and the
other comes from either, so the two can meet at one address or keep both lists
alive at once, and `OverrunIsBounded` counts what they did together at one.
One connection to read, with a download that may hold it, is the pool at its limit;
a second start meets the requests of the first that a kill ended. A grace period
shorter than the write deadline is what lets `Close` run under a request.
Three scripts and two mishaps let a process fail before, between and after them
while another is at each of its own steps.
`WebForm` lets any two of the four kinds of call be under way, of this visit to
the page or of an earlier one, and one thing happen that the guest has not done: a
change on another device or by the admin (a patch of the child's kind or age among
them), the deadline, a revoked session or a lost call. One scope that is not "no" is what
`NobodyIsDeclined` asks for, and enough to tell what was typed from what was not. The
child's list has used its ids up, so that its form is about the age and not about a
companion again. The run has no direction, which no refusal and no guard depends on and
which multiplies the states: that a direction typed for the household stays is proved
for any directions (`TypedAlwaysSurvives`).

What the passing runs show:

* a committed save leaves seats its own members justify
  (`SaveLeavesSeatsJustified`), nobody who is not at the party is fed
  (`CateringNeedsParty`), no adult has an age (`AgesOnlyForChildren`);
* additions are decided where they are inserted (`AtMostOneAddition`), and an
  answered household has an answer of everybody invited (`AnsweredMeansEverybody`);
* the requests, interleaved in any way, implement the answer book
  (`KeepsTheBook`): with the hosts away in `RsvpHousehold`, at work in `RsvpAdmin`;
* no guest outlives its household, though inserts and deletes overlap
  (`GuestsHaveHouseholds`);
* past the deadline a household writes only what a request received before it
  carried (`LateWritesAreOurs`);
* a session that was revoked never returns, a used one reaches as far as promised
  less one refresh interval, an admin session ends however it is used, and
  sessions end for a reason only (`EndsForAReason`);
* a limited client is let in when it was told. With N requests in flight the
  number of failures within a window, less what a request may wait for the mutex, is
  at most (Limit + 1) N - 1 (`OverrunIsBounded`): N - 1 that were let in before the
  list was full, and for each place that comes free N that pass before it is taken.
  Over the whole window it can be more from three requests on: a failure that waited
  takes a place, and lets others in, when the window no longer counts it;
* a code that collides is drawn again, five times at most, and never stored twice
  (`CollisionsAreRetried`);
* no request starves although downloads may hold every connection to read
  (`EveryRequestEnds`), each connection is returned on every path (`TypeOK`, which
  says of each who holds it), and a shutdown closes the handles under a request only
  once its grace period is over (`HandlesOutliveRequests`);
* a migration is recorded exactly if it took effect, once and in order, whoever
  crashes or starts beside it, and a sound release that is restarted completes;
* whatever arrives while a form is filled in, what was typed stays
  (`TypedSurvives`), nobody is declined by the default of `toRequest`
  (`NobodyIsDeclined`);
* a form that hides no age is no dead end (`TryingHelps`): a guest who presses on,
  reloads when asked to and empties the age that is refused gets the answer stored, or
  is told that it is too late or that the session is over, even where an addition is
  shown twice. Of a form that does hide an age it says nothing: there the code has a dead end,
  the first of those listed below without a run.

### Where the code does something else than it says

Each of these runs checks one property and TLC finds a counterexample; the
finding in `PROJECT.json` quotes the line.

| Run | What happens |
|---|---|
| `RsvpAdminPatch` | the admin's rename writes back seat counts it read earlier |
| `RsvpRemoval` | removing a member leaves seats nobody justifies any more |
| `SessionsCookie` | the rolling refresh extends the row and not the cookie |

Also seen in the models, and left without a run of their own; the hazards in
`PROJECT.json` give the lines:

* a form can be a dead end. The draft holds a child's age, and the admin makes the child
  an adult; a refetch brings the same member ids, so the draft is not re-seeded
  (`RSVPForm.tsx:110`). The card of an adult has no age field (`RSVPMemberCard.tsx:251`),
  the request carries the age all the same (`state.ts:150`), and `ResolveAge` refuses it
  (`guest.go:144`). No reload is offered for this refusal, and every press is refused
  until the form is left and opened again;
* two first saves at once move `rsvp_submitted_at`, which is meant to stay
  (`application/rsvp/rsvp.go:237`);
* a high chair is stored for a child that an admin made an adult meanwhile;
* a companion or a guest can be stored under blanks;
* a login in flight across a reissue keeps a session of the old code
  (`ReissueRevokes` excepts it);
* two logins of one browser at once leave a session no cookie names;
* a deleted household's session is admitted as the next household of that id;
* the late answer to an old request clears the cookie of a newer login;
* a failing delete of an expired row fails the request;
* a refusal at the very edge of the window says to wait zero seconds;
* concurrent attempts exceed the budget, by what `OverrunIsBounded` allows;
* the cached answer survives a logout: the form of the next household of that
  browser can open on it and keep its seats and its note when it is re-seeded;
* a save's late response replaces a newer cached answer, so the summary is not
  what is stored until the next fetch.

## Fairness

Safety needs none. `Limiter` assumes that time passes (weak fairness of `Tick`)
and that every request waiting for the mutex gets it (weak fairness per request;
Go's `sync.Mutex` hands a starving waiter the lock after a millisecond). No client
has to do anything.

`Migration` assumes that a started process runs on until it serves or fails (weak
fairness of each process's `MigrationStep`; it is straight-line code whose only
wait, for the write lock, ends with `busy_timeout`). That processes are started
at all is a premise of `RestartsComplete`, not an assumption: it speaks of the
behaviours in which a sound release is started again and again, as the container's
restart policy does.

`Server` assumes that statements end and that the clock runs: weak fairness of each
request's `RequestStep` (a connection that is free is given to a waiter, SQLite
finishes a statement, a deadline that has passed is noticed), of the sweep, of
`ProcessStep` (`Shutdown` returns, the process exits) and of `Tick`. No client has to
take its rows, hang up or come, no statement has to fail, and nobody has to stop the
server. Weak fairness is enough for a waiter because the connections are given back
and, with one use of them per request and statement, not taken again for ever.

`WebForm` assumes that each call under way is answered and its answer delivered
(weak fairness per kind of call; the browser ends a call in an answer or in an
error). What the guest does is a premise of `TryingHelps`: answering for whoever
is missing, emptying the age that was refused and not typing ages for ever, pressing
submit and reload when they are offered, and letting the answer of a reload arrive now
and then, for each press gives up the fetch under way.

## Theorems

`RsvpProofs` proves, for any number of households, guests, requests, any texts
and any answers the form can carry, from `TextAssumption` and `RsvpAssumption`:

* `TypeCorrect`: `TypeOK` is an invariant. It is inductive as it stands, because
  `Addressed` says which ids a request may lack.
* `SafeAlways`: `InHand`, `CateringNeedsParty` and `AgesOnlyForChildren` are
  invariants (`NoAdultAges` states the last by itself). None of the last two is inductive alone: a save writes what it
  computed earlier. The invariant `Safe` adds what a request holds before it
  writes (`SavePrepared`: normalised members, justified seats; `DraftPrepared`:
  an unanswered guest without an adult's age). The commit step then only has to
  show that the columns it writes carry the prepared values, and for ages that
  the CHECK refuses what the interleaving spoiled.
* `SeatsJustifiedAfterSave`: `SaveLeavesSeatsJustified`, from the same invariant:
  `SaveAnswerApplies` makes the prepared members a subset of the living ones, and
  seats justified by a subset are justified by the whole.
* `AdditionAlwaysMakesTwo`: `AdditionMakesTwo`, from the count inside the
  transaction and the fresh id.
* `LateWritesAreHonoured`: `LateWritesAreOurs`. The invariant (`Dated`) is that a save
  of the household, wherever it stands, carries the moment it was received at, and
  that this was before the deadline.
* `LogIsTrue`: `AuditFollowsCommit`, where no household is deleted. A guest's row then
  only goes from absent to living to removed, so what a request has still to log
  (`ToLog`) remains true until it logs it. Where a household is deleted its guests'
  ids return, and an id no longer says which guest was logged.
* `SeatsStayJustified` and `UndisturbedPatchLeavesAnswer` say when the two properties
  hold that the runs `RsvpRemoval` and `RsvpAdminPatch` refute. The members justify the
  seats at every moment, not only after a save, where the operations include no removal
  and no patch of a household: every other step leaves a household's seats and what its
  members say as they are, or the household without seats (`SeatsStand`). A patch of a
  household changes its label alone where requests come one at a time, or where nothing
  stores an answer or deletes a household meanwhile (`Undisturbed`): the seats it has in
  hand are then those that are stored (`Fresh`). Removals and patches, and an answer or
  a deletion between a patch's read and its write, are therefore the only causes.

`AnswerBookProofs` proves of the book alone, for any households and guests:

* `BookKept`: `SheetsOK`, `SheetsConsistent` and `ListPromises` are invariants, the
  three together inductive, by one step per act.
* `BookRemembers`: `SaidStaysSaid`.

`RsvpProofs` proves that `Rsvp` implements it (under `RsvpBook`):

* `RsvpKeepsTheBook`: `KeepsTheBook`. A step that commits nothing leaves `Sheets` as
  it is; each step that commits is one act, shown per action (`Save...`,
  `AddPlusOne...`, the admin's). The invariant it needs is `Keeping`, the conjunction
  of `Safe`, `Housed` (a stored guest's household exists), `SeatsApart` (a row never
  wants seats in both directions), `Ready` (a prepared answer says something of
  everybody in it, and its seats are apart) and, while the hosts leave the list
  alone, `ListInv`: the list is the invited plus companions, a prepared answer is
  about everybody invited, a prepared removal about a companion.
* `GuestsAreHoused`: `GuestsHaveHouseholds`, which is `Housed`.
* `HouseholdPromises` and `EverybodyAnswered`: `AtMostOneAddition` and
  `AnsweredMeansEverybody` while the hosts leave the list alone. They are not proved of
  the requests again: `BookKept` holds of the book the refinement maps to.

`MigrationProofs` proves, for any processes and any releases, from
`MigrationAssumption`:

* `MigrationTyped`: `TypeOK`, which says that a process is in a transaction exactly
  if it is the writer, so at most one is.
* `RecordedAlwaysDone` and `NeverServesHalf`: `RecordedIsDone` and
  `NeverHalfMigrated`. The difficulty is that `applied` is read before the
  transactions. `InHand` carries what is left of that reading: every file of the
  binary is applied or pending (others can only add to `applied`; what takes from
  it, a power failure, takes every process with it), and at the commit the
  version is not recorded yet, because it was checked inside the transaction and
  nobody else can commit. `IInv` is the conjunction of the four.
* `SchemaGrowsScriptByScript`: `SchemaGrowsByReleases`, the whole history of the schema
  for releases of any shape. It changes by one script that runs, is new and has every
  earlier script of its release before it (`OneScriptMore`), or it loses its end. The
  invariant adds what a process executes: a sound file, the first of those it has still
  to do, of a readable release (`Prepared`).
* `ScriptsInVersionOrder`: `InVersionOrder`, where releases grow at the end
  (`GrowAtTheEnd`: of two readable releases, what one has below a version of the other
  the other has too; those of the run do). The scripts are then taken from an ordered
  directory one by one, but by processes of different releases, each with what it read
  before. The invariant adds that `applied` lacks nothing a release has below what is
  applied (`Gapless`); a power failure takes a suffix and leaves that. Without
  `GrowAtTheEnd` a release may bring a script older than one already applied, and the
  code applies it then.

`SessionsProofs` proves, for any browsers, households, codes, lifetimes and requests in
flight, from `SessionsAssumption` (a household's session is refreshed at least once
within its lifetime, and the first households have different codes):

* `SessionsTyped`, `AdminSessionsAlwaysEnd` and `UsedSessionsReach`: `TypeOK`,
  `AdminSessionsEnd` and `RollingReach`. A request writes to a row it read some steps
  ago, and the row may have gone or been refreshed since. `RequestOK` says what is left
  of that reading (`Follows`: the row is gone, or belongs to the same subject and was
  last refreshed hardly earlier than the request began), `TablesOK` what holds of each
  row. A step keeps both because it leaves a row, removes it, or changes it without
  taking it back (`RowsKept`), which is all the other requests need.
* `NoRevival` and `SessionsEndForAReason`: `RevokedStaysRevoked` and `EndsForAReason`,
  from the same invariant and from what each step may remove.
* `OrphansStayNobody`: `OrphansAreNobody`, where no household is created. The invariant
  adds that the household of a marked row is gone, for rows and for what requests have
  read of them. With creation it does not hold, because an id may return.
* `ReissueAlwaysRevokes`: `ReissueRevokes`, where no request dies. The invariant adds
  that an unmarked row has its household; the reissue then stays under way until the
  very step that removes the row. With `MayDie` it does not hold: a reissue that ends
  between its two statements leaves the sessions (see the hazards).
* `SessionsHaveOneBrowser`: `OneBrowser`. An id goes from the login that issued it to one
  browser's cookie and into that browser's requests (`PassesOn`), and a new id is held by
  nobody. With it, "its own browser" in `EndsForAReason` is one browser.
* `CookiesEndInTime`: `CookieWithinSession`, what is left of the property that the run
  `SessionsCookie` refutes. A cookie keeps the lifetime its session was issued with and
  the row is only extended, so the cookie never outlives the row, and an admin's ends
  with it. A refresh writes a moment it read earlier; the invariant `CookieInv` adds
  that this is not before the session was issued, and what a login's answer on its way
  carries (`Carries`).

`RateLimiterProofs` proves, for any addresses, requests, limit, window and waits for the
mutex, from `LimiterAssumption`:

* `RefusalsEndAsTold`: `RefusalEndsAsTold`. What a refused client was told reaches to
  where the first failure of its address ages out (`Told`). A request of the same
  address may prune and charge the list meanwhile; as long as the address is limited
  it leaves the list as it is (`Replaces`), because pruning finds its first entry
  recent and the cap refuses another, and time moves the wait and the age together.
* `SilentKeysGoAlways`: `SilentKeysGo`. Every list holds an entry as recent as the last
  sweep made sure of (`Recent`), with whatever clock the sweep was done.
* `LimiterTyped` and `RefusalsAreEarned`: `TypeOK` and `RefusalIsEarned`. The map and the
  history `failed` know nothing of each other: a list is pruned, capped, swept and
  charged later than the answer was given, and two requests may be charged in the other
  order. The invariant is an account (`Accounted`): each entry of the list, and each
  request that is about to be charged, has an entry of the history to itself, of the same
  age. Entries of the list are out of order by no more than a request may wait
  (`Ordered`), so where a list is full and its first entry is recent, all of them are,
  and the account is an injection of `Limit` places into the failures of the window.
  For that the history has to reach back as far as the window and twice the wait, which
  `LimiterAssumption` asks of `Memory`.
* `OverrunsAreBounded`: `OverrunIsBounded`, from `Budget`. While the list is full nobody
  is let in without making room first, and whoever filled it is not at the handler; so,
  for each age, the failures up to it are fewer than N for each entry of the list up to
  that age and a wait, and N more, counting those at the handler while the list is full
  and leaving out those about to be charged while it is not. A charge that finds the
  list full changes nothing, and one that does not takes a place. The wait is in it
  because the entry that takes a place may be that much older than the failures it
  stands for: the attempt to prove the bound for the whole window failed there, and TLC
  found three requests, a limit of one, a window of two ticks and a wait of two to
  exceed it by one.

`AlgorithmsProofs` proves the properties of `Algorithms`, for any set of questions about
any ids, addresses, proxies and characters, from `QuestionsAssumption` and the
assumptions of the three modules: `MatchesAreExact`, `RequestsAreAttributed`,
`CodesAlwaysReadBack` and `CollisionsAlwaysRetried` (`MatchIsExact`,
`AttributedToClient`, `CodesAreReadBack`, `CollisionsAreRetried`). A question stays the
one that was asked (`AskedOnce`); the rest is the functions':

* `MatchingIsExact`: `ExactMatch` of `MemberSet`, for submissions and households of any
  length. `SaveApply` accepts a save whose ids are the members; this is why the loops of
  the code, which compare two lengths and look one list up in the other, amount to
  that. The loop pairs what it has seen so far, or has met an id twice (`Paired`, by the
  least round at which it would not), and two finite sets of one size of which one
  contains the other are the same.
* `ClientsAreAttributed` and `LeftIsIgnored`: `AttributedTo` and `LeftHasNoSay` of
  `ClientAddress`, for any header, any entries and any number of our proxies, from
  `ClientAddressAssumption`. What the loop finds is decided by the rightmost entry that
  stops it (`RightmostDecides`), and with a client that is no proxy of ours this is the
  client itself, for everything to the right of it was appended by our proxies.
* `CollidingCodesAreRetried`: `CollisionsRetried` of `LoginCode`, whatever is drawn and
  whatever is taken. `AssignNewCode` of `Sessions` stores some code no other household
  has or none; this is what the five rounds of `withGeneratedCode` come to.
* `CodesAreFound` and `CodesAreEvenlyDrawn`: `ReadBack` and `EvenlyDrawn` of `LoginCode`.
  The first is about the six bytes of any draw
  and inputs of any length: `TypedFor` says which inputs type a code from the card (its
  characters in order, in either case, and separators anywhere), by the number of
  characters so far that are no separators (`Place`); what `NormalizeCode` has written
  after n characters is as much of the code as they have places (`Copied`), or there
  would be a first n where it is not. From `LoginCodeAssumption` it takes that a
  character of the alphabet is its own upper case. The second pairs the bytes of one
  remainder with those of another.

`ServerProofs` proves, for any requests, pools and deadlines, from `ServerAssumption`:

* `NoConnectionIsLost`: `TypeOK`, which says that `held` is exactly who executes a
  statement and stays within the capacity. That is shown once for a request that moves
  alone (`OneMoves`) and cited per action.
* `HandlesOutlive`: `HandlesOutliveRequests`. It needs that nobody is served before
  the process listens (`QuietBefore`). It speaks of a shutdown; a listener that fails
  closes the handles under whoever is being served.

`WebClientProofs` proves, for any households, first member lists, guests, scopes, directions,
logins and disturbances, from `WebClientAssumption`:

* `WebClientTyped`: `TypeOK`, which says of a mounted form that its cards are those of the
  cached answer. The invariant `IInv` is a conjunction of three: the stored answers and
  the guests (`ServerOK`), the cache and the form (`ClientOK`), the calls under way
  (`CallsOK`). A call has a session that was once issued and a response of the kind it
  was sent for, from whichever household the browser was logged in to then; its answer
  may be older than the cache, and the form may have been left and opened again. The
  server lists members by id, so the lemmas about `Nth` say that the i-th least id
  exists, is unique, and that listing loses nobody.
* `NobodyIsEverDeclined`: `NobodyIsDeclined`. What anybody is said to do, in a stored
  answer, a cached one, a draft or a response, is one of the `Scopes` or open
  (`Sayable`); a request has no open answers (`Asked`), for `missingAnswers` keeps
  `Submit` from sending a draft that does, whoever has appeared in the form since it was
  opened.
* `TypedAlwaysSurvives`: `TypedSurvives`, by what each action makes of the draft (`Kept`):
  a render that re-seeds it takes over the members both answers have, with their scopes
  and their ages.

Where a function is written by recursion its proof does not use an induction theorem,
which takes a predicate as a parameter, but the least number at which the claim would
fail (`LeastNumber`, from the well-foundedness of finite subsets).

Only model-checked: liveness (`LimitExpires`, `RestartsComplete`, `TryingHelps`,
`EveryRequestEnds`), which is out of the prover's reach.

## Not modelled

Of the web client everything but the guest's RSVP form: rendering, labels, and the
pages that only show what a query answered. Columns and quoting of the CSV.
Request decoding, field messages and response shapes, security headers and
request ids: functions of one request that keep no state. Configuration is read once
before anything starts. The contents of the migrations; photos and
seating (tables without code). The answer sent back by a save (`answerFor`), which is
read again after the commit. See `components` in `PROJECT.json`.

## Plan

1. `Rsvp` with `Domain`, its runs and its first theorems, then `Sessions` and
   `RateLimiter` (done).
2. Pure functions against a reference (`MemberSet`, `ClientAddress`, `LoginCode`)
   and `Migration` with its theorems (done).
3. `AnswerBook`: what a household is promised about its answer, implemented by
   `Rsvp` under a refinement mapping (done, and proved).
4. `WebClient`: the draft and the query cache against a server that changes
   (done for the guest's form; the change of household on one browser is next).
5. The retry of `withGeneratedCode` and the process with its pools, `Server` (done).
6. The answer sent back by a save, whose two reads may straddle another commit; the
   audit of updates.
7. Proofs of `Sessions`, `Server`, `RateLimiter`, `WebClient`, of the log and the late
   writes of `Rsvp`, of the order of the scripts, and of matching, attribution and the
   codes for every input (done); and the bound of the overrun, which its proof
   corrected (done); the properties of `Algorithms` as theorems of it, and the
   conditions under which the refuted properties hold (done); whose a session is, how
   long a cookie lives, and the history of the schema (done). What is left to prove is
   liveness, which needs another prover.
