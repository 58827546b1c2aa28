# TLA+ models of the homelab services

This directory holds TLA+ models of the programs in this repository that keep
state, the TLC configurations that check them on small instances, and proofs
that TLAPS checks for every size of instance. The source is the reference:
every definition that models code is mapped to its lines in `PROJECT.json`.

## 1. Inventory

### The programs and the state they keep

| Part | Code | State | Operations |
|---|---|---|---|
| Filter store | `jellylab-push/filters.mjs` 265-382, PUT route in `index.mjs` | `content-filters.json`, its `.tmp`, the promise chain `contentWrites` | `loadContent`, `withPersonChange`, `setPersonFilters` |
| Filter sync | `filters.mjs` 384-606, `index.mjs` 1586-1650 | `filterSyncBusy`, `filterSyncAgain`, the keyword cache; in Jellyfin: item tags, users' `BlockedTags` | `runFilterSync`, `syncContentFilters`, `titleKeywords`, the timer |
| Guard's store copy | `seerr-guard/guard.mjs` 236-287 | `storeState` | `currentStore`, `putStore` |
| Guard's verdicts | `guard.mjs` 289-387 | `verdicts`, `inflight`, `active`, `waiting`, the cache file | `lookup`, `limited`, `ensureVerdicts`, `verdictOf` |
| Guard's requests | `guard.mjs` 389-626, 853-921; `filter.mjs` | `sessions`, `usersById` | one handler per route class, canary |
| Downloads | `jellylab-push/index.mjs` 204-907 | `VERDICTS` and what to ask next | the merged queue, `unfulfilled`, `sweepOne` |
| Cancel, monitor | `index.mjs` 907-1045, 1443-1507 | none of its own; Sonarr's and Radarr's | `cancel`, `setMonitored` |
| Pushes for events | `jellylab-push/notify.mjs` | batches with timers, `STUCK_SEEN` | `handleArrEvent`, `flush`, `flushAll` |
| Late requests | `jellylab-push/stale.mjs` | the notified file, `lastPercent` | `findStale`, `check` |
| VPN guard, disk guard | `scripts/vpn-guard.py`, `scripts/disk-guard.sh` | a state file; running containers | `check`, `full_restart`, `main` |
| Torrent guard, import watcher, searches | `scripts/torrent-guard.py`, `import-stuck.py`, `search-missing.py` | seen files | one pass per timer |
| Home watch | `relay/home-watch.sh` | an up/down state file | one pass per timer |
| Backups, administration scripts | rest of `scripts/` | files | run by hand or nightly |

### How they interact

`seerr-guard` sits in front of Seerr and decides, per person, what may be seen.
It reads the filter store's file and never writes it: a change made through
Seerr's settings is sent to `jellylab-push` (`PUT /filters/content/:id`), the
only writer, which replaces the file by rename. `jellylab-push` itself reads the
store on every sync and makes Jellyfin agree with it. Both ask Seerr for the
keywords of titles. The pushes, the cancel button and the late request check
talk to Sonarr and Radarr; the host scripts are started by timers and share
containers (`vpn-guard.py` and `disk-guard.sh` both start and stop qBittorrent).

### What is hard

Everything in the two services is one thread, so the hazards lie at the awaits:
what was read before one and is used after it, several requests inside the same
function, an error that leaves a function half way, a restart between two
steps, timers that fall in the middle. The files are read by another process at
any moment. The scripts add overlapping runs and lost state files. The full
list, each at its line with the properties that would catch it, is under
`hazards` in `PROJECT.json`.

### What makes each part correct

* Filter store: no accepted change is lost, applied twice or out of order; the
  file is never half written; one failure takes no turn from the changes behind
  it.
* Guard's copy: it converges on the file, never files an old document under the
  new mtime, and a saved setting is visible in its own answer.
* Filter sync: a pass never uncovers a title that Seerr knows and that stays
  hidden, ends in agreement with the store, leaves foreign tags alone, and every
  change is carried in the end.
* Verdicts: at most one lookup per title in flight, a bounded number at once,
  nobody waits for ever.
* Requests: without a store, a user or a verdict the answer is "hidden"; no
  lookup keeps a request waiting beyond its budget; a permission counts for as
  long as an account is remembered and no longer.
* Sweep: every wanted title is asked about in turn; one that is wanted keeps its
  verdict, one that is not loses it.
* Cancel: what was cancelled is not looked for and not in the queue any more, and
  nothing else is touched.
* Pushes and late requests: nothing is announced twice, what was gathered is
  sent, and nothing is said too early.
* VPN guard: repairs keep their distance and their number although runs overlap,
  none follows a single bad look as long as docker says how old gluetun is, and
  in the end the tunnel is mended.

## 2. Plan

In order of what matters most to the people who use the system, all done:

1. `FilterDocument`, `FilterRegister` (abstract), `ContentStore`: the store and
   its refinement, with proofs.
2. `GuardStore`: the guard's copy of the store, with proofs.
3. `FilterSync`: the sync to Jellyfin, with proofs.
4. `GuardRequest`: the handlers with the verdict cache, the in-flight table, the
   limiter and the budget, and the proof that nothing hidden is shown.
5. `VerdictSweep` and `CancelDownload`: the sweep's turns, its race with a
   cancel, the read-modify-write of a monitored series, the paged queue;
   `Downloads` puts them side by side, with proofs.
6. `NotifyBatches`, `StaleRequests`: at most once, at least once, and restarts;
   `Pushes` puts them side by side, with proofs.
7. `GuardAccess`: whose request it is and what they may change, with proofs.
8. `VpnGuard`: overlapping runs of the VPN guard, its state file and the disk
   guard, with proofs.

What could follow: the guard's verdict cache as a file (`saveCache`),
`torrent-guard.py` with its seen file, `home-watch.sh`, and the order of stops
and starts in `backup.sh`. The scripts are one sequential process each.

Components that share nothing are checked in one run: the module for TLC has a
variable `part` that each initial state sets, one component moves and the others
stand still, so their state spaces add up instead of multiplying. `Downloads`
has `CancelDownload` and `VerdictSweep` side by side, each with its own
variables, and `MCTitles` sets them going so; `Pushes` and `MCPushes` do the
same for `NotifyBatches`, in two halves, and `StaleRequests`, and
`MCGuardRequest` for three instances of one module. The fairness of such a run
is each component's own, while it is the one that moves.

Instances stay at two or three people, titles, callers or runs: every hazard
listed needs at most two actors inside a function and one more event outside.

## 3. The modules

### FilterDocument, FilterRegister, ContentStore

`FilterDocument` holds the pure operations on the store's document.
`FilterRegister` says what the store promises: changes accepted are applied one
at a time, in order, each to the document the previous one left, and a caller
told "ok" has had its change applied exactly once. `ContentStore` is the code.

| Model | Code |
|---|---|
| `disk`, `tmp` | `content-filters.json` and the one `.tmp` beside it |
| `contentWrites` | the promise chain, as the requests not yet settled |
| `pc`, `loaded` | where each call of `setPersonFilters` is, and the document it built |
| `Reject`, `Enqueue` | the id check and `contentWrites.then(...)` |
| `Load`, `StartWrite`, `FinishWrite`, `Rename` | the awaits inside the chained function |
| `Fail` | any of them throwing; `run.catch(() => {})` lets the chain go on |
| `Answer` | the PUT handler after its await |
| `Restart` | the process dies: files stay, the chain and its callers do not |

Run `ContentStore`: two requests over two people and two keywords, every pair of
asks out of six that set, clear and combine fields or name a bad id, starting
from every tidy store. Two requests are enough for a lost update, a shared tmp
file and a failure before another change; with three the graph only gets longer
chains of the same steps. Fairness: the next step of a request that is running
(`WF`), because a file operation or a promise callback completes; no failure and
no restart is assumed to happen. Without the `catch` on the chain the changes
behind a failed one would all be answered with its error and never tried, so
`EveryChangeIsTried` asks for more than an answer: every change accepted gets
its turn, and is settled after it.

### GuardStore

| Model | Code |
|---|---|
| `file` | a version, which is also its mtime, and whether it is whole, broken or missing |
| `storeState` | the variable of that name; `age` is the time since `checkedAt`, capped at `STORE_RECHECK_MS` |
| `call` | the local state of each request inside `currentStore` and `settingsResponse` |
| `replaced`, `call.window` | history variables: which documents were in the file lately |
| `UseCopy` ... `IoError` | the paths through `currentStore`, one action per await |
| `Put`, `PutStored`, `PutFails`, `PutReturns` | `putStore` and the read back |
| `Tick`, `FileChanges`, `Restart` | time, another writer, the guard's own restart |

The model assumes that each write changes the file's mtime. Run `GuardStore`
(two callers, a window of one tick, three versions) checks that the copy is
never filed under the wrong mtime, that a saved setting is read back, that a
request which looks while no other does hands out nothing older than the window
(`FreshWhenAlone`), and that the copy catches up. `GuardStore_stale` shows that
`FreshWhenAlone` does not extend to two callers (section 5). Fairness: time
passes, each await completes (`WF`), and some request arrives again and again
when a caller is idle (`SF`), which is what the canary monitor and page views
do. Three versions allow an old document, a newer one that arrives between stat
and read, and one after the install.

### FilterSync

| Model | Code |
|---|---|
| `hidden` | the store, as `hiddenIdsFor` of everybody |
| `tags`, `blocked` | the markers on Jellyfin's items, everybody's `BlockedTags` |
| `busy`, `again` | `filterSyncBusy`, `filterSyncAgain` |
| `run` | the local state of `syncContentFilters`: what it read, what it has still to do |
| `cached` | the items with an answer in the keyword cache |
| `byHand` | history: what an administrator last blocked by hand |
| `Tick`, `Save` | the timer or `POST /filters/apply`, and the PUT route |
| `LoadContent` ... `Policy` | the steps of a pass, one per await, in the code's order; the calls inside one loop may come in any order |
| `LookUp`, `LookUpGone`, `LookUpFails` | `titleKeywords`: an answer, now or remembered; a 404, now or remembered; a failure with nothing remembered |
| `PassFails` | any await throws; `finally` only releases the run |

Jellyfin hides an item from a user who blocks one of its tags, and answers 404
to a read of an item hidden from the reader. That, the library's growth and
edits made in Jellyfin are external. `Hides`, `Readable`, `NewTitle` and
`EditByHand` model them from how the code uses them.

Run `FilterSync`: an administrator and one other person, two titles that carry
two keywords, one foreign tag, two saves, which allow a filter to be set and
then changed or removed during a pass. Fairness: the next step of a pass, since
each request to Jellyfin or Seerr is answered in the end, and the timer (`WF`).
For Seerr a timeout of 30 seconds sees to that; for Jellyfin it is an assumption,
since `jellyfin()` (167-177) sets none, and a pass left waiting keeps `busy` and
with it every later pass from starting.
`Converges` has as its hypothesis that from some moment on the store is left
alone, passes do not fail and lookups are not answered with 404; nothing is said
of how calls come to succeed.

A title Seerr answers with 404 has no keywords as far as the sync is concerned
(`filters.mjs` 432-437): its markers are taken away and it comes into sight,
although lines 471-472 say "Failing to look something up must never unhide it".
`PassEnforces` therefore speaks of the keywords Seerr gave (`Told`), and
`PassNeverUncovers` leaves out the titles it answered so in this pass (`gone`).
The guard does not share this: it hides what has no verdict. The
three runs named in section 5 use smaller instances of the same module.

### GuardRequest

| Model | Code |
|---|---|
| `filters`, `storeOk` | what `currentStore` answers at that moment, as `hiddenSet` of each account |
| `verdicts`, `expired` | the map `verdicts`, and which entries are past their ttl |
| `fetching`, `waiting` | `active` as the set of lookups that hold a slot, and `waiting`; together `inflight` |
| `req` | the local state of each `handle()`: who asks, the titles to decide, `ctx.hidden`, the lookups awaited |
| `due` (in `req`), `shown` | history: what the store hid from the caller when asked, and what the caller saw |
| `Identify` ... `Filtered` | `handle()`, down to `makeHider` |
| `List`, `Detail`, `DetailWithoutKeywords`, `UpstreamFails` | `fetchUpstream` and what follows it in `listResponse` and `titleResponse` |
| `Ask`, `BudgetOver`, `Decide` | `ensureVerdicts` and `titleHidden`, and the decision after them |
| `LookupAnswers`, `LookupFails` | `lookup` with `limited`'s `finally` |
| `Restart` | the process dies and comes back with any part of the verdicts |

A request is one of four kinds. A *list* is filtered row by row: lists,
collection pages, and `singleResponse` as a list of one row. A *gate* is decided
by the one title in its path or body before Seerr sees it: pages and creation. A
*sub* is a gate and then a list, a *detail* names its own keywords.

A slot is freed and given to the waiter in one turn of the event loop, because
nothing the releasing turn wakes is queued before the waiter's continuation; so
`Release` does both. Whatever `currentStore` answers is the truth of that moment
here; how its copy ages is `GuardStore`'s subject. Keywords of a title do not
change: `KeywordsOf` is a constant.

Run `GuardRequest` has one lookup slot and three instances. *one*: a single
request of a filtered manager (who is let through when there is no store), a
child or nobody, about two titles, while store, filters, verdicts and restarts
do what they like. *shared*: two requests of the child, whose lookups are shared
and contended. *queue*: a request with three titles, so that two lookups wait
for the slot. Fairness: a request's next step is taken (`WF`) where the code
bounds the wait, which is at the caller's lookup and at the budget of
`ensureVerdicts`. The call to Seerr itself (`fetchUpstream`, 154-190) has no
timeout, so no fairness is assumed of it, and `EveryRequestIsAnswered` leaves
out a request that waits there for ever. Nothing is asked of the lookups, which
is the point of the budget; `QueuedGetsASlot` has as its hypothesis that lookups
end (`LookupsEnd`, the ten second timeout), well or badly.

### GuardAccess

| Model | Code |
|---|---|
| `power`, `signedIn` | Seerr's accounts and sessions, which change at any moment (external) |
| `cache` | `sessions` and `usersById`, with the age of each entry |
| `store` | what `jellylab-push` keeps of each person |
| `call` | the local state of `handle()` and `settingsResponse`, and what Seerr, once asked, is about to answer |
| `since`, `call.held`, `call.managed` | history: when Seerr last said what of an account |
| `UseRemembered`, `Ask`, `Told`, `NotTold` | `resolveUser` and `userById`: the cached entry, the fetch, its answer, its failure |
| `Known` | what `handle()` does with the answer, at the gate for relayed requests and after it |
| `Forward`, `ForwardFails`, `PutStored`, `PutFails` | the POST of settings: to Seerr first, then to the store |
| `RelaySignIn` | `relaySignIn`; it changes no state of the guard |

An answer is what Seerr knew when it was asked and may come up to `Patience`
later, so answers about one account can arrive in the wrong order and an older
one can replace a newer one in the cache. `HomeOnly` and `ChangedByRight` bound
what that can do: an account is taken for something only if Seerr said so less
than `Ttl + Patience` before, 65 seconds. Run `GuardAccess`: an account whose
permission to manage users comes and goes and a child without permissions, three
kinds of request through the relay and not, by session and by API key, two at a
time, a cache with room for one entry. `MCNext` leaves the child's permissions
and session alone; the proofs do not. Whether a request came through the relay
(`viaRelay`, `isPersonal`) is an input. How a caller is found when Seerr cannot
be asked for the subject of a change: as in the code, the change to the filter
is then dropped ("no Jellyfin account to key it by"), although the subject may
well have one.

### CancelDownload, VerdictSweep, Downloads

| Model | Code |
|---|---|
| `monitored`, `grabs` | Sonarr's flags, and what it has grabbed that is not in the queue yet |
| `queue`, `rowOf` | the queue as the numbers of its rows, which it lists in their order, and what each row is of |
| `call` | each `/cancel` or `/monitor` in progress: the series it read, the page of the queue it is at, the rows it found |
| `Locate`, `Read`, `Put` | `localId` and `setMonitored`, a read and a write of the whole series |
| `List`, `Kill`, `Wait` | `wholeQueue` page by page, the removal, and the three seconds before the second sweep of the queue |
| `verdicts`, `file` | `VERDICTS`, as the place of each title's answer among them, the oldest first, and the file |
| `sweep` | the local state of `sweepOne` at each of its awaits |
| `Changes`, `Forget`, `forgetting` | a `/cancel` or `/monitor` of all or part of a title, after which it may still be wanted, and the deletion of its verdict that follows |
| `doubt` | history: titles that were unwanted, downloading or not listed at some moment of the sweep |

`Wait` assumes that a grab in flight is in the queue within three seconds, as
the code does. `CancelHolds` exempts a request that read the series before the
cancel's write and puts it back after it (`setMonitored` writes whole series, so
it resumes what was cancelled), and rows that move between two pages of the
second listing, one of which no page shows. It also rests on the queue fitting
the pages that are read, ten of 200 rows (`wholeQueue`). The comment at
`index.mjs` 980-982, "the half that makes this hold rather than merely pause",
does not consider the first. `OnlyGoneAreForgotten` exempts the titles of a
service that answered a listing with an error status: it then lists nothing and
the purge drops their verdicts. It and `AskedInTurn` also speak of TMDB numbers
where one would expect titles: TMDB numbers films and series apart, `byTmdbId`
and line 700 drop the type, and so a film that downloads hides the series of the
same number and has its verdict deleted, which line 704 comments with "arrived,
or was removed".

Run `Titles`: two requests in all, which overlap as they like, on a title with
two seasons and one that is not tracked, two queue rows on pages of one, one
departure; and a film and a series with verdicts. Pages of one make a second
page with two rows; the code's limit of ten pages is not reached. Fairness of
the sweep: its next step (`WF`, every call has a timeout and the timer starts
the next), a series gets as far as its question and each question is answered
now and then (`SF`), a pending deletion happens (`WF`). `AskedInTurn` and
`UnwantedIsForgotten` have hypotheses about states: from some moment on no
sweep is cut short and no listing refused, the titles and queues stay and no
verdict is waiting to be deleted by a request. They are
not hypotheses about actions, which a run may satisfy by never getting there.
`AskedInTurn` is for titles whose questions are answered now and then
(`Hopeless = {}`): one that never is keeps its old answer, is asked first every
time and starves the others, although `index.mjs` 587 says "Fifteen
unfulfilled titles are covered in fifteen minutes". The film and the series of
the run have numbers of their own; the proof of `OnlyGoneAreForgotten` does not
need that.

### NotifyBatches, StaleRequests, Pushes

| Model | Code |
|---|---|
| `batches`, `first`, `timers` | the map `batches` of `notify.mjs` and its timers |
| `pushes` | posts to ntfy on their way |
| `seen`, `call` | `STUCK_SEEN`, and films and stuck imports being handled |
| `phase`, `Stop`, `Exit`, `Kill` | the signal handler with `flushAll`, and a crash |
| `Ranges`, `Message` | the episode numbers in a push, as ranges season by season |
| `notified`, `lastPercent` | the file of `stale.mjs`, and its memory of progress |
| `run`, `view` | a tick of `check`, page by page of Seerr's list, and a `GET /stale` |
| `available`, `obtained`, `Missing` | what Radarr and Sonarr say: `isAvailable`, and the parts that have arrived |
| `told`, `excused`, `ticked`, `posted`, `ended`, `kept`, `said`, `cleared` | history |

Exceptions the properties name: `StopFlushes` is about the episodes still
gathered when the signal comes: the process ends only after their pushes are
over. The comment at `index.mjs` 1514-1515 promises no more than that, but two
kinds of accepted episodes are lost with the process: those that come while the
last pushes are sent (the server listens on, and there is no second flush), and
those whose timer fired just before the signal, since `flushAll` waits only for
the pushes it starts itself. `StuckOnceADay` leaves out ids announced before the
table was emptied at its limit or before the service was started again.
`ToldOnce` leaves out a record that was lost before it was saved, could not be
read, or was dropped because Seerr's pages moved while they were read.
`SlowIsNotDead` leaves out a look of `GET /stale` since the last tick, since
that moves `lastPercent` too and the code then does tell a request whose
download has moved. A push that fails is logged and not sent again, so "sent"
means posted once. `Ranges` says what the loop of `ranges` results in, not how;
a push about an episode without a number, which the code writes as "?" (line
235), is left out.

Run `Pushes`: three episodes of one series, two of them neighbours, and one of
another with a number they share; three download ids with room for two marks; a
film and a season on two pages of Seerr's list of one row each, three days. Of
the two requests one at a time changes outside Seerr, the film also by being
called available or no longer.
Fairness: time passes, a timer that is due fires, posts and calls end (`WF`);
the timer of `staleTick` and the steps of its tick (`WF`). `LateIsTold` has the
hypothesis that from some moment on ticks are not cut short.

### VpnGuard

| Model | Code |
|---|---|
| `tunnel` | gluetun and qBittorrent: what is wrong, who is in the present network namespace, whether qBittorrent runs |
| `file` | `.vpn-guard-state.json`, with the ages of the repairs instead of their times |
| `run` | each process cron started: its copy of the file and where it is |
| `Begin` ... `Probe` | `load_state` and `check` |
| `Leak` ... `Repair` | the cases of `main`, in its order |
| `NotYet`, `OldEnough`, `run[r].blind` | the question how old gluetun is: young, old enough, or not answered by `docker inspect`, which counts as old enough |
| `RestartVpn` ... `Report` | `full_restart` command by command, and what follows |
| `DiskGuard` | `disk-guard.sh` |
| `troubles` | the bound on everything that goes wrong, failed commands included |
| `repaired`, `seen` | history: repairs of the last day, and the last two looks |

A tick is five minutes, the cooldown four of them. The longest a repair takes is
an assumption, two ticks passing: its three restarts with their timeouts and its
two waits add up to 14 minutes. The probes in between are not counted; should
every one of them time out as well, a repair can take a few minutes longer. Run
`VpnGuard`: two processes, two repairs a day of nine ticks, four troubles:
enough for a repair that fails, a run that overlaps it, and a fault after that,
or for a strike that outlives a good look and then meets a failed `docker
inspect`. Any command may fail: the stop after a leak, the restarts, the port
push, and the question whether qBittorrent runs, in which case it counts as
stopped. Fairness: time passes and each command of a run ends, by its timeout if
not otherwise (`WF`). The bound on troubles makes a calm end certain, which is
what `Mended` asks about; it exempts a qBittorrent that somebody stopped.

Known limits of the script that the model shows and no property rules out:

* Giving up is announced once and the mark is removed only by a successful
  repair (lines 302-306, 325). An outage that heals by itself after the limit
  leaves the mark, and the next time the limit is reached nobody is told. The
  docstring says "past that it only notifies".
* `full_restart` starts a qBittorrent that the disk guard stopped after the run
  looked. The docstring says "restarting it would undo that".
* With an unhealthy gluetun nothing else is asked, so a leak is not looked for.
* `SecondLook` leaves out a run to which docker does not say how old gluetun is
  (lines 274-275). A strike left by a run that was cut off after a good look is
  kept from counting only by `SETTLE_S`, which such a run skips; one bad look is
  then enough. "It has to be seen on two runs in a row" does not hold there, and
  with four troubles TLC finds the sequence as soon as the exemption is dropped.
* A restart that fails goes unnoticed unless the second look shows it, and
  Prowlarr and FlareSolverr are never looked at.

## 4. What is proved

`ContentStore_proofs` proves, for any people, keywords, requests and asks, the
invariants of the run and the refinement. The inductive invariant is
`TypeOK /\ ChainSafe`: `NeverHalfAFile` is not inductive alone (a rename would
install whatever is in `tmp`), it needs that only the head of the chain runs and
that a finished tmp is what the head built; the refinement step for `Rename`
needs in addition that what the head built was built from the document still in
the store (`BuiltOnTheStore`). The assumptions are `AdultTagsAssumption`,
`ContentAsksAssumption` (a call asks for something of the right shape, strangers
are not people) and `FileAssumption` (half a file and no file are not documents).

`GuardStore_proofs` proves `TypeOK`, `Coherent`, `EchoShowsTheChange` and
`FreshWhenAlone` for any number of callers, any window and any number of writes.
The inductive invariant adds to each call what its own stat and read can have
found: the stat is not newer than the read, neither is newer than the file, and
equal versions are equal files. `FreshWhenAlone` needs more (`FreshInv`): every
document that some call may still be shown is known by its version
(`OneDocument`), a call that has seen a version has been there for all that came
after it (`LooksKnow`), and the copy is as young as it says or the call that made
it say so is still looking (`CopyFresh`). The second half of `CopyFresh` is what
`GuardStore_stale` exploits, and what "alone" excludes.

`FilterSync_proofs` proves the type invariant and four properties of a pass for
any people, titles, markers and number of saves. The invariant `PassInv` follows
the pass: what `run` holds at each step has the shape that step needs
(`PassShape`), every marker on an item or in a policy is one the pass can tell
from a foreign tag (`MarkersKnown`), an item already stamped carries what it
should and one still to stamp what it did (`TagsKnown`), and the librarian's own
markers are off while items are read (`LibrarianLifted`). What an item should
carry is what Seerr said of it, which is nothing after a 404; no title answered so
is meant by `NothingIsUncovered`. None of the properties is
inductive alone: that a policy call uncovers nothing depends on the stamping
before it. `HandTagsAreKept` has the hypothesis `~EditsMidRun`; without it the
property is false (section 5).

`GuardRequest_proofs` proves `NothingHiddenIsShown`, the type invariant and
`SlotsAccounted` for any accounts, titles, keywords, requests, lanes and slots.
The first invariant says that a verdict is what the title carries, that a request
being filtered is filtered by what the store hid from its caller, and that one not
yet filtered has nothing hidden; the limiter plays no part in it. The books of the
limiter (`Books`) are inductive beside it: no title waits twice or waits while it
is fetched, nobody waits while a slot is free, and what a request awaits is in
flight. The lemmas under it say what starting lookups and releasing a slot do to a
sequence without duplicates. The assumptions are `UsersAssumption`,
`TitlesAssumption`, `UnknownAssumption`, `LimitAssumption` and
`FiniteAssumption`, without which a set of lookups has no number.

`GuardAccess_proofs` proves the type invariant, `HomeOnly` and `ChangedByRight`
for any accounts, permissions, requests and times. The inductive invariant is
that what is remembered of an account was said by Seerr at most `Patience` more
ticks ago than the entry is old (`RememberedLately`), and the same of an answer
on its way (`AnswerIsLate`). The order of the answers does not matter to it,
which is why an old answer that replaces a newer one does no harm beyond the
window. `ChangedByRight` needs in addition by what right a request got as far as
the store (`IsIdentified`, `IsEntitled`). Assumptions: `TimesAssumption` (a
session without an account is remembered no longer than one with), the types of
accounts and asks, and that only relayed sign-ins are kinds of their own.

`Downloads_proofs` proves `OnlyItsOwn`, `CancelHolds` and
`OnlyGoneAreForgotten`, with the type invariants, for any titles, seasons,
requests in progress and bounds. The argument for a cancel follows one request.
It stops what it is about, but for what others interfered with (`ToStop`). Once
its series is put back nothing of that is monitored (`Stopped`); the wait leaves
none of it on the way to the queue (`Landed`); the second listing has found what
stands on the pages it has read (`ListedSoFar`) and in the end everything
(`ListedAll`), because a row that enters stands behind all others and one that
leaves between two pages excuses the listing. `StopInv` is inductive only together
with `OwnInv`, which says that a request's copy, rows and page are of its own
title. `CancelStands` has the hypothesis `Fits`, that the rows there ever are fit
the pages read: with one row more than that TLC finds a cancelled download in the
queue, on the page nobody reads. For the sweep, `SweepInv` says that whatever is
not in the sweep's list, or is in its list of downloads, was seen to be so since
the sweep began (`Doubted`), so that the purge finds all it deletes in `doubt`.

`Pushes_proofs` proves of `NotifyBatches` the type invariant, `OnePushEach`,
`SaysWhatItHas`, `NeverPastMax`, `SentWhenQuietOrFull`, `StopFlushes` and
`StuckOnceADay`. Its invariant says that every episode is in one place
(`Accounted`), that what is gathered has a timer and nothing else has (`Timed`),
that a timer will find its series quiet or at its limit when it runs out
(`TimersTell`), and that the table of marks is right about every id it did not
forget (`Remembered`). `SaysWhatItHas` is a fact about `Ranges` and holds of every
finite set of numbers (`RangesCover`): each number has a run around it that can be
extended no further, by well-founded induction over the subsets. Of
`StaleRequests` the same module proves `ToldOnce` and `SlowIsNotDead` for any
requests, dates and pages. `OnRecord` says that what was told is in the file, or
while telling in the list that will replace it; `LastLook` that `lastPercent` is
the last tick's look unless a view came after it.

`VpnGuard_proofs` proves the type invariant, `RepairsSpaced` and `SecondLook` for
any number of processes. All runs replace the same file by copies of their own,
so the argument is about every copy: each repair of the day is in the file and in
every copy that is around (`Recorded`), a run that repairs began in the tick its
repair did (`Marked`), and only the run of this tick can still decide
(`OneFresh`). Together they say that one repair lasts at a time. A strike may be
left in the file although the last look was good, by a run that ends late or is
cut off; then a repair or a restart is too recent for the next run to act on it
(`StrikeSeen`, `BeforeLook`, `AfterLook`), unless docker does not say so
(`AfterAge`). The assumptions matter:
`Settle > 0`, and `Longest + 1 < Cooldown`, a repair is over before the cooldown
is; with the code's numbers the first holds, and the second as long as probes do
not use up their timeouts (section 3).

The type invariants of `ContentStore`, `GuardStore`, `FilterSync`,
`NotifyBatches`, `GuardAccess` and `VpnGuard` are proved and not listed in their
runs; those of `GuardRequest`, `CancelDownload` and `VerdictSweep` are both.

Every invariant and every action property that a passing run checks is proved
for all values of the constants, under the assumptions named. Only model-checked
is what TLAPS does not cover, liveness under fairness: `EveryChangeIsTried`,
`CatchesUp`, `Converges`, `EveryRequestIsAnswered`, `QueuedGetsASlot`,
`GatheredIsSent`, `LateIsTold`, `AskedInTurn`, `UnwantedIsForgotten` and `Mended`.

## 5. Where the code and its comments disagree

Four runs state what a comment or a document says and find it violated. Further
ones are described with their modules in section 3: the 404 of a lookup, the
pushes lost at a stop, the starvation by a hopeless title, the purge across
types, a cancel undone by a concurrent write, the second look that is skipped.

* `GuardStore_stale`: `currentStore` marks the copy checked before it looks, so
  requests that arrive during the first look after a quiet spell get the old
  copy, however old ("checked at most every 2 s").
* `FilterSync_queued`: a request queued behind a pass is forgotten when that pass
  fails ("queued rather than refused").
* `FilterSync_librarian`: a pass that fails after lifting the administrator's
  filter does not restore it ("restored by the policy pass at the end"); the next
  pass that succeeds does.
* `FilterSync_edits`: a tag blocked by hand in Jellyfin during a pass is
  overwritten ("left where it is").

## 6. What is not modelled

* `torrent-guard.py`, `import-stuck.py`, `search-missing.py`, `home-watch.sh` and
  the backups: one sequential process each, with a small file of what it has
  seen. Their rules are string patterns and thresholds rather than steps that
  interleave. What a stuck import causes in `jellylab-push` is in
  `NotifyBatches`.
* The guard's verdict cache as a file: in `GuardRequest` a restart keeps any part
  of the verdicts. Its internal endpoints (health, decide, canary) and shadow
  mode, which filters nothing.
* In `jellylab-push`, the routes that only read and shape (`/downloads`,
  `/candidates`, `/verdicts`), the access checks by address, `reasonFor` and the
  wording of pushes, and the legacy filter bundle.
* In `vpn-guard.py`, `--dry-run` and `--repair`, a crash in the middle of saving
  and two saves that share one `.tmp`.
* Administration and setup scripts, run once by hand, and configuration.

Inside the modelled parts, display names, log lines and the contents of HTTP
errors are left out; keywords and markers are the same value, since `markerFor`
is injective. Two writes of the filter store within one tick of the file
system's clock, which the guard could not tell apart, are excluded by
`GuardStore`'s mtime. The components with their status are in `PROJECT.json`.
