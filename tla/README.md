# gimme: a TLA+ verification project

gimme is a self-hosted CDN for versioned front-end packages. A package version is
published as a zip archive (`POST /packages`), stored object by object in an S3
bucket under `name@version/`, served by `GET /gimme/name@version/file`, where the
version may be an alias (`1`, `1.0`, `latest`), and removed by
`DELETE /packages/name@version`. Publishing and deleting need an API token, which
an administrator creates and revokes. Several nodes may share the bucket and Redis.

`PROJECT.json` holds the machine-readable side of this project: components, runs,
mutants, the map from definitions to source lines, findings, hazards, theorems.

## Inventory

| Component | State | Operations | What makes it correct |
|---|---|---|---|
| Package publishing and deletion (`internal/content/content-service.go`, `internal/storage/objectstorage-manager.go`, `api/package-controller.go`) | the bucket; per request a context, an errgroup, a channel of compression slots | `CreatePackage`, `rollbackPartialUpload`, `DeletePackage`, `AddObject`, `AddBytes`, `ObjectExists`, `RemoveObjects` | a failed upload leaves nothing; 201 and 204 tell the truth; a published version stays; a removal stays inside its version; every request is answered |
| Version resolution (`content-service.go`) | none | `versionMatches`, `resolveVersion`, `ListVersions`, `IsPinnedVersion`, `mutableAliasPrefixes` | an alias is the highest stable version of its line, and the version page says so too; a delete invalidates every entry that can point at it |
| Resolution cache (`internal/cache/redis-cache.go`, `GetFile`) | Redis: requested path to resolved path, with a TTL | lookup, resolve, fill, `DeleteByPrefix`, expiry | no entry for a version that is gone, but for known causes; the cache recovers |
| File token store (`internal/auth/file-token-store.go`) | a map under a lock, an encrypted file | `Save`, `Revoke`, `Delete`, `purgeExpired`, `flush`, `load` | a confirmed revocation and a confirmed creation survive crashes; the file is always readable |
| Redis token store (`internal/auth/redis-token-store.go`) | entry, hash index and id set of each token | `Save`, `GetByHash`, `List`, `Revoke` (a script), `Delete` | revocation and deletion are final whatever interleaves, once `Save` can store nothing any more; the id set is complete |
| PostgreSQL token store (`internal/auth/pg-token-store.go`) | one table | the same interface, one statement each; a purge | the token lifecycle, though statements are lost, late or executed behind an error |
| Token authentication (`internal/auth/auth-manager.go`) | none of its own | `CreateToken`, `RevokeToken`, the middleware | follows from the stores |
| File listing (`GetFiles`, `ListObjectsPage`) | a cursor held by the client | one page | pages neither skip nor repeat a visible file; a page that is linked exists; a total is right; following the links ends |
| Archive keys (`internal/content/archive-keys.go`) | none | junk filter, wrapper folder, `.gimmeignore`, collisions, limits | whatever the names, keys are clean and inside the folder; the limits hold for any declared sizes; a wrapper folder changes nothing |
| Content negotiation, conditional requests (`api/`, `getEncodedObject`) | none; caches in front keep copies | which encoding, ETag, 304, 406, Cache-Control | the coding is one the client admits and likes best; 304 is true; copies of an alias catch up |
| OIDC and basic admin login (`internal/auth`) | state, nonce and session cookies | `LoginMiddleware`, `handleLogin`, `handleCallback` | a login fails only if something came in its way; nobody is sent round for ever |
| Application lifecycle, configuration (`internal/application`, `configs`) | clients, token store, listener, signal channel | `validateConfig`, `loadModules`, `setupServer` | handlers have what they need for as long as they run; a clean stop cuts nobody off; a signal ends the process |
| Publishing command line (`cmd/gimme-cli`, `internal/publish`) | a temporary archive, a pipe and a goroutine | `run`, `Archive`, `Push` | success means published; the whole archive or nothing; ends and cleans up |
| Health, metrics, errors, templates | counters | formatting | nothing for a state machine |

How they interact: handlers run concurrently, each with its request's context,
which net/http cancels when the client goes away. `CreatePackage` and
`DeletePackage` share nothing but the bucket; there is no lock on a package.
`GetFile` reads the bucket and fills the cache; only `DeletePackage` invalidates,
after it removed. The token stores are called by the middleware on every
publishing request and by the admin handlers, which run behind the login. The
process opens the stores before it listens and closes them after it has drained. In
front of all of it there are HTTP caches, browsers and the command line, which see
only answers, headers and broken connections.

What is hard here: two uploads of one version; a goroutine that is still storing
when another has failed; a rollback on behalf of a client that is gone; calls whose
error says nothing of whether they took effect; listings whose errors are skipped;
a cache filled from what was read before a delete; a process killed anywhere;
Redis methods that are several commands long, and sent again when their answer is
lost; SQL statements that take effect after
their method failed; tabs that share cookies; a server that answers before it has read
the body; a signal at any point of start-up and shutdown. The `hazards` of `PROJECT.json` list
each with its line.

## Modules

| Module | Models |
|---|---|
| `PackageStore` | publishing and deletion |
| `VersionResolution` | version texts as pure operators |
| `AliasCache` (extends `VersionResolution`) | `GetFile`, the cache, the invalidation of `DeletePackage` |
| `ArchiveKeys` | zip entries to object keys, and the limits, as pure operators |
| `FileListing` (extends `ArchiveKeys`) | `GetFiles` page by page, over what an archive was stored as |
| `TokenLifecycle` | abstract: what a token store promises |
| `FileTokenStore` | the file store; implements `TokenLifecycle` |
| `RedisTokenStore` | the Redis store; implements `TokenLifecycle` |
| `PgTokenStore` | the PostgreSQL store; implements `TokenLifecycle` |
| `AdminLogin` | the OIDC login of one browser's tabs |
| `AdminConsole` (extends `AdminLogin`, `PgTokenStore`) | the admin page and its actions, composed of the two |
| `Delivery` | `getPackage` with its negotiation and validators, behind an HTTP cache |
| `ServerProcess` | configuration, start-up, signals, shutdown |
| `PushClient` (extends `ServerProcess`) | `gimme-cli push` against that process |
| `MCPackageStore`, `MCAliasCache`, `MCFileListing`, `MCRedisTokenStore`, `MCDelivery`, `MCPushClient`, `MCAdminConsole` | small instances for TLC |
| `PackageStoreProofs`, `AliasCacheProofs`, `FileTokenStoreProofs`, `RedisTokenStoreProofs`, `AdminConsoleProofs` (with those of `PgTokenStore`), `DeliveryProofs`, `PushClientProofs`, `FileListingProofs` (with those of `ArchiveKeys`) | theorems |

A definition called "Mutant of X" is a plausible bug in X. Nothing uses it: it is
there to be put in X's place, and then the property it is listed with fails.

### PackageStore

`bucket` maps a folder and a key to the upload whose bytes are there, so that two
uploads of one version can be told apart. `pc` is a request's place in its handler,
`task` what became of each key of an upload: `queued` for `eg.Go`, then in a
goroutine (`put`, `slot`, `compress`, `variants`), then `done` or `failed`.
`slots` is the channel of compression slots, `left` and `removeErr` are the state of
`RemoveObjects`. `overlapped` is history: another request on the folder was active
at the same time. Each action is one call or one local step: `ProbeFound`,
`ProbeNotFound` and `ProbeFails` are `ObjectExists`; `AddObject`, `AddBytes` and
their failing twins are the puts; `WaitSucceeds` and `WaitFails` are `eg.Wait` and
what follows; `RemoveObject`, `RemoveObjectFails` and `RemoveListingFails` are the
removal, for rollback and delete alike.

Abstractions and assumptions:

- An archive is the set of keys it yields; the mapping of entries to keys is
  `ArchiveKeys`'. Whether an entry falls into the compression window, and which
  encodings are smaller than the original, are free choices.
- `folder` is chosen once for each request, in `Init`.
- A put that reported an error has taken effect by then, or never does.
- A key is listed and deleted in one step. The code lists keys into a channel that
  a batch deletion drains; a put between the two is removed with what was listed,
  which is this step taken later, and a key listed as absent is this step taken at
  the listing.
- A listing made with a cancelled context yields an error, as minio's does.
- The 30 s limit of the rollback is one of its failing calls.

### VersionResolution and AliasCache

A version text is the tuple of its numbers, with a pre-release and a build number
for full versions; `TextPrefixOf` says when one text opens another, since
`DeleteByPrefix` matches text ("1" also opens "10"; numbers have at most seven digits). The bucket is reduced to three
states per version: nothing there, something but not the file, the file. `excused`
is history: entries that may point at a version that is gone, for one of the four
causes that `StaleOnlyIfExcused` names. `DeleteByPrefix` is one step per prefix;
when it fails, any subset of its keys is gone. Uploads are `PackageStore`'s seen
from afar: they start, finish, are rolled back or are abandoned.

### ArchiveKeys and FileListing

An entry's name is its text split at the slashes, so that cleaning, the wrapper
folder and the ignore file work on segments and no string is put together.
`archiveKeys` is the composition the code has: `validatedEntries`,
`applyIgnoreFile`, `objectKeys`. What is left of an archive after each of them is a
function on the positions that are left, so that a filter is a set of positions and
nothing is renumbered; the empty function stands for a refusal. Cleaning and adding up
sizes are loops, written as recursive functions of the number of turns.

`FileListing` stores what one archive yields, with any of the variants compression
may add, and lets a browser follow the links from the first page on. A page is
`BeginPage`, a `Fetch` for each turn of the loop of `GetFiles`, and `Answer`.
Nothing survives from page to page but the cursor `after`. `FetchBroken` is a listing
that breaks off, which the code takes for the end of the package; `Delete` is a
deletion at work. A listing is a set of keys that has no key without those in front of
it (`Leading`), and the files of a page are a function to the cursor that resumes just
before each (`collected`). `Place` is the place of each key in the order of their text,
the tuple `<<"lib", "x">>` being `lib/x`; `SiblingOf` is the key that an encoded variant
belongs to by its ending. `OrderAssumption` and `SiblingAssumption` say what is true of
all text: places differ, a variant comes behind its sibling, differs from it in its last
segment only, and what lies between a file and its variant starts like the file, so that
its own variants lie there too.

- An entry is a folder by the slash at its end or by its mode bits. One that cannot be
  read makes the upload fail: at once if it is the ignore file, else when it is stored.
- NFC and `path.Clean` come from libraries; NFC is a constant function, and cleaning
  is what Go documents. Patterns are those without a slash, which match a segment.
- The version is pinned; `AliasCache` has the resolution of others.
- The size counter is `MaxUint`, and the limit is below it, as an int64 is.
- `WrapperIsTransparent` leaves out archives that have a single folder of their own:
  zipped without a wrapper they lose that folder, zipped with one they keep it, which
  is where docs/site/index.html:1839, "the same URLs", does not hold.
- `VariantsStayHidden` is about packages in which at most one file comes between a
  file and its variants. `seedBoundaryKeys` does not know a file that lies further
  back. It and the completeness of the pages leave out packages with two variants of a
  file that is not there itself (`NoOrphans`): see the disagreements below for both.

### TokenLifecycle, FileTokenStore, RedisTokenStore

`TokenLifecycle` has one variable: a token is unissued, valid or dead, and only ever
moves forward. In `FileTokenStore` the mutation that holds the lock is `op`, with its
stage in `flush`. In `RedisTokenStore` every Redis command is an action; `pipe` is
the command that each sending of `Save`'s pipeline has reached and `client` holds each
request.

- `Crash` is the end of the process, not of the machine: a rename that was done
  stays done. `flush` does not sync the directory, so a power failure may undo one.
- Encryption is reduced to `torn`: whether the file can be read back.
- The file store's refinement is about the token file, which decides what the next
  process knows. The map of the running process may be ahead of it after a failed
  flush: a creation answered 500 is accepted until the restart, and a revocation
  whose flush failed is lost with the process. The code logs the latter and answers
  204; `RevocationSticks` excuses exactly that case.
- Redis is durable and linearizable.
- `NewRedisClient` leaves `max_retries` to the URL, and go-redis takes 3 when the URL
  says nothing: a pipeline whose replies are lost is sent again as a whole.
  `SaveResends` is that; a sending that was given up goes on beside the next one, even
  after `Save` returned, until it is through or `Lost`. `Settled` says that `Save` has
  returned and that no sending has a SET left, and the properties count a revocation or a
  deletion from then on (`ended`, `deleted`, `firm`): one that comes earlier can be
  undone, see the disagreements below. In the refinement a token that can be looked up
  is valid until it is settled or has expired.
- The other calls are sent again as well, without an action of their own: a read sent
  again is a later read; `revokeScript`, SREM and the pipeline of `Delete` sent again do
  what a second request does that makes the same call, the first having been told that
  it failed. The same holds of the resolution cache: a fill that is sent again is the
  fill of another reader that resolved at the same time, and an invalidation that is
  sent again is one that comes later.
- Redis may report a time to live of 0 ms for an entry that is still there.

### PgTokenStore, AdminLogin, AdminConsole

In `PgTokenStore` a method of the store is three steps: `Send`, `Execute` by the
database, `Return`. `Fail` ends a method with an error at any time: its statement was
executed, is lost, or becomes an orphan that may `Arrive` later. `rows` is the table;
`dbExpired` and `nodeExpired` are the expiry on the two clocks that judge it, the
database's in `purgeExpired` and the node's in `IsValid`, in either order. `saved`,
`issued`, `attempted`, `confirmed` and `late` are history that the properties need.

- Ids and hashes are fresh, so a token is saved once.
- A statement is atomic, and the database is durable and linearizable.
- The purge's own statement fails without any effect but that it happens later.

In `AdminLogin` the tabs of one browser share `cookies`. A tab goes from /admin to
/auth/login, the identity provider, /auth/callback and back; `SendCallback` is the
moment the callback's request leaves with the cookies it has, and the actions under
`handleCallback` are its outcomes, whose Set-Cookie headers act when the answer arrives.
A login is a number for both state and nonce. `alone` is history: the tabs whose login
nothing has come in the way of, which is what `ErrorIsExplained` excuses an error by.

- A browser does not leave a redirect unfollowed for the eight hours of a session.
- Signing and verifying of the session and of the ID token work; a session is valid
  or not there.
- The basic provider has no state and no routes; there is nothing to interleave.

`AdminConsole` joins the two: `Open` is /admin behind the middleware, `List` and
`ListBreaksOff` are what `getAdmin` gets from the store, `Ask` is the page's script
calling `createToken` and `deleteToken`, `Present` an API client. `view` is what each
tab shows. Nothing calls the store's `Delete`; a client may, to cover the interface.

### Delivery

One compressible file of one package, in the codings a `scene` names. `object` is the
bucket: the upload that wrote each object, and in which second. A request is `Ask`
(negotiation and resolution), then `SkipVariant` for each variant that is not there,
`Open` when a Stat succeeded, and `ReadBody` or `ReadBreaksOff`. `copies` is an HTTP
cache that keys on Accept-Encoding, because of Vary, and revalidates as RFC 9111 lets
it: with all the ETags it has, with the date of its copy, or without a condition.
`calm` is history: the file did not change during the request.

- An ETag is the upload and the coding: other bytes have another ETag.
- A header is a sequence of tokens with qualities in tenths. Splitting the text is left
  out; entries that do not parse are `Malformed`.
- The body is read from the object that Stat described: minio sends the ETag along.
- The alias is the highest version with an object; `AliasCache` has its cache.
- GET only: HEAD ends where the body would begin. 304, 404 and 406 are answers, not
  copies.

### ServerProcess and PushClient

`ServerProcess` goes through `Run`: `LoadConfig`, the calls of `loadModules`,
`StartListener`, `Notify`, and from a signal on `BeginShutdown`, `Drained` or
`GraceOver`, and `CloseClients`. `quit` is the signal channel with its one place,
`listener` the goroutine of ListenAndServe, which may fail and block in its send.
`parseSize` works on halves of a unit with `MaxInt` as the largest int64.

`PushClient` adds the command. `cli` is its main goroutine, `writer` the goroutine that
fills the pipe, `ending` how the body ended, `stage` the handler. A run and its handler
share one name. The pipe has no buffer; a piece is sent when the transport takes it.

- The settings that can only be there or not are one flag each: `required` stands for
  the secret and the S3 settings, `authFields` for those of the mode.
- The probe and the storing of `CreatePackage` are one step each; `PackageStore` has
  the interleavings inside.
- An interrupt before `signal.NotifyContext` ends the command at once and leaves its
  temporary archive, as the code does; `CommandEnds` is about runs that got further.
- A URL that makes no request leaves the writer behind until the process ends, which is
  at once; `CommandEnds` is about runs that called `client.Do`.

## Runs

Passing runs:

| Run | Instance | What it shows |
|---|---|---|
| `upload_alone` | one upload, two compressible files, two encodings, archives with and without a variant of their own and a refused one, two goroutines, one slot; one failing call, one failing listing, one disconnect, one crash | types; a client that goes away is rolled back (`DisconnectIsRolledBack`); every request ends (`RequestsAnswered`) |
| `publish_race` | two uploads of two files, one delete, two versions of which one opens the text of the other; one failing call, one disconnect, one crash | `FailedUploadLeavesNothing`, `PublishedStays`, `CreatedIsExact`, `DeletedIsEmpty`, `OtherVersionsUntouched` |
| `alias_forms` | versions 1.0.1, 1.0.10, 10.0.0, 11.0.0-rc.1, every form of alias, one reader, three uploads | `AliasIsHighestStable`, with the order of the version page; `InvalidationCovers` |
| `cache_races` | two versions, a minor alias and a pinned request, two readers, one delete, two uploads, one error | `StaleOnlyIfExcused`; `CacheConverges` |
| `token_faults` | two tokens, two failing flushes, two crashes | `RevocationSticks`, `IssuedTokenWorks`, `ComesBack`, `ImplementsLifecycle` |
| `redis_races` | one token, two concurrent requests beside its save, whose pipeline is sent up to three times; three failing calls | `RevocationSticks`, `NoResurrection`, `IndexComplete`, `ImplementsLifecycle` |
| `archive_pages` | archives of up to three out of seventeen entries: plain files, names to clean, to refuse and to drop, a size that would wrap around, ignore files in two places; archives of up to two that also have a folder known by its mode bits only or an ignore file that cannot be read; one file per page, one broken listing, one step of a deletion | `KeysStayInside`, `LimitsHold`, `WrapperIsTransparent`, `PagesAreComplete`, `VariantsStayHidden`, `BrowsingEnds` |
| `delivery` | a file in up to three codings; the alias of two versions, or one pinned version; five Accept-Encoding headers with repeated, refused, wildcard and malformed entries; two uploads, two seconds, one failing call | `NoRefusedCoding`, `NotModifiedIsTrue`, `NegotiationIsRight`, `AliasCopiesConverge` |
| `push_and_stop` | all combinations of login, cache and token store with and without their URLs, and sizes at the edges; one run of the command, two pieces, a version that may be there already; two signals, one broken connection | `HandlersHaveWhatTheyNeed`, `SignalEnds`; `OkMeansPublished`, `WholeArchiveOrNone`, `CommandEnds` |
| `admin_console` | two tabs that log in, or one tab, one API client and one token with one failing call | `ErrorIsExplained`, `NavigationEnds`, `RevocationSticks`, `PageIsTrue`, `ImplementsLifecycle` |

Runs in which TLC refutes what the documentation, a comment or the interface says:

| Run | Claim | What happens |
|---|---|---|
| `two_winners` | README.md:369, "lands entirely or leaves nothing behind" | two uploads of one version both pass `ObjectExists`, both are answered 201, and the bucket holds a mixture |
| `stale_probe` | README.md:595, pinned versions are "immutable by design" | a repeated upload whose client goes away takes the failed listing for an absent package, fails its puts, and its rollback removes the published version |

Further disagreements were met and have no run of their own:

- docs/site/index.html:2154 says that cache entries are invalidated when a package is
  deleted. A GET that resolved before the delete fills the cache after the invalidation
  (content-service.go:334); it is one of the causes `StaleOnlyIfExcused` names.
- README.md:625 says that partial-version entries are not touched by a delete;
  `mutableAliasPrefixes` drops them (`InvalidationCovers` depends on it).
- README.md:599 says that 404 responses are never cached; `GetFile` caches the path of a
  version that resolved to nothing, which answers 404 after that version was published,
  until the TTL ends.
- README.md:595 and :609 call the answers for pinned versions immutable. A file of an
  upload that is rolled back later may be fetched before, and is then kept for a year.
- README.md:601 offers If-Modified-Since. Without an ETag a 304 is wrong for an alias that
  went back to an older version, and for a file published again within the same second:
  the two cases `NotModifiedIsTrue` leaves out.
- While a newer version is being uploaded, its folder is listed before its files are all
  there; an alias then answers 404 for a file that the version before it has.
- content-service.go:389 says that "a page is only advertised once a visible file is known
  to be on it". With two files between `a.js` and `a.js.br` in key order, a page that
  starts after the first of them lists `a.js.br` as a file and may link to a page that is
  empty, a 404. The same happens without any file between: `seedBoundaryKeys`
  (content-service.go:453) takes the sibling of the cursor for stored. In a package with
  `a.js.br` and `a.js.gz` but no `a.js`, a page boundary between the two hides `a.js.gz`,
  and the page that was advertised for it is empty.
- archive-keys.go:52 says that `validatedEntries` drops "the macOS metadata no one wants
  served". It looks at the first segment, before a wrapper folder is stripped: an archive of
  `lib/a` and `lib/__MACOSX/x` is stored with the key `__MACOSX/x`. `KeysStayInside` makes
  that exception.
- token-store.go:54 says that `List` returns all stored entries. In the Redis store one
  failed GET takes a live token out of the id set for good (redis-token-store.go:137); in
  the PostgreSQL store a connection that breaks gives a short list (pg-token-store.go:104).
- token-store.go:58 says that `Revoke` returns false if the ID does not exist; in the Redis
  and the PostgreSQL store it does so too when a call fails, and the token stays valid, or
  is revoked after all, behind the 404.
- token-store.go:57 says that `Revoke` marks the entry as revoked, and :61 that `Delete`
  removes it permanently. In the Redis store neither holds for a token whose
  `Save` lost its replies: the client sends the pipeline again (redis-token-store.go:111,
  with the retries that redis-client.go:18 leaves at their default), and a SET of either
  sending may run after another node listed the token and revoked or deleted it with
  success. The token is then active again and is accepted. TLC shows it when
  `Settled` is taken out of `RunScript`: `RevocationSticks` fails.
- redis-token-store.go:174 says that `revokeScript` preserves the TTL; with a PTTL of 0 it
  stores the entry without one.
- oidc-provider.go:210 clears "the stale cookies" after a state mismatch. They may be the
  fresh ones of another tab, whose login then fails as well.

### Bounds

The bounds are `Max...` constants and the sizes of the sets. Two uploads and a
delete are enough for every pair of requests on one folder to interleave, with a
third that finds what they left. Two files make a goroutine that is still storing
when its neighbour fails; two goroutines and one slot make one wait for the other.
One failing call with a disconnect makes a rollback fail after an upload did; a
crash leaves a partial package behind. Two readers make a late fill
overwrite a newer one; two uploads publish a newer version, or the deleted version
again. Two failing flushes and two crashes make a failed flush be followed by a flush
that catches up and by a restart. Two requests, one after the other in each place, and a
save on one token are every pair of Redis methods with a later one that observes them;
three sendings are one that was given up, one that was given up after it, and one that is
answered; tokens share only the id set, whose members are independent. Three entries are a file with both kinds of neighbour
in key order, or two files and an ignore file; with one file per page every key is a
page boundary. Two uploads make a file that was published, removed and published again,
in the same second or in the next; five headers between them have every kind of entry.
Two pieces make a body that is half sent; a single run of the command meets the version
of an earlier one, and two signals fill the channel and overflow it. Two tabs are every
pair of logins, and five logins are more than two tabs and the cookies can refer to
(`LoginAssumption`). The two scenes of `admin_console` are checked apart because logins
and tokens only meet in the session; the theorems hold for both at once. Symmetry is used for the requests of safety runs only.

Deadlock is not checked where a system may rest: all requests answered, all tokens
used up, all pages read, the process ended. `AliasCache`, `Delivery` and `AdminConsole`
have no such state and are checked for it.

### Fairness

- `PackageStore`: weak fairness of each upload's steps, of each removal and of the
  end of each delete. The Go runtime schedules every goroutine, and every call to the
  store returns. Clients, failures and crashes have none.
- `AliasCache`: weak fairness of each handler's steps, and of `Expire`: Redis drops
  an entry when its TTL is over. That needs a positive `cache.ttl`, as the default is:
  `validateConfig` lets 0 and less through, for which go-redis sets no expiry, and then
  `CacheConverges` does not hold. Nothing makes anyone upload, request or delete.
- `FileTokenStore`: weak fairness of the flush under way and of `load`: the
  process is started again. `load` is not enabled on a file that cannot be read,
  which is the point of `ComesBack`.
- `FileListing`: weak fairness of `BeginPage`, `Fetch` and `Answer`: the browser
  follows every link it is given, and listings return. Uploading, deleting and broken
  listings have none.
- `Delivery`: weak fairness of the handler's steps and of `Expire`: max-age runs out. No
  client has to ask again.
- `PushClient`: weak fairness of the server's main goroutine with its timers, of the
  command with its timeout, and of the writer goroutine. Handlers have none: the object
  store may never answer them, which is what the grace and the timeout are for.
- `AdminConsole`: weak fairness of `Proceed`: the server answers, and the provider sends
  the browser back, as it does by itself for somebody who is signed in there. Users and
  the store have none.

## Theorems

TLAPS proves the following for any sets of requests, folders, files, versions, headers,
configurations, tokens and clients and any fault bounds, from the named assumptions of
each module only.

- `PackageStoreProofs`: `TypeCorrect`, `FailedUploadsLeaveNothing`,
  `RemovalsStayInFolder`, `PublicationIsFinal`, `CreatedPackagesAreExact`,
  `DeletedPackagesAreEmpty`, `DisconnectsAreRolledBack`. None of the properties is
  inductive. `UploadInv` adds that an upload owns objects of its own folder only and none
  before the fan-out; that after `eg.Wait` no goroutine is left, so none stores behind
  the rollback; and that a rollback under way still has each object of its upload ahead
  of it, or has failed. `PublishInv` is about requests that had their folder to
  themselves: two that are active on one folder both know it (`OverlapInv`); what a
  fault that never happened cannot have done (`FaultInv`); a removal without an error
  has every object still ahead of it (`RemoveInv`); what an upload's goroutines have
  stored is still there, and the folder holds nothing else once a probe found it empty
  (`AloneInv`); and beside a finished package nobody gets past a probe (`FinalInv`).
- `AliasCacheProofs`: `AliasesResolveToHighest`, `AliasesAreHighestStable`,
  `InvalidationIsComplete`, `StaleEntriesAreExplained`. `SemverBefore` is shown to be a
  strict total order of the full versions, so that a finite set of them has a highest one
  and can be put in order (`PageExists`). A page in that order has every version once, and
  in front of the version an alias resolves to there are only higher ones, which are of
  other lines or pre-releases. `SourceInv` says that
  what a key is mapped to, or a reader is about to map it to, is something its text may
  resolve to; the prefixes of that version then cover the key. `StaleInv` strengthens
  the property to deletions at work: an entry whose version is gone is excused, or a
  DELETE still has a prefix of it to drop.
- `FileTokenStoreProofs`: `StoreTypeCorrect`, `RevocationIsFinal`,
  `IssuanceIsDurable`, `RefinesLifecycle`. `StoreInv` says of the file and of the
  map what the properties say of accepted tokens, because the map comes from the file
  after a crash, and that the mutation holding the lock has changed the map and,
  once flushed, the file. `MapKeepsUp`, for the refinement, says that what the file
  does not hold as active any more, the map does not either: a later flush cannot
  bring it back.
- `RedisTokenStoreProofs`: `RevocationIsFinal`, `DeletionIsFinal`, `IndexIsComplete`,
  `RefinesLifecycle`. `RedisInv` says that a token that has ended is settled and stays so
  (`PipeMoves`), so that no SET is left that could bring back what `revokeScript` or DEL
  took away, and ties what each request has learnt to what has ended since.
  `ListedInv`, for the index, is about runs without a failing call, which have one
  sending of each pipeline, and adds that a request only knows tokens whose SET was executed, so that whoever removes an id after
  it found no entry removes the id of a token that is gone, and not of one whose
  pipeline is still to come.
- `AdminConsoleProofs`, on `PgTokenStore`: `TableIsSound`, `RevocationIsFinal`,
  `IssuanceIsDurable`, `RefinesLifecycle`. The properties speak of methods that have returned; `PgInv` has to
  speak of statements that have not. `OneSave` says that an INSERT under way, held by a
  method or an orphan, is the only one of its token and that its token was never inserted.
  So a row that was there and is gone (`Gone`) stays gone, whatever arrives late; and
  a row is only gone if somebody set out to end it or its time has come (`Kept`).
- `AdminConsoleProofs`, on the console: `LoginsAreExplained` from `LoginInv`: no two tabs are in one login,
  and a tab that nothing came in the way of finds its own number in the cookies, in its
  callback and among the codes. `ConsoleUsesStore` and `ConsoleLogsIn` show that the
  console is a behaviour of `PgTokenStore` and of `AdminLogin`, so that the theorems about
  either hold in it. `PagesAreTrue` needs an invariant of the pages that are still loading:
  what they were asked for with is in `confirmed` and `issued`, of which `PgInv` knows that
  the rows are gone or kept when `List` reads them.
- `DeliveryProofs`: `RefusedCodingsAreNotServed`, `ConfirmationsAreTrue`,
  `NegotiationIsCorrect`. Lemmas show for every header that `Quality` is the highest
  quality that counts, that it decides as RFC 9110 does, and that `parseAcceptEncoding`
  lists what is accepted with the best liked first. `UploadInv`: the objects of a version
  are of one upload. `CopyInv`: a copy's ETag names its bytes, its coding is accepted, and
  the file of a pinned URL is of the copy's upload or not older than the copy, which is
  what a comparison of dates rests on. `AskInv`: a request names only ETags and dates that
  the cache still holds. `TryInv`: the variants still to be tried are accepted, the best
  liked one is next, and in a calm request those passed over are not there.
- `PushClientProofs`: `HandlersAreServed`, `ArchivesAreWhole`, `SuccessMeansPublished`.
  `ServerInv` says what is open by the time the main goroutine stands at each point, for
  every configuration that `validateConfig` lets through, and that handlers run only
  between the listener and the end of the drain. `PushInv` ties the pieces sent, the end
  of the body, the pieces read, the handler's stage, its answer and the command's result
  to one another.
- `FileListingProofs`: `KeysAreInside`, `SizesAreLimited`, `WrapperMakesNoDifference`,
  `PagesAreWhole`, `PagesShowNoVariant`. The first three are about what an archive yields
  and need lemmas about the loops of `ArchiveKeys`, by induction over their turns: what
  `Clean` returns has dots only in front (`CleanIsTidy`), the saturating counter is the true
  sum or at its bound (`SizeIsTrueOrBound`), and cleaning a path below a folder is cleaning
  it and putting the folder in front (`CleanUnder`); an archive and its wrapped form then
  have the same entries left, position by position (`Lifted`, `LiftedIgnore`). The pages
  need `ListInv`, because a page knows only its cursor: the files shown are in front of the
  cursor and those collected behind it, each behind its own (`OrderInv`); as long as nothing
  was deleted and no listing broke off, the keys seen are those stored between the two
  cursors, with the one that `seedBoundaryKeys` guesses (`SeenInv`), the files in front of
  the cursor were shown and those behind it are collected (`CompleteInv`), and a page other
  than the first starts just before a file (`HiddenInv`). That file is what
  `VariantsStayHidden` rests on: a variant whose sibling was forgotten would have it and the
  cursor's file between the two, and only one is allowed.

Assumptions on the constants: bounds are numbers, names that must differ do, and
`ConfigsAssumption` (a size is a number with a unit), `AliasAssumption` (versions are full
and texts are sequences of numbers) and `DeliveryAssumption` (scenes name known versions
and codings; a quality is between 0 and 1 or malformed), `SegmentsAssumption`
(normalising twice is normalising once, and plain names are in composed form),
`LimitsAssumption` (the limit is below the largest value of the counter), and the two about
the order of text, described with `FileListing`. TLC evaluates each of them.

Every inductive invariant was checked by TLC on the instances of the runs before it was
proved. Where a proof needs an induction over a finite set (a highest version, a last key,
a sorted page), it takes a smallest counterexample, which the well-foundedness of the
strict subset relation provides (`HighestExists`, `LastExists`, `PageExists`). Induction
over the turns of a loop is done with a set in place of the predicate (`NatSet`), and that
the recursive functions of `ArchiveKeys` are what their equations say is shown that way too
(`Recursion`).

Only model-checked are the liveness properties: `RequestsAnswered`, `CacheConverges`,
`ComesBack`, `BrowsingEnds`, `AliasCopiesConverge`, `SignalEnds`, `CommandEnds`,
`NavigationEnds`. Fairness and ENABLED are out of the prover's reach. Every invariant, every
action property and every refinement of the passing runs is the subject of a theorem.

## Plan

1. Done: `PackageStore`; `VersionResolution` with `AliasCache`; `ArchiveKeys` with
   `FileListing`; `TokenLifecycle` with the three stores; `AdminLogin` and
   `AdminConsole`; `Delivery`; `ServerProcess` with `PushClient`; their runs, and the
   theorems above.
2. Left: ignore patterns with a slash, whose matching is a library's; a rename of the token
   file that a power failure undoes; the causes of `StaleEntriesAreExplained` one by one.

## Not modelled

- Reading the settings with viper and their defaults, CORS, the metrics middleware and
  the derivation of the session secret: sequential, without state.
- Health, metrics, errors, templates and the archive's type check: formatting, counters
  and input/output; their refusals are the 400 of `RejectUpload` and `BodyRead`.
- The choice of the version by the command line (`ResolveVersion`) and its arguments: a
  list of alternatives read once, before anything changes.
- Encryption, hashing, signatures and token generation are taken to work. Content types
  and integrity values are carried along without being decided upon.
