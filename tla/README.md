# Verification of the e-commerce backend

TLA+ models of the NestJS backend in `src/`, TLC runs that check them on small
instances, and TLAPS proofs of what matters most for every instance. Line
numbers below are those of the files under `src/src/`; `auth.service.ts` is in
`auth/`, `redis.service.ts` in `redis/`, and so on.

## 1. The system

One Node.js process serves HTTP. Its handlers interleave at every `await`;
between two awaits a handler is alone. Three stores are shared by all requests:

- **MySQL** (through Prisma): users, sessions, roles, permissions,
  role_permissions, action_logs. A statement is atomic; no handler opens a
  transaction of several statements, except the nested writes Prisma wraps in one.
- **Redis** (through cache-manager over one connection): OTPs, attempt counters,
  the blacklist of revoked sessions, the session cache, the device list of each
  user, the permissions of each role. Every key has a lifetime.
- **BullMQ**: the queue of mails to send.

`Promise.all` is the hard construct: the statements it is given are performed in
any order, and when one is rejected the handler throws while the others go on.

### Inventory

| Component | State | Operations | What makes it correct |
|---|---|---|---|
| Login sessions (`auth.service.ts`, `auth.controller.ts`) | rows of `sessions`, password, cookies of the browsers | login, Google login, refresh, logout, revoke one, logout-others, reset-password, listing | at most 5 live sessions; a revoked session stays revoked and its tokens die; nobody touches another user's session; an honest browser can go on refreshing |
| Session keys (`redis.service.ts` 67-143) | `revoked:`, `session:`, `user:sessions:` | set, delete, read-modify-write of the device list | a blacklist entry outlives the tokens it is there for; the list has every live device |
| Token check (`jwt.strategy.ts`) | none | accept a token that is signed, unexpired and not blacklisted | |
| RBAC guard and cache (`rbac.guard.ts`, `redis.service.ts` 226-260) | `rbac:role:<code>` | hit, miss, query, fill, expiry | decides by the permissions the role has |
| Roles (`roles.service.ts`) | roles, role_permissions | create, update, remove, assign, revoke, invalidate | no dangling or duplicate rows; cached permissions follow |
| Permissions (`permissions.service.ts`) | permissions | create, update, remove | unique routes; cached permissions follow |
| Registration OTP (`auth.service.ts` 151-385) | users.status, `otp:register:`, `otp:attempts:`, `email:exists:` | register, verifyEmail, resendOtp | one account per address, ACTIVE only with a proof; at most 5 wrong answers per OTP; a cached "taken" is true |
| Reset OTP (`auth.service.ts` 708-824) | `otp:reset:`, its attempts, its cooldown, `reset:token:` | forgotPassword, verifyResetOtp | an answered OTP is spent; a token is given for a right answer only; the cooldown follows a mail |
| Google accounts (`auth.service.ts` 901-1010) | users.providerId, status | find, link, activate, create | one account per address and per Google identity |
| Mail queue (`mail.service.ts`, `mail.processor.ts`) | BullMQ jobs | enqueue, process, retry | a mail that was accepted is sent or, after three attempts or two dead workers, given up; not without end; with a code that works |
| Start-up (`prisma.service.ts`, `main.ts`) | connection | five attempts, health check, listen | the process serves with a database or ends |
| Seed (`seed.ts`) | initial rows | upserts | |
| Guards and filters of the application, throttling, action log | none that a handler reads | | |

Interactions: the guard chain of `app.module.ts` puts the token check before
the RBAC guard, and both before every handler that is not `@Public()`. Login and
refresh put the role's code into the token, and the RBAC guard uses that code
until the token expires, whatever happens to the role. Reset-password revokes
sessions. Registration, resend and forgot-password enqueue mails, which a worker
in the same process sends: the process ends for requests and worker alike, while
rows, keys and jobs stay.

What is hard: two requests of one user at once; a request of one component in
flight over a change of another; rejected statements and crashes between the
steps of a handler; and lifetimes that end at different moments. The tests in
the repository are the generated "should be defined" ones, so none of this is
covered. `PROJECT.json` lists these hazards at their lines.

## 2. Modules

| Module | What it is |
|---|---|
| `SessionLifecycle` | abstract: a session is opened once for one user and, once revoked, stays so |
| `Sessions` | detailed: session handlers, session keys, cookies, token check |
| `SessionsProofs` | theorems about `Sessions` with any interleaving and any faults; extends it |
| `SessionsSerialProofs` | theorems for requests that do not overlap, with any faults; extends `SessionsProofs` |
| `SessionsReliableProofs` | theorems for requests that do not overlap and do not fail; extends `SessionsSerialProofs` |
| `MCSessions` | its instances for TLC |
| `RolePermissions` | RBAC guard, its cache, roles and permissions |
| `RolePermissionsProofs` | theorems about `RolePermissions` |
| `MCRolePermissions` | its instance for TLC |
| `RbacPaths` | the guard's decision: paths, endpoints, `matchPath`; extends `RolePermissions` |
| `RbacPathsProofs` | theorem about `RbacPaths` |
| `MCRbacPaths` | its instance for TLC, which checks `RolePermissions` too |
| `AccountLifecycle` | abstract: an address gets one account, which is never lost, never falls back, and is ACTIVE only with a proof of the address |
| `Accounts` | detailed: registration, verification, reset OTP, Google linking |
| `AccountsProofs` | theorems about `Accounts` |
| `AccountsCountProofs` | theorems on how often its two OTPs can be answered; extends `AccountsProofs` |
| `MCAccounts` | its instances for TLC |
| `MailPromise` | abstract: an accepted mail is delivered or given up, and that is final |
| `MailQueue` | detailed: jobs, attempts, worker |
| `Startup` | connection attempts, health check and end of the process |
| `AccountMail` | `Accounts`, `MailQueue` and `Startup` composed |
| `AccountMailProofs` | theorems about `AccountMail` |
| `MCAccountMail` | its instance for TLC |

`Sessions` and `Accounts` meet in two places only: the user a Google login
finds or makes, and the reset token `verifyResetOtp` stores. `Sessions` takes
the first as given and issues the second at any moment (`IssueResetToken`).
`AccountMail` conjoins each action of `Accounts` it uses with what that step does
to the queue and to the codes, and leaves `Accounts` as it is.

### Conventions

- A request occupies a *slot*: a record with a program counter `pc` (the await
  the handler is at) and the local variables it still needs. Actions are the
  stretches between two awaits. The number of slots is the number of requests in
  flight; with one slot the handlers run one after the other.
- In `Sessions` and `Accounts`, the statements given to one `Promise.all` are the slot's `todo`
  commands; `Perform` performs any one of them. The slot goes on only when none
  is left.
- Time is `Tick`, which lowers every remaining lifetime by one. A lifetime of 0
  is expired. Tick may happen at any moment, also between two steps of one
  handler.
- `Reject` makes the awaited statement, or some of a `Promise.all`, fail.
  `Crash` empties every slot. In `Sessions` a response may be lost on its way
  to the browser, in `Accounts` a mail on its way to the queue. `MaxFaults`
  bounds all of them together.
- A check that a unique index or foreign key repeats at the write (duplicate
  role code, unknown permission) is part of the write.
- Reads of several tables in one Prisma call are one step.

### `Sessions`

`row` is the sessions table by jti; `password` counts the passwords a user has
had; `blacklist`, `cached` are remaining lifetimes in Redis; `devices` is the
device list of each user; `jar` is the cookie jar of each browser with the
lifetimes of its cookies. `access[j]` is the remaining lifetime of the newest
access token of session j, and `late[j]` that of the newest one signed *after*
the session was blacklisted: the two play one role in the guard
(`Accepted`) and are kept apart for the properties. `dead`, `row[j].pwd` and
`minted` are history.

| Handler | Actions |
|---|---|
| login, Google callback | `LoginStart`, `LoginLimit`, `LoginCreate`, `Perform*`, `Sign` |
| refresh | `RefreshMatch`, `RefreshRotate`, `Perform*`, `Sign`; `RefreshMismatch`, `RevokeAll` when the token is not the stored one |
| logout | `Logout`, `Perform*`, `ClearCookies` |
| revokeSession | `RevokeSession`, `Perform*`, `Finish` |
| logoutOtherSessions | `LogoutOthers`, `OthersRevoke`, `Perform*`, `Finish` |
| resetPassword | `ResetStart`, `ResetApply`, `Perform*`, `Finish`; its token comes from `IssueResetToken` |

Abstractions: `RedisService.revokeSession` sends its two commands in one turn of
the event loop over the one connection, so that blacklisting and dropping the
cached session are one command. Refresh tokens are numbered per session instead
of random. Users are ACTIVE. The device list never expires within the horizon
(30 days against 7). The reset token's own lifetime is left out (a token may
always still be valid), and so is the choice of a password equal to the old one,
which changes nothing.

### `RolePermissions`

`code`, `holds`, `route` are the tables; `cache[c]` is `{}` without a key and
`{S}` for an entry with the routes S; `left` its lifetime. `Staffed` are the
roles that have users: their code is in the tokens signed now, and after a
rename the old code lives on in tokens for `TOKEN_TTL` (`tokenLeft`).
`suspect` is history: the codes that a known gap may have left outdated.

| Handler | Actions |
|---|---|
| RbacGuard.canActivate | `GuardMiss` or `GuardUnreadable`, `GuardQuery`, `GuardFill` (a hit changes nothing) |
| RolesService.create, remove | `RoleCreate`, `RoleRemove` |
| RolesService.update | `RoleRename` (no permissionIds), or `RoleSync`, `InvalidateFind`, `InvalidateDel` |
| assignPermissions | `Assign`, `AssignInsert`, `InvalidateFind`, `InvalidateDel` |
| revokePermissions | `Revoke`, `InvalidateFind`, `InvalidateDel` |
| PermissionsService.create, update, remove | `PermissionCreate`, `PermissionUpdate`, `PermissionRemove` |

Abstractions: SUPER_ADMIN bypasses the guard and is not among the codes. Names,
descriptions, lists and the action log are left out. `RolePermissions` compares
routes for equality only, which is what the unique index does.

### `RbacPaths`

What the guard does with the routes it has. A path is a sequence of segments:
words, parameters (`:id`), and the words that are numbers or UUIDs (`Ids`).
`NormalizePath` and `MatchPath` are the functions of that name, `HasPermission`
the line that uses them. `Endpoints` are the methods and paths of the controllers
that are neither `@Public()` nor `@SkipRbac()`. The guard takes
`request.route.path`, the pattern of the route Express chose, so what is compared
is pattern with pattern and `normalizePath` finds nothing to replace; that route
is always there, since a guard runs after routing. The reference definition is
`Urls`: the concrete paths a pattern stands for. Case is left out, both sides are
brought to lower case, and so is the prefix `api/v1`.

### `Accounts`

One e-mail address. `status` and `linked` (providerId is set) are its row;
`left[k]` is the remaining lifetime of each key Redis keeps for it and
`count[k]` the value of the two counters. An OTP is not spelt out: a caller
answers right (`VerifyRight`) or wrong (`VerifyWrong`), and each `setOtp` stores
a fresh code. `answered`, `guesses`, `lost`, `opened` are history: whether
somebody gave the right OTP, the wrong answers to the OTP now stored, whether a
race or a fault lost one of their counts, and the right answers to the reset
OTP now stored.

| Handler | Actions |
|---|---|
| register | `Register`, `RegisterLookup`, `RegisterCreate`, `Perform*`, `Finish` |
| verifyEmail | `VerifyEmail`; then `VerifyGone`, or `VerifyWrong`, `CountRead`, `CountWrite`, or `VerifyRight`, `VerifyUser`, `Perform*`, `Finish` |
| resendOtp | `ResendOtp`, `ResendLookup`, `Perform*`, `Finish` |
| forgotPassword | `ForgotPassword` or `ForgotUnreadable`, `ForgotLookup`, `ForgotCode`, `ForgotMail` or `ForgotMailLost`, `Perform*`, `Finish` |
| verifyResetOtp | `VerifyResetOtp`; then `VerifyGone`, or `VerifyResetWrong`, `CountRead`, `CountWrite`, or `VerifyResetRight`, `Perform*`, `Finish` |
| loginWithGoogle, up to the session limit | `GoogleLogin`, `GoogleFind`, then `GoogleCreate`, `GoogleLink` or nothing |

Abstractions: a counter above its maximum counts as the maximum, which is all
the comparisons tell apart. The reset token, a key of its own for each token, is
one key: some token of the address is valid. The address has one Google
identity, so that `findFirst` has one row to find. Avatar and names change
nothing here; a phone number that is taken is a reason for `RegisterCreate` to
give up. Nothing in the source sets BANNED or `deletedAt`, so these states are
left out. The mails of registration are left out: `MailService` swallows their
failure (`mail.service.ts:33`), so no handler behaves differently. The model
lets anybody call verifyEmail and resendOtp; in the code both lack `@Public()`
(`auth.controller.ts:61`, 71) and want an access token, of whatever user.

### `MailQueue`, `Startup`, `AccountMail`

`job[m]` is the BullMQ job of mail m with its state, name, code, attempts made
and stalls; `wait` the list; `worker` the job being worked on and how its
promise was settled; `sent` counts what the SMTP server accepted.

| Code | Actions |
|---|---|
| `sendUserConfirmation`, `sendPasswordReset` | `Add` |
| `process`, `sendMailHelper` | `Deliver`, `Refuse`, `DeliverUnanswered` (sent, but the answer is lost), `Ignore` (`default:`) |
| `attempts`, `backoff`, `removeOnComplete` | `Reattempt`, `Promote`, `Complete` |
| BullMQ worker (external) | `Take`, `Die`, `Stall` |
| `connectWithRetry`, `healthCheck`, `listen` | `Boot`, `Connect`, `ConnectFails`, `HealthCheck`, `HealthCheckFails`, `Exit` |

Of BullMQ the model has what the options of the code ask for and its defaults: one
job at a time, no end of life for a failed job, one stall forgiven. At which end
of the list a retried job joins is left open. The comment "3s, 9s, 27s" of
`mail.service.ts:26` is about the length of delays, which the model leaves out.
`Ignore` cannot happen with the names `MailService` gives; it is there because
`NoMailLost` rests on that.

In `AccountMail`, `carry[p]` is the mail a request is going to send and the code
it generated or found, `code[k]` the code an OTP key holds. `Ask` is the start of
resendOtp or forgotPassword, `ChooseCode` the choice between the stored code and
a new one, `StoreCode`, `MailReset`, `Return` and `Throw` the rest. `issued`, `alone`
and `cut` are history: codes that were stored; keys set with no other request
under way; codes set so that were replaced before their time. The account starts
as one registered some time ago, since registration ends in the same mail as
resendOtp. Left out are POST mail/test-mail, whose code belongs to nobody, and
the answers to the codes, which are in `Accounts`.

## 3. Runs

The real limits are scaled down: `ACCESS_TTL` 1 tick against `REFRESH_TTL` 2
keeps "the access token, and with it the blacklist entry, dies long before the
session"; a limit of one or two sessions takes two or three logins to reach.

| Run | Expect | Shows |
|---|---|---|
| `sessions_serial` | pass | With one request at a time over three sessions of one user: `SessionLimit`, `RevokedIsBlocked`, `OldPasswordSessionsEnd`, `NoFalseAlarm`, `DevicesListed`, `JtiCookieKept`. Three sessions are one more than the limit, so that eviction happens; two passwords, so that a reset does. |
| `sessions_concurrent` | pass | With two requests at a time (login, refresh and logout-others) over two sessions of two users with a limit of one: `TypeOK`, `RequestsOwnSessions`, `BlacklistOutlivesTokens`, `AlarmHasCause`, `RevocationScope`, and the refinement `LifecycleSpec`. Overlaps with a logout are in `sessions_liveness`, and in the theorems, which take all operations. |
| `sessions_liveness` | pass | `RevokedDies` with two requests at a time, login, refresh and logout, and one fault (a rejected statement, a crash, or a lost response). |
| `sessions_limit_race` | violation | `SessionLimit` fails with two overlapping logins (`auth.service.ts:119`). |
| `sessions_late_token` | violation | `EntryOutlivesEveryToken`: a token signed by a request in flight outlives the blacklist entry (`auth.service.ts:567`). |
| `sessions_reset_race` | violation | `OldPasswordSessionsEnd` fails when a login overlaps a reset (`auth.service.ts:867`). |
| `sessions_google_cookie` | violation | `NoFalseAlarm` fails when a Google login replaces the refresh cookie beside the jti cookie of an older session (`auth.controller.ts:261`). |
| `roles_cache` | pass | `TypeOK`, `Integrity`, `StaleHasCause`, `GuardGrants`, and under fairness `StaleEntriesDie`, with two requests at a time, two roles, two codes, one permission, two routes, two changes and one fault. |
| `roles_removed` | violation | `RemovedGrantsEnd`: the guard grants a removed permission by its cache (`permissions.service.ts:209`). |
| `accounts` | pass | With two requests at a time and one fault: `TypeOK`, `KeysNeedAccount`, `GuessesBounded`, `ResetOtpSpent`, and the refinement `LifecycleSpec`. |
| `accounts_cooldown` | violation | `CooldownMeansMailed`: a reset mail that could not be queued starts the cooldown (`mail.service.ts:52`). |
| `mail` | pass | With two requests, two mails, two attempts, two connection attempts and one fault: `MailTypeOK`, `NoMailLost`, `BoundedCopies`, `MailedCodeWorks`, the refinement `PromiseSpec`, and under fairness `MailsResolve`. |

`SessionLimit` and `OldPasswordSessionsEnd` appear twice on purpose: they hold
one request at a time and fail with two. Likewise `NoFalseAlarm` and
`DevicesListed` are promises of the serial run only; the hazards say how overlap
breaks each. `AlarmHasCause` says what is left of `NoFalseAlarm` when requests
overlap and nothing has failed: a refresh with an outdated token, from a browser
nobody stole from, means that the cookies of the browser are of two sessions, or
that two refreshes of the session overlapped. The overlap has left its trace:
both wrote the same next `tokenVersion`, so the version has fallen behind the
tokens signed (`minted`, a history variable). Both causes occur in the run, and
each alone makes the alarm sound. `RevokedIsBlocked` and
`OldPasswordSessionsEnd` speak about quiet states, between requests.

Bounds: `MaxTokens` (refresh tokens per session; three in `sessions_concurrent`,
one of the login and two of overlapping refreshes), `MaxPasswords`, `MaxFaults`,
`MaxChanges` (changes of roles and permissions), and the sizes of the sets.
Two changes in `roles_cache` are enough for a change between the query and the
fill of a guard followed by one that would hide or expose it, and for a rename
before an invalidation; every gap named in `StaleHasCause` needs at most two.
One permission is enough: the gaps concern one role and one route at a time. Of
the two routes one is seeded and one, `GET /:module/:id`, has a parameter where
the endpoints have a word, so that `GuardGrants` meets a permission that covers
several endpoints and one that covers a single one. Deadlock is checked
in every run: `Tick` is always possible, so this only says that no expression
of the model is undefined.

In `accounts` an OTP locks after one wrong answer instead of five, so that two
overlapping answers already pass the limit, and the counter lives two ticks
against one of the OTP, which keeps "the lock outlives the code it locks"; the
other lifetimes are equal, since no property compares them. `GuessesBounded`
and `ResetOtpSpent` say how much overlap and faults may add to the limit of the
code: one wrong answer for each further request in flight; one right answer to
the reset OTP for each request in flight, and as many again for each fault.

In `mail`, two mails are what overtaking needs, two attempts a retry and a last
one, and one fault a death, a lost mail, a rejected statement or an unreadable
cooldown; that the process fails to start is unbounded. All lifetimes are one
tick: a reset OTP outlives the cooldown when that is not stored or not read, and
is then sent again.

Symmetry is used where the members of a set are never told apart: users,
browsers, sessions and slots; permissions and routes in `roles_removed`; the slots
of `Accounts`. Runs with a liveness property use none.

### Fairness

`FairSpec` of `Sessions` and `RolePermissions` has weak fairness of `Tick`,
because time passes, and of `Serve(p)` for each slot: the event loop runs every callback that is ready, and the stores
answer or reject every statement. Nothing is assumed about clients: no request
need ever arrive. Neither liveness property of these two is
kept by a retry of the code; both follow from lifetimes ending, which is exactly
the question: does everything that was left behind by a race or a fault run out?

`FairMailSpec` has weak fairness of `Work`, since BullMQ's worker takes what is
there and its delays end, and of `Boot`, since whoever supervises the process
starts it again; and strong fairness of `Connect` and `HealthCheck`: MySQL
answers a process that asks often enough. Strong, because each failure takes the
process out of the state in which it asks. The SMTP server owes nothing:
`MailsResolve` counts a mail given up as settled, and no request is fair.

## 4. Proofs

Everything in the eight proof modules is checked by TLAPS, for every value of the
constants that satisfies the assumptions in the modules: `None` is not a user,
browser, session, code or route; lifetimes are naturals with `ACCESS_TTL` and
`CACHE_TTL` positive and `ACCESS_TTL <= REFRESH_TTL`; there are finitely many
sessions, and finitely many slots in `Accounts`; bounds are naturals; every key of
`Accounts` has a positive lifetime, the counter of an OTP one at least as long as
the OTP (15 minutes, `redis.service.ts:40`, against 5, `auth.service.ts:39`);
`MAX_RESET_ATTEMPTS` is between 1 and `MAX_OTP_ATTEMPTS`; `MAX_ATTEMPTS` and
`RETRIES` are positive; words and parameters are disjoint, there are at least two
words, and no endpoint has a number or UUID in its path.

`SessionsProofs`:

- `TypeCorrect`: `TypeOK`, by itself inductive except that a request's session
  must be one it may use at its program counter; so it is proved together with
  ownership.
- `OwnershipCorrect`: `RequestsOwnSessions`. This is the strengthening the rest
  needs: rows are updated by id, so that "the row belongs to the request's user"
  must be carried from the read to the write, in the slot and in each of its
  commands.
- `BlacklistCorrect`: `BlacklistOutlivesTokens`. It is not inductive:
  that the entry is gone says nothing one tick before. The inductive form
  compares lifetimes: the entry of a dead session lives at least as long as any
  token signed before it was written.
- `ScopeCorrect`: `RevocationScope`, an action property, from ownership.
- `LifecycleCorrect`: `Spec => LifecycleSpec`. Every step maps to one Open, one
  Revoke or a stutter; ownership says that what one command revokes belongs to
  one user.
- `AlarmCauseCorrect`: `AlarmHasCause`, without a hypothesis. The tokens of a
  session all go to one browser, so the invariant `CauseInv` is about one session
  at a time. Either refreshes have overlapped, and no later write hides that; or
  the session is settled, its newest token stored and held by the browser; or
  one request carries the newest token, which no browser holds yet.

The two other modules on sessions prove the properties of the run
`sessions_serial` for any number of users, browsers and sessions and any limits,
passwords and lifetimes. They are theorems under named hypotheses, because
without them the properties are false, as the runs that expect a violation show:

- `Serial`: there is one slot, so that requests do not overlap. A request still
  takes many steps: its statements are performed in any order, and time passes
  between any two. `sessions_limit_race` and `sessions_reset_race` show
  that two slots break `SessionLimit` and `OldPasswordSessionsEnd`;
  `sessions_late_token` shows the late token that breaks `RevokedIsBlocked`.
- `Reliable`: `MaxFaults = 0`. One rejected statement of a logout leaves the row
  revoked and the token accepted; one of a login leaves the session off the
  list; one lost response leaves a browser behind its row.
- `NoGoogle`: no Google login takes part. `sessions_google_cookie` shows why.

`SessionsSerialProofs` assumes `Serial` only, and allows any number of faults:

- `LimitCorrect` proves `SessionLimit`. A login counts the live sessions one
  await before it adds its own, so the invariant `LimitKept` also has what a
  request in flight may rely on: at `create`, the user's live sessions less those
  the eviction has yet to perform are below the limit; at `rotate`, the session
  that is renewed is counted already. That an eviction lowers the count rests on
  the lemma `OldestExists`: among finitely many creation times there is a least.
- `JtiCookieCorrect` proves `JtiCookieKept`, with lost responses and Google
  logins. The invariant `CookiesOK` compares the lifetimes of the two cookies,
  so that the jti cookie never ends first unless a refresh has renewed the
  other; that a token held is of an opened session; and that the answer on its
  way fits the jar it goes to.

`SessionsReliableProofs` assumes `Serial` and `Reliable`:

- `RevokedIsBlockedCorrect` proves `RevokedIsBlocked`, which speaks of the
  moments between requests. `RevocationOK` speaks of those within: the
  sessions revoked or about to be (`Doomed`) are those blacklisted or about to
  be. Two further parts make it inductive: a token is about to be signed for a
  good session only, and logout-others still finds the sessions it has read.
  `FateKept` is the lemma the rest cites: performing a command changes no
  session's fate. `BlacklistCorrect` does the rest.
- `OldPasswordCorrect` proves `OldPasswordSessionsEnd`. In `PasswordOK` a session
  of an old password may be there while its user's rows are about to be revoked;
  a password is about to change only if the rows are too, or none is left; and a
  login that waits holds the present password.
- `DevicesCorrect` proves `DevicesListed`. In `ListsOK` a good session may be
  missing from the list while the request is about to list it or to write back a
  list; every list to be written back has every good session; what is to be
  taken off is doomed; and no other command on the list is under way when one is
  read. The last is what overlap breaks.
- `AlarmCorrect` proves `NoFalseAlarm`, assuming `NoGoogle` too. Inside a refresh
  the row is ahead of the browser. `TokensOK` says that this browser is
  the only one behind: no two hold tokens of one session, and the answer on
  its way has the token that is stored.

`RolePermissionsProofs`:

- `TypeCorrect`, `IntegrityCorrect`, `CacheCorrect` prove `TypeOK`, `Integrity`
  and `StaleHasCause`. The inductive invariant is
  `IInv == TypeOK /\ RequestsKnow /\ Integrity /\ StaleHasCause`, where
  `RequestsKnow` says what a request has at each program counter.
  `StaleHasCause` needs `Integrity`: a permission that is created must be held by
  nobody, or it would change what a role is granted without a cause; and a code
  must name one role, or another role's change could go unexplained.

`AccountsProofs`:

- `TypeCorrect`, `KeysCorrect` and `LifecycleCorrect` prove `TypeOK`,
  `KeysNeedAccount` and `Spec => LifecycleSpec`. The inductive invariant is
  `IInv == AddressOK /\ RequestsOK`. `AddressOK` is what the stores say of the
  address: shapes and lifetimes, `KeysNeedAccount`, and that a proof of the
  address implies an account. `RequestsOK` is what a request in flight knows: past
  the read of the row there is an account, a key it is about to set needs none
  or has one, and an activation on its way has been earned by a right answer.
  Without the second part the first is not inductive, since a key is set by a
  request that looked for the account several awaits earlier; it holds because
  no handler deletes an account.

`AccountsCountProofs`, for any number of overlapping requests:

- `GuessesCorrect` proves `GuessesBounded`. `GuessesCounted` accounts for each
  wrong answer to the stored OTP: while the counter is below its maximum, it is in
  the counter or on its way there (`Uncounted`); once it is full, the wrong
  answers so far and the requests past the check (`Answering`) are within the
  bound together. No request is of both kinds, so the two sets have no more
  members than there are slots. The counter must not expire before the OTP it
  has counted for: that is what the assumption on lifetimes is for.
- `ResetOtpCorrect` proves `ResetOtpSpent`. In `OpenedCounted`, while the OTP is
  stored, every right answer beyond those that faults account for is a
  request that has yet to delete it (`Deleting`).

`RbacPathsProofs`:

- `GuardCorrect` proves `GuardGrants`. `MatchIsCover` is the lemma behind it:
  `MatchPath(P, E)` is the same as `Urls(E) \subseteq Urls(P)`. One direction
  follows segment by segment; for the other, paths that share a concrete path have
  the same length, and where P has a word and E something else there is a
  concrete path of E with another word, since there are two. The rest is that
  the cache holds routes only, which is `TypeCorrect` of `RolePermissionsProofs`.

`AccountMailProofs`:

- `MailTypeCorrect`, `NoMailIsLost`, `CopiesAreBounded`, `MailedCodesWork` and
  `PromiseCorrect` prove the invariants of the run `mail` and the refinement. The
  inductive invariant is `MailInv == QueueInv /\ Process!StartupTypeOK /\ CodesInv`.
  `QueueInv` says how a job's state, its place in the list and the worker belong
  together: a waiting job is in the list once, what the worker has resolved was
  sent, and the copies sent are at most the attempts and stalls so far and the
  one under way. `CodesInv` follows a code from the request that generated it:
  a request past the choice of its code carries one that is stored or about to
  be, mails and codes have numbers asked for already, and a key in `alone` can be
  set again by no request under way. Without it `MailedCodeWorks` is not
  inductive: a mail is sent long after its code was stored.

Only model-checked are the liveness properties `RevokedDies`, `StaleEntriesDie`
and `MailsResolve`: TLAPS does not prove liveness under fairness. Every
invariant, action property and refinement of a passing run is proved, those of
`sessions_serial` under the hypotheses above.

## 5. Not modelled

Rate limiting is library code that bounds how often a handler runs. Filters,
interceptors, decorators, configuration and Swagger format and wire. The action
log is written without await and never read. The seed runs once by hand, one
statement after another: creations of roles and permissions, which
`RolePermissions` has, and permissions for SUPER_ADMIN, who needs none. BullMQ,
the SMTP server and the supervisor of the process are external: the model has
what `src/` relies on. `PrismaService.$transaction` has no caller.

## 6. Plan

1. `Accounts` with fairness: a lock always ends, and an account whose
   registration was cut short can always be verified in the end.
2. The sessions of a Google login opened through `Accounts`, instead of for a
   user that is given.
3. Proofs: the safety part of the liveness properties, for instance that the
   lifetimes `RevokedDies` waits for never grow again once a session is dead and
   no request of it is in flight.
