# effect-auth in TLA+

A verification project for [effect-auth](../src/README.md), an authentication
library for Effect applications: password, e-mail-code, OAuth, passkey, phone
and guest sign-in, sessions with assurance levels, a second factor, and stores
over SQLite, PostgreSQL and MySQL. The source is TypeScript under `src/src/`.

The library is a set of services over a SQL database. Nothing coordinates two
requests but the database: a fibre reads a row, hashes or mails for a while,
and writes. Almost every question worth asking is therefore the same one: what
another request did between a read and the write that relies on it, and what is
left behind when a fibre stops between two statements. The modules model each
operation as its sequence of statements and transactions.

## 1. Inventory

| component (source under `src/src/`) | state | operations | what makes it correct |
|---|---|---|---|
| Assurance (`domain/Assurance.ts`) | none | `deriveAal`, `meetsAssurance` | more evidence never means less; refusing recovery codes admits nobody new |
| Sessions (`domain/Sessions.ts`, `sql/stores/Sessions.ts`) | `sessions` rows: token hash, expiry, update and authentication stamps, log, level | `create`, `verify` (with rolling refresh and drop of expired rows), `elevate`, `signOut`, `revoke*`, `deleteExpired` | one token one session; what ended stays ended; rotation retires the old token; no step loses evidence; a refresh extends by the recorded lifetime |
| Verifications (`domain/Verifications.ts`) | `verifications` rows: identifier, secret hash, payload, expiry | `issue`, `claim`, `retire`, `deleteExpired` | a token is claimed at most once |
| Challenges (`domain/Challenges.ts`) | rows of the same table in a namespace of their own | `issueCode`, `verifyCode`, `retire` | a guess is never given back, a fault never costs one |
| Email OTP (`email-otp/`) | Challenges' rows, a link beside a code | `issue`, `verify`, `follow`, `settle`/`reclaim` | each credential signs in once; the other door is shut; an unproven account is swept whole |
| Passwords (`domain/Passwords.ts`) | the `local:credential` account, reset links | `signUp`, `signIn`, `requestReset`, `resetPassword`, `setPassword`, `changePassword`, `verifyEmail` | re-securing an account evicts what was there; a reset is all or nothing |
| SQL mutations (`sql/Mutations.ts`) | rows of any table | `consumeOne`, `updateAndRead`, `insertAndRead`, `upsertAndRead`, `deleteAndCount`, `deleteAndRead` | on MySQL, without `RETURNING`, they do what one statement does elsewhere |
| SQL transactions (`sql/stores/Transaction.ts`) | the connection's transaction and its liveness savepoint | `run`, outermost and nested | success is not reported for a transaction InnoDB rolled back |
| Sign-in pipeline (`domain/SignIn.ts`, `domain/Hooks.ts`) | none | `complete` | nothing is minted before policy and second factor agreed |
| Accounts (`domain/Accounts.ts`, `domain/Authenticators.ts`) | `accounts` rows | `linkOAuth`, `linkToUser`, `unlink`, `revokeAll` | one identity, one user; a user is created with a way in and keeps one; a sweep misses nothing |
| Users (`domain/Users.ts`) | `users` rows, change-email, verification and delete links | `requestEmailChange`, `confirmEmailChange` and `verifyEmailChange` (two hops, or a code), `requestDeletion`, `confirmDeletion` | an account moves only to an address somebody there agreed to, after the one it leaves was warned; verified means proven; a move takes every earlier link with it |
| Session cache and middleware (`http/SessionCache.ts`, `http/MiddlewareLive.ts`, the handlers that set or clear cookies) | two cookies of a browser: the token and a signed snapshot | read, sign, refresh, clear | a snapshot answers only for the session of the token beside it, and not past that session's refresh or end |
| Rate limits (`internal/rateLimiterStore.ts`, `http/RateLimits.ts`) | windows, buckets and adaptive states in memory | `fixedWindow`, `tokenBucket`, `adaptive*`, sweep, `spend` with `failClosed` | no span lets through more than the limit allows, swept or not |
| Two-factor (`two-factor/`) | pending sign-ins, TOTP secret and last step, recovery codes, trusted devices | `startEnrolment`, `confirmEnrolment`, `verify` (second half, step-up), `regenerateRecoveryCodes`, `disable`, `trustDevice`, `revokeDevice(s)` | one code, one use; a pending sign-in mints one session; guessing extends nothing; re-securing forgets every browser |
| Passkeys (`passkeys/`) | ceremonies, user handles, credentials with signature counters | `registrationOptions`, `verifyRegistration`, `authenticationOptions`, `verifyAuthentication`, `remove` | a ceremony comes once to what it was minted for; a handle is never replaced; the counter's mark is not lowered |
| OAuth (`oauth/`) | state rows, the binding cookie, the provider's tokens in `accounts`, discovery and key caches | `authorize`, `callback`, `accessToken`, `refreshTokens` | a flow comes once to what it was started for, in the browser that started it; a token stays with its identity |
| Phone, One Tap, Anonymous, Username | plugin tables | codes, nonces, merge, claim | a number, a name, a guest belongs to one user |
| HTTP handlers, configuration, client, crypto, testing | none of their own | parsing, wiring | out of scope, see section 7 |

**How they interact.** `SignIn.complete` is the one place that creates sessions
(through the unchecked mint of Sessions) for every ceremony. Challenges is built
on Verifications, Email OTP and Phone on Challenges, and Two-factor keeps its
pending sign-ins in Verifications and interposes in `SignIn.complete`. OAuth and
Passkeys keep their state rows and ceremonies in Verifications too. Passwords,
Users and Email OTP all end by `retireUserSubjectTokens` and by deleting
sessions. The middleware answers from the cookie cache before it asks Sessions,
and OAuth hands what a provider says to Accounts. All stores write through `sql/Mutations.ts`. There is no
background process: sweeps run when somebody calls them, and events are
published after the fact and never awaited for correctness.

**What is hard.** Interleavings of several requests of one person (two tabs, a
retry, a thief with the same token); stale reads, as in the refresh decided on
a row that was revoked meanwhile; the claim of a row followed by a write-back;
sweeps that must not miss a row being inserted; a fibre that stops between two
statements; MySQL's snapshots, deadlock retries and transactions that end by
themselves; answers of two requests of one browser that set the same cookies in
either order; callbacks and mails opened late, twice or elsewhere; time read
twice. The list,
with the line where each bites, is `hazards` in `PROJECT.json`.

## 2. Modules

| module | models | built on |
|---|---|---|
| `Assurance` | evidence, levels, policies, as operators | |
| `Sessions` | the session life cycle | Assurance |
| `SessionCache` | the cookies of browsers and the signed snapshot, over the sessions | Sessions |
| `Verifications` | the token table, one operator per statement | |
| `Challenges` | codes with a guess budget | Verifications |
| `CodeBudget` | what Challenges promises, abstractly | |
| `EmailOtp` | the hybrid of code and link: each step is a step of Challenges plus what the door owes | Challenges |
| `Users` | change of address in two hops or by code, verification, deletion | Verifications |
| `RowStore` | what a mutation of `sql/Mutations.ts` promises on every dialect | |
| `Mutations` | the MySQL branches over InnoDB, in transactions of `sql/stores/Transaction.ts` | RowStore by INSTANCE |
| `Passwords` | the ways into one account and how they are replaced, with the sweep of Email OTP | |
| `Accounts` | provider identities and passkeys, attached and removed one by one, against the sweep and sign-up | |
| `OAuthFlow` | a flow from authorize to callback, and the cookie it is bound by | Verifications |
| `ProviderTokens` | the refresh token of an identity: rotated by the provider, replaced by sign-ins, removed by unlinks | |
| `TwoFactor` | the second factor of one person, where it interposes in a sign-in, and remembered browsers | Verifications |
| `Passkeys` | registration and authentication ceremonies, handles and counters | |
| `RateLimiterStore` | the three algorithms of the process-local store, its sweep, and `spend` | Window by INSTANCE |
| `Window` | what a fixed-window counter promises, abstractly | |
| `MC*` | instances for TLC | |
| `*Proofs` | theorems for TLAPS: Sessions (with SessionCache), SignIn (Challenges, EmailOtp and Passkeys), Passwords, Accounts, Users, OAuth (flows and provider tokens), TwoFactor, Store (Mutations and RateLimiterStore) | |

**Sessions.** `row` and `live` are the table; `req` holds, per request, what it
read and what it is about to write. `verify` is `Read`, then `FindExpired` and
`Drop`, or `AnswerAsRead`, or `FindDue` and `Touch`, each in a step of its own
because each is a statement of its own. `elevate` is `BeginElevate` (the clock
and the new token, before the transaction) and `CommitElevate` (the locked read,
the appended log, the rotation). The update stamp of `CommitElevate` is any time
between the begin and the commit, because the store reads it before it waits for
the row lock. Tokens are model values and their hash is injective. `logOf`,
`granted` and `ended` are history variables that properties read.

**Challenges.** `issueCode` is three statements (`RetireLinks`, `RetireCodes`,
`InsertCode`) and the answer (`ReturnCode`). `verifyCode` deletes the row
(`Claim`), compares, and on a wrong guess or a fault writes it back (`Restore`):
in between the row is only in `call`. `Abandon` is a process that stops there,
and the code is lost. The code itself is not represented: a guess is right or
wrong. A comparison is external and may fail (`CompareFault`).

**EmailOtp.** `door` says what a request still owes after its challenge step:
retire the links once the code was right, retire the codes once the link was
claimed. Both doors then sign in (`Enter`), which may be refused. `shut` and
`entries` are history; `shut` has what the other door retired while no request was
guessing at it or signing in with it (`InHand`).

**Mutations.** `committed` and `current` are the versions of a row, `holder` the
record lock, `snapshot` what a REPEATABLE READ transaction's plain reads answer
from. The `scope` of a mutation is its own transaction, a caller's that has
already read, or a caller's that InnoDB has ended while its body went on. In the
last one every statement commits by itself and locks nothing for the next, and
`Proven` is the `RELEASE SAVEPOINT` by which the outermost transaction finds out
before it reports success. A nested `run` opens nothing and adds no scope.
`Rollback` may happen anywhere; `Retry` is `retryDeadlocks`. `RowStore` promises
one step per answered mutation to everybody, and to a stray body only failure.
InnoDB is external: it is modelled as the comments of `sql/Mutations.ts`
describe it. A row has the fields that the predicates of the callers can tell
apart.

**Passwords.** One user. A statement outside a transaction takes effect at once;
inside a transaction it locks its row and is seen at the commit. `via` of a
session is the credential that proved it. Hashing is where a request waits
between its read and its write. `Abandon` stands for every refusal (an unverified
address where verification is required, a hook, a policy), for faults and for
crashes, and rolls an open transaction back.

**Accounts.** All identities report one address, because only those race. A user
is named by the request that creates it, and the credential row of a user has
that user as its key. What an open transaction inserted is in `req` until
`Commit`; a second insert of the key waits, and is refused if the first commits
(`Pending`, `Taken`). `linkOAuth` tries again once after a conflict (`retried`).
An unlink locks the user's account rows (`LockRows`), then counts the factors by
a plain read (`CountFactors`), then deletes; the removal of a passkey counts and
deletes without a lock. The sweep locks the user row, then the account rows, then
asks the plugins. `stored`, `removed` are history.

**TwoFactor.** One person. A code of the app is a secret and a step, a recovery
code is one of a set, and both are named after the request that made them, as
are the pending sign-ins and device tokens. `SignIn` is `complete` with this
plugin's decider: `FindEnrolment`, `UseDevice` or `NoDevice`, `IssuePending`, or
`Mint`. The second half is `Claim`, then `CheckTotp` and `ConsumeStep`, or
`ConsumeRecoveryCode`, then `Mint`, then `Forget` or `Remember`; a failure goes to
`Reissue`. Enrolment and disabling are the statements they are. `RateLimited`
may happen whenever the account's attempts are asked for. A pending enrolment that
is too old, an undecipherable secret and a refusing hook are `Abandon`. `proofs`,
`sessions`, `skips`, `gone` and `before` are history. Putting a row back reads the
clock twice, for what is left (`FindLeft`) and for what to count it from (`Reissue`),
with a digest awaited in between.

**SessionCache.** A browser holds a token cookie and a snapshot cookie. A request
carries both as they are when it leaves; its answer sets or clears them when it
arrives (`Answer`) or is lost (`Lost`), so answers overtake each other. `ReadCache`
is the middleware's decision to trust the snapshot, `ReadRow` and `VerifyRow` the
way through Sessions, of which every other step is `Elsewhere`. The version of a
snapshot is one string, its user an id.

**RateLimiterStore.** One key and the algorithm it is used with: keys share
nothing, and a key is used with one algorithm. A call of the store is synchronous
and hence one step; the sweep runs between any two. `spend` is where a store of
a deployment may fail (`StoreFails`, `PassUncounted`). `Window` has no sweep: it
forgets a window the moment it is over, answers every call with the count and the
time left (`reply`), and refuses only what the window could not hold. The store
implements it with entries that it drops late. `passed` is history: what was let
through before each time, those calls included that have been told to wait; it
starts again when a new limit is learned. Times are counted in parts of a
millisecond (`Millis`): a learned rate is a fraction in the code, a whole number of
parts here (`PartsAreExact`).

**OAuthFlow.** A flow is named by its state, and so are its verifier and nonce.
The provider is external: it answers a flow with codes, redeems each once, and
checks PKCE or puts the nonce in the id token. A callback is any state, code or
error, in any browser. `Consume` deletes the state row; `Link` is what Accounts
does with the profile, as one step.

**ProviderTokens.** A refresh token works until it is spent and rotated.
`Refresh` spends the token of the row that was read, `SaveTokens` writes the
successor by the id of that row (`Updates`, `Patched`), and `RefreshLost` is
an answer of the provider that never arrives. Sign-ins, links and unlinks go on
between any two of these.

**Users.** A request steps from statement to statement. Link and code rows are one
table of Verifications; guesses at a code are in Challenges. A person is whoever
reads a mailbox, and follows any mail in it, once or more, whenever they like
(`Follows`). The histories record which mails were followed, who was created with
which address, who left an address nobody had proven, and when an account last
moved.

**Passkeys.** A ceremony names its challenge and the handle of its cookie at
once. The authenticator is external: a credential is made once and keeps the
handle it was told; it, or a clone, signs any challenge and reports any count.
Any caller presents any ceremony and any response. `ensureHandle` is
`RegistrationOptions`, `CreateHandle` and `FindAgain`; `recordUse` writes what was
computed from the row as it was read.

## 3. Runs

Twelve runs, one for each machine that is checked; TLC finishes each within five
minutes.

| run | instance | distinct states | what it shows |
|---|---|---|---|
| `sessions_stepup` | 1 session, 3 tokens, 2 requests, 3 log entries, time to 3 | 130 k | in every race of refresh, step-up, drop and revocation: dead tokens and ended sessions stay so, evidence is only added, `authenticatedAt` is backed by the log, an end is announced once |
| `email_otp` | 2 callers, 2 issuances with a link each, 2 guesses, time to 2 | 250 k | each credential signs in once, a door that was shut with nobody in it signs nobody in afterwards, and the doors implement `CodeBudget` |
| `mutations` | 3 callers, one row, all six kinds, three scopes, 1 retry | 1.5 M | exactly-once claims, and the MySQL branches implement `RowStore`, also beside bodies whose transaction is gone |
| `passwords` | 2 requests, 2 passwords | 36 k | re-securing evicts, a reset is whole, everybody finishes |
| `accounts` | 2 requests of any kind, 1 user, 2 identities | 360 k | what an unlink counted on is there until it deletes, one person per identity, only what was stored is announced, a user is created with a way in, a sweep misses nothing that is being attached, everybody finishes |
| `two_factor` | 2 requests of any kind, windows of 2 steps, time to 2 | 470 k | a code proves once, a pending sign-in mints one session, neither guessing nor use gives more time than was left, a device token skips once, re-securing forgets every browser |
| `rate_limits` | one key, each of the three algorithms, a limit of 2, time to 12 | 290 k | no span lets through more than the limits say, and the swept store implements `Window`, answers and refusals included |
| `oauth` | 2 flows, 2 browsers, 2 providers (one PKCE, one nonce), 2 callbacks | 520 k | a flow comes to what it was started for, where it was started, and once |
| `provider_tokens` | 2 identities, 3 tokens, 3 requests | 11 k | no token reaches another identity; a spent one stays in a row only where its successor is on the way or was lost |
| `session_cache` | 1 browser, 2 requests; 2 people, 2 sign-ins and a step-up, time to 1; or 1 session, raised once, time to 3 | 1.5 M | a snapshot answers only for its holder, a refresh does not lie about the end, and what a browser ended is over there |
| `users` | 2 people, 2 addresses, 2 requests, 3 links | 2.4 M | moves are agreed, verified means proven, no link outlives a move by link |
| `passkeys` | 2 people, 2 credentials, 2 ceremonies, 3 requests, counts 0 and 1 | 1.1 M | a ceremony comes once to what it was minted for, handles are kept, a ceremony does not lower the mark it read |

**Bounds and why they are enough.** Every race here is between a request that is
about to write and one that overtakes it, so two requests meet all pairs of
steps; `mutations` has three because a claim may be decided by a second caller
while a third waits, and `passkeys` because two may race for a handle while a
third completes what one of them began; `provider_tokens` needs a sign-in and two
refreshes. Three tokens allow a rotation that races a rotation. Time to 3 with a
lifetime of 3 (2 where the person is not remembered) and an update age of 1
meets: not due, due, expired exactly, expired while being refreshed. `MaxLog`
stops step-ups at three entries: two racing step-ups on top of the sign-in. Two
guesses meet the restored and the exhausted code. Two passwords tell an old one
from a new one, and `replaced` whose credential proved a session. A window of one
step either side, over three steps, meets a code that is early, due, late, used
up and gone; a set of one recovery code is exhausted by its first use. In
`users` three links are a warning, its second hop and one other link that is
older or younger; two addresses are enough for a move, a move back and a rival.
`rate_limits` has three windows of 4 in its time, so a span meets an edge on
either side. In `session_cache` two people sign in and one steps up,
each with a token of their own, so that a snapshot of one person's session meets
the token of another's and a refresh sets a token again that a step-up retired; a
session alone has time for two refreshes (`LongOrBroad`). Who signs in first and which
token is drawn is fixed (`DrawnInOrder`), because people, sessions and tokens are
interchangeable until they are drawn; the histories of Sessions, which no action or
property there reads, are left out of the comparison of states (`NoHistory`).
`RejectRegression` is FALSE in `passkeys` because only the tolerant setting can lower
a mark; the theorems are for both.

`CHECK_DEADLOCK FALSE` everywhere: requests, handles and time are finite, so every
behaviour of an instance comes to rest; whether somebody waits for ever is asked
by `Finishes` instead. Symmetry is used in runs without liveness only.

**Fairness.** Only `Passwords` and `Accounts` assume any: weak fairness of each
request's next statement. The runtime runs every fibre on, and the database
grants a row lock in turn once its holder's transaction has ended. Fairness is not
assumed of starting a request, nor of `Abandon`: a request that is never abandoned
has to end as well. All other modules state safety only: whether a person ever
answers a code, a provider ever calls back, or a mail is ever opened is not up to
the code.

Each property of a run has a mutant in `PROJECT.json`: a change of one mapped
definition that a plausible bug would make, under which TLC finds the property
violated. The mutated forms stand before the definitions they replace, marked
"Mutant".

Every module states its type invariant. All of them are theorems (section 4), so no
run repeats them; they can be added to the cfg of their runs. So can the
properties that are only proved (`TokensUnique`,
`FallbackUnreached`, `NeverPromoted`, `OneCarrier`, `BudgetConserved`, `OneOwner`,
and `SweepMissesNothing` of Passwords).

## 4. Proofs

TLAPS checks, for every value of the constants that satisfies the named
assumptions (lifetimes and budgets are positive; sentinels are none of the things
they stand beside):

| module | theorem | says |
|---|---|---|
| `SessionsProofs` | `TypeCorrect` | `TypeOK` |
| | `EndedForGood` | `NoResurrection`: only `Create` adds a row, of an id never used |
| | `OneTokenOneSession`, `RotatedForGood` | `TokensUnique`, `DeadTokenStaysDead`, from the invariant that every token in a row or in an elevation in flight was minted |
| | `RefreshKeepsDistance` | `FallbackUnreached`, from `ClockBounds`: no stamp lies in the future |
| | `BrowsingNeverPromotes` | `NeverPromoted` where there are no step-ups, from `LifetimesKept`: what a request read is within the lifetime of its row's remember-me choice |
| | `RecoveryOnlyStricter` | `RefusingRecoveryIsStricter`, from the monotonicity of `DeriveAal` |
| | `ProofIsNeverLost` | `StepUpOnlyAdds`, from the invariant that a row's level is that of its log |
| | `FreshnessIsProven`, `EndsAnnouncedOnce` | `EvidenceBacked`, `EndAnnouncedOnce` |
| | `CacheTypeCorrect` | `CacheTypeOK` of SessionCache |
| | `SnapshotsAnswerTheirHolder`, `CachingKeepsTheRefresh`, `EndedHereStaysOver` | `AnswersItsHolder`, `RefreshStaysHonest`, `EndedHereIsOver` |
| `SignInProofs` | `TypeCorrect`, `HybridTypeCorrect` | `TypeOK` of Challenges, `HybridTypeOK` |
| | `OneRowOnePlace`, `NoGuessGivenBack` | `OneCarrier`, `BudgetConserved` |
| | `ImplementsTheBudget` | refinement of `CodeBudget` |
| | `DoorsAreChallenges` | every hybrid behaviour is one of Challenges |
| | `HybridImplementsTheBudget` | so the budget holds behind the doors |
| | `DoorsOpenOnce`, `DoorsStayShut` | `EachDoorOnce`, and the action property `ShutStaysShut`: what was shut with nobody in it signs nobody in |
| | `CeremoniesTypeCorrect` | `CeremoniesTypeOK` of Passkeys |
| | `CeremoniesEndOnce`, `OutcomesOfTheirCeremonies` | `OneUsePerCeremony`, `OutcomeIsOfItsCeremony` |
| | `HandlesStay`, `MarksAreKept` | `HandleIsKept`, and the action property `MarkIsKept` |
| `PasswordsProofs` | `TypeCorrect` | `TypeOK`, and no lock outlives its transaction |
| | `WhatWasThereIsGone`, `ResetIsWhole`, `SweepIsComplete` | `SecuredEvicts`, `ResetAllOrNothing`, `SweepMissesNothing` |
| `AccountsProofs` | `TypeCorrect` | `TypeOK`, and no lock outlives its transaction |
| | `OneOwnerEach`, `OnePersonEach`, `AnnouncedIsTrue` | `OneOwner`, `OneIdentityOnePerson`, `AnnouncedWasStored` |
| | `CountedStays` | `CountedAccountStays`: the half of the last-way guard that holds |
| | `ProvisionedWithAWayIn`, `SweepIsComplete` | the action properties `ProvisionedWhole` and `SweepMissesNothing` |
| `UsersProofs` | `TypeCorrect` | `TypeOK` |
| | `MovesAgreed`, `VerifiedProven`, `LinksEndWithTheMove` | `MovesAreAgreed`, `VerifiedMeansProven`, `NoLinkOutlivesTheMove` |
| `OAuthProofs` | `TypeCorrect`, `OutcomesOfTheirFlows`, `FlowsEndOnce` | `TypeOK`, `OutcomeIsOfItsFlow`, `OneOutcomePerFlow` |
| | `TokensTypeCorrect`, `TokensStayTheirs`, `NothingStranded` | `TokensTypeOK` of ProviderTokens, `TokensOfTheirIdentity`, `NotStranded` |
| `TwoFactorProofs` | `TypeCorrect` | `TypeOK` |
| | `CodesProveOnce`, `SignInsFinishOnce`, `TokensSkipOnce` | `OneProofPerCode`, `OneSessionPerSignIn`, `DeviceTokenOnce` |
| | `TimeRunsOut`, `SecuringForgets` | the action property `TimeOnlyRunsOut`, and `SecuredForgets` |
| `StoreProofs` | `TypeCorrect`, `StoreTypes` | `TypeOK` of Mutations, `StoreTypeOK` of RateLimiterStore |
| | `OnceClaimed` | `ClaimedOnce`, from an invariant on who holds a row and what was there when they locked it |
| | `Implements` | refinement of `RowStore` |
| | `Slides` | `SlidingBound`, of all three algorithms |
| | `Windows` | refinement of `Window`, which answers every call and refuses only what a window could not hold |

**The argument for the budget.** `OneCarrier` and `BudgetConserved` are not
inductive: an insert must know that its handle is in no row and has met no
guess. `Inv` adds `Known` (secrets in being were issued, unissued ones have no
wrong guesses). Steps that only let go of rows keep `Inv` by one lemma,
`LettingGoIsSafe`; the five that write a row have a lemma each. For the
refinement the mapping `Left` is rewritten, under `Inv`, from a CHOOSE over
carriers to arithmetic on history (`LeftIsHistory`), after which every action is
an `Issue`, `Wrong`, `Answer`, `Die` or a stutter of `CodeBudget`.

**The argument for the passwords.** `Inv` of `PasswordsProofs` has four parts
beside the types: `Roles` (where a request is says what it is doing), `Fresh`
(a session or link of a request, in the table or in somebody's memory, is of one
that is done, so nothing that is added is in anybody's memory), `Locks` (who
holds which row at which step, and that a sweep holding the user row has seen
every session) and `Evicting` (how far each re-securing request has come). The
foreign key is what the sweep rests on: with the user row held nobody can add.

**The argument for the accounts.** `Inv` of `AccountsProofs` has, of every
request, `Progress` (what its step says about the user it is for and the lock it
holds), `Locked` (the rows it has locked are there, and are all there are of the
user) and `Answered` (what it told somebody is in `stored`); of any two requests
that they are apart: no common lock, no common insert; and of the history that
`accounts` is `stored` without what was removed. One lemma per action shows that
its own request keeps its part, and `OnwardKeeps` that a request that only moves
on disturbs nobody else. `OneAtATime` gives the sweep what it needs: while the
user row is held nobody inserts a row that references it.

**The argument for the sessions.** `NextSummary` reduces the step relation to
insert, refresh, the two halves of a step-up, and quiet steps; each invariant is
then proved over five cases rather than seventeen.

**The argument for the cache.** `CacheInv` says of every value of a session that
is about (a row, what a request holds, a snapshot in a browser, one that an
answer will set) that it is of the session its token was handed out for, and of
that session's person (`IsOf`). A step never changes whose a row or a token is
(`Keeps`: the token of a step-up under way was never handed out), so what
overtakes an answer cannot make it wrong, and each action shows only what it
sets itself. A snapshot is clamped to its own session when it is written
(`WrittenIsClamped`), which no later step can undo. `ToldIsOver` adds that a
session a browser was told is over is out of the table and in none of its
requests or cookies.

**The argument for the doors.** `DoorsInv` counts, for every handle, the row it
is in, the request that claimed it and the sign-ins it came to: together at most
one. Handles of codes and links are apart (`SecretsApart`), and each belongs to
one subject, the owner that the invariant quantifies over; so shutting the other
door of one message never touches a door of another. What was shut with nobody in
it is in no row and in no request that could still enter by it (`Spent`), so
no later step signs in by it.

**The argument for the users.** The invariant says of every row, and of every
request on its way to a row or from one, what must have happened for it to be
there: which mailbox was asked, and which secret came back. Histories only grow,
so what a request relies on stays true while others overtake it, and no action
has to be compared with another one.

**The arguments for flows and ceremonies.** Both have two parts. Whatever names a
flow or a ceremony agrees with what it was started or minted for, which never
changes; and it is in one place: its row, or one request that took it out, or one
outcome. For `HandleIsKept` the invariant adds that whoever is about to tell an
authenticator a handle tells the one in the table, which the retry after a lost
race (`FindAgain`) keeps. `MarkIsKept` follows from it with the fact that a
request about to record has in hand no less than the row it read.

**The argument for the provider's tokens.** An account is known while it is a row
or a request has read it. Accounts known at once agree about whose an id and a
token are, and a token a request has gained is live and in nobody else's hands:
hence writing by id what was fetched for a row read earlier reaches the same
identity or nothing.

**The argument for the second factor.** What a request makes is named after it,
so `IInv` of `TwoFactorProofs` says of a name where it is: a pending sign-in in a
row, in one request that claimed it, or in one session (`Handles`); a device token
in one device or spent (`Devices`); a recovery code in the set or spent
(`Recovery`); a code of the app that proved something at or below the last step
used, or of an enrolment that is gone (`Steps`). Beside it stands that whoever made
something is past making it (`Over`, `HasToken`, `HasSet`), so a name is never
made twice, and in `Secured` that nothing a securing request found is remembered
anew. Two lemmas, `Starts` and `Continues`, reduce the steps of a request to how
it goes on (`Course`) and what the step changes (`Changes`); each part of the
invariant then looks at the two to five steps that touch it. For `TimeOnlyRunsOut` the
step between the two clock readings carries what was left, and a later row is
counted from it; the other steps only let time pass or drop what was there.

**The argument for the mutations.** A caller holds exactly the row it writes, from
the statement that locks it to the end of its transaction (`Locked`); a caller
whose transaction InnoDB has ended holds nothing. So between the lock and the
commit the row is what the caller made of the version it found (`Progress`:
each step is so far through the effect that `RowStore` promises), and the commit
is that effect in one step, which is the refinement. Every statement and every
undoing is a rollback, a commit or a write of one row by one caller (`Frame`,
`Own`, `Sources`), so a lemma of each kind does for all six mutations. For
`ClaimedOnce` the invariant adds where a row came from (`Origin`: each is inserted
by one caller, once) and that what somebody was answered to have removed is not
there (`Departed`): it cannot come back, and so cannot be removed again.

**The argument for the limits.** All three algorithms keep a level in time that
every token raises by one rate: when a window ends, when a bucket would have been
empty, when a run of learned windows will be used up. `StoreInv` says that what was
let through since any time is paid for by what the level rose above that time, up
to a slack (`PaidFor`), and that nothing was let through later than the next call
can be (`NothingAfter`). A sweep, an expiry or a refill only raises the level
(`StillPaid`). Whoever is let through finds a level not far behind its turn
(`PassingPaid`), and leaves one not far ahead of it, so a span pays for no more
tokens than its own length and that much are worth (`PassingBound`). What remains
for each algorithm is arithmetic: how far is not far. It is 0 and a full window
for the fixed window; a full bucket (or one call larger than that) and one interval
before, and nothing after, for the bucket; the largest call and one window for what was learned.

Only model-checked: both `Finishes` (liveness is out of the prover's reach). Every
other property of a run is a theorem. No module that is proved about uses a
recursive operator.

## 5. What the code says and does not do

Seen while modelling. The first four are stated in their modules under "What the
documentation says and the code does not do"; no run checks them, since the code
does not keep them.

- `expiresAt - updatedAt` does not recover the granted lifetime after a step-up,
  because `elevate` moves `updatedAt` alone (`domain/Sessions.ts:216`); the next
  refresh extends by the shorter distance. If a refresh commits while the step-up
  waits for the row, the step-up's earlier stamp lengthens the distance instead.
  `FallbackUnreached` shows the limit: it never falls to zero, where the
  configured lifetime would be granted.
- `OldPasswordKeepsNoSession`: a sign-in that compared the old password before a
  reset mints its session after it (`domain/Passwords.ts:819`). `SecuredEvicts`
  shows that everything that was there when the reset began does go.
- `WayBackIn`: an enrolment becomes active in one statement and its recovery codes
  are written in a later transaction (`two-factor/TwoFactor.ts:1231`). What fails
  in between leaves a second factor and no recovery code.
- `OriginalExpiry`: a wrong guess puts a pending sign-in back "with the *original*
  expiry" (`two-factor/TwoFactor.ts:1387`), but what is left is read off the clock
  (`:1342`) before `issue` awaits a digest (`domain/Verifications.ts:509`) and counts
  from a second reading (`:510`), so it ends later by that wait. `TimeOnlyRunsOut`
  shows the limit: time stands still while the digest is awaited, and no guess gives
  more than was left.

The cookie cache:

- a snapshot is said to outlive its row by its own age at most
  (`http/SessionCache.ts:32-33`, README.md:1552), but `updateUser` signs the cached
  session anew (`http/Handlers.ts:1102`), so a revoked session can be prolonged
  by requests that change the profile. `RefreshStaysHonest` shows the limit: never
  past the session's own refresh or end;
- a refresh sets the token that was presented (`http/MiddlewareLive.ts:484`), also
  where another request's step-up has rotated it since: the browser is left with a
  token of no session beside a snapshot bound to the new one. The two do not
  match, so nothing answers (`Answered`, `Matches`), and it has to sign in again.

Sessions and sign-in:

- a request that read a session by its old token before a rotation, and
  refreshes after it, is answered with the raised session;
- a row found expired is deleted by id, even if a refresh decided just before
  the expiry has extended it (`domain/Sessions.ts:673-678`); a refresh that stalls
  can move an expiry backwards;
- of two concurrent step-ups the later commit can carry the earlier
  `authenticatedAt` (`domain/Sessions.ts:634`); it is still backed by evidence
  (`EvidenceBacked`);
- `unlink` locks account rows only, and the removal of a passkey counts by a plain
  read and locks nothing, so each can count on what the other deletes
  (`domain/Accounts.ts:551-553`). `CountedAccountStays` shows the half that holds;
- a change verified against the old password overwrites the password a reset set
  meanwhile (`domain/Passwords.ts:1032`): the guard of the write sees only removal.

Codes and links:

- the code and the link of one message can both sign in if the two requests
  overlap (`email-otp/EmailOtp.ts:1334`): they are two rows, while
  `email-otp/Api.ts:387` describes one;
- `settle` decides on `emailVerified` as read before the transaction; an address
  verified in between does not stop the sweep (`email-otp/EmailOtp.ts:1179`);
- a restored code's expiry drifts by the time between the two clock readings
  of `restore` and `issue` (`domain/Challenges.ts:364`);
- two issuances for one subject can both retire and then both insert, leaving
  two live codes (`domain/Challenges.ts:319-326`); each has its own budget.

Addresses:

- a change of address can be confirmed from an address the account has left by
  then, where the confirmation was read before another move committed, although
  `domain/Users.ts:11-13` speaks of the account's address;
- `verifyEmailChange` of Email OTP moves an address and retires no link, while
  `domain/Users.ts:745-760` says that every link of before dies with a move:
  hence `NoLinkOutlivesTheMove` is about moves by link;
- a request for a reset or deletion link that read the account before a move
  mails the old address after it;
- two overlapping requests for a change leave two live links, although
  `domain/Users.ts:506-512` says exactly one.

Providers and second factors:

- a link that waited for a sweep attaches its account after it
  (`domain/Accounts.ts:325-339`), to a user who has been swept;
- a later sign-in without a refresh token writes NULL over the stored one
  (`oauth/Flow.ts:951`, `domain/Accounts.ts:341`);
- a sign-in whose identity is unlinked between the search and the update of its
  tokens still signs in (`domain/Accounts.ts:344`);
- `confirmTotp` activates whatever enrolment is pending by then, also one that
  replaced the one the code was compared with (`two-factor/TwoFactor.ts:1231`), and
  `consumeTotpStep` likewise; `OneProofPerCode` is stated with that exception;
- a second pending sign-in does not retire the first, although
  `two-factor/TwoFactor.ts:360` says so: `decide` only issues, so both can be
  finished, each once.

Passkeys:

- the mark of a counter (`passkeys/Passkeys.ts:1023`) can fall, and a user
  verification that was seen be unlearnt, by two overlapping ceremonies, because
  `recordUse` writes what was computed from the row as read (`1035-1037`);
  `MarkIsKept` is stated with that exception, and two assertions with one count can
  both pass;
- a passkey removed between the search and `recordUse` still signs in (`1048`);
- a step-up is described as bound to its ceremony (`476-481`, `501-505`), and the
  code raises the caller's session whenever the passkey is the caller's, bound
  or not (`1059`).

Transactions:

- what a body writes after InnoDB ended its transaction stays, as
  `sql/stores/Transaction.ts:64` itself says; what the runs add is that nobody
  else's answer is affected, although such a body's statements lock nothing for
  the next.

## 6. Assumptions

- Tokens, handles and secrets are fresh, and hashes are injective. A code's handle
  is no link's (`SecretsApart`), and a sentinel is none of the things it stands
  beside (`NoneIsNothing` and its like).
- A sign-in's log has an entry that was completed just then (`SignInsAreFresh`):
  every ceremony hands over its own evidence, and the second half appends its
  attempt's to the first's (`two-factor/TwoFactor.ts:1406`).
- Two readings of the clock in one synchronous stretch are one instant; across
  an await they differ. In Users and Passkeys nothing expires by the clock: an
  expired row answers as a missing one does, and may go at any time (Passkeys) or
  is not asked for (Users).
- Users are not deleted in Accounts and TwoFactor, so the branches that find no
  user there do not arise; nor does the second `NotFound` of `unlink`, which
  holds the locks by then.
- The pre-check of a sign-up is part of `CreateUser`: the unique key decides.
- A deployment keeps the default `revokeUnprovenAccounts`; where
  `requireEmailVerification` refuses a sign-in, `Abandon` covers it.
- The four statements of `retireUserSubjectTokens` are taken as one.
- Foreign keys are enforced. The insert of a session waits for whoever has locked
  its user's row: the foreign key takes a share lock on PostgreSQL and MySQL, and
  SQLite has one writer.
- A provider redeems a code once, and checks PKCE or puts the nonce of the request
  in the id token.
- User verification is "preferred" in Passkeys, so its flag is free.
- The parts of a millisecond are fine enough for every limit that can be learned
  (`PartsAreExact`), and the clock and every duration are whole milliseconds
  (`WindowsAreNumbers`): the rounding of the code's doubles is not modelled.
- Events and mails are outputs and change no state; `ended` counts one kind of
  event.

## 7. Not modelled

`deleteAndRead` of `sql/Mutations.ts` has no caller. Parsing, the origin check,
provider descriptions, crypto primitives, configuration, the client and the test
layers parse, wire or compute without state between steps. Schema and migrations
appear only as the constraints the modules rely on (unique keys, the foreign
key). Sign-up creates another user row than the one Passwords is about; it is in
Accounts. The profile update of Users writes nothing anything here reads.

Four plugins have no module. Phone verifies a number by the codes of Challenges
and marks it as Users marks an address; Username claims a name by the conditional
upsert of Mutations; One Tap is a callback of OAuthFlow whose flow is a nonce;
Anonymous adopts a guest's session. Their new questions are listed below. The
discovery and key caches of OAuth, the deciders a deployment adds to
`SignIn.complete`, and the retention of events are not modelled either.

## 8. What is left

1. Composition of TwoFactor with Sessions, whose `elevate` the step-up calls.
2. Anonymous: a guest that becomes an account while its session is refreshed, and
   the merge of two. Phone: two people verifying one number.
3. The key cache of `oauth/IdToken.ts`: a key rotated between two callbacks.
