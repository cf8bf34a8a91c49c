# Formal model of urekoi

urekoi is a matching application: a Go API (`apps/api`, Gin and GORM on
PostgreSQL, Redis for WebSocket tickets and Pub/Sub, S3 for photos) and a
Next.js web client (`apps/web`). This directory holds TLA+ modules translated
from that code, the TLC configurations that check them on small instances, and
TLAPS proofs of the results that hold for every instance.

Paths below are relative to `src/apps/`; `api/` and `web/` are its two halves.

## 1. The system

### Components and their state

| component | code | state it keeps | operations | module |
|---|---|---|---|---|
| Matching | `api/usecases/like_usecase.go`, `skip_usecase.go`, their repositories | tables likes, skips, matches | SendLike, SendSkip | `Matching` |
| WebSocket connections | `api/controllers/ws_controller.go`, `api/ws/`, `ticket_repository.go` | Redis tickets, the hub, goroutines and locks of each connection | IssueTicket, Connect, ping, read loop, Hub.Add/Get/Remove, subscriber | `WsDelivery` |
| Messaging | `api/usecases/message_usecase.go`, `web/hooks/use-match-profiles.ts`, `use-messages.ts`, `use-ws-connection.ts`, `web/components/messages/chat-view.tsx` | table messages, pushes under way, browser caches | SendMessage, publish, apply a push or an answer to the caches, poll, refetch | `Messaging` |
| Accounts | `api/usecases/auth_usecase.go` | tables users, password_credentials, auth_identities | SignUp, Login, GoogleLogin | `Accounts` |
| Sessions | `auth_usecase.go`, `web/proxy.ts`, `web/actions/auth.ts` | table refresh_tokens, browser cookies | Login, Refresh, Logout, the proxy | `Sessions` |
| My profile | `api/usecases/profile_image_usecase.go`, `myprofile_usecase.go`, `web/components/myprofile/profile-photos.tsx` | tables profile_images, profile_tags, S3 objects, SWR caches | upload, delete, PUT /myprofile | `MyProfile` |
| Partners | `api/usecases/partner_usecase.go`, `api/repositories/profile_repository.go`, `web/hooks/use-search-profiles.ts`, `web/providers/recs-provider.tsx`, `web/components/recs/swipe-card-deck.tsx` | feed caches, the deck, the queue of server actions | Search with a cursor, fetch pages, swipe, like | `Partners` |
| Received likes | `web/hooks/use-received-likes.ts`, `use-return-like.ts` | cached list, its total, cached details | poll, return a like | `Partners` |
| Profile form | `web/app/(app)/myprofile/edit/page.tsx`, `web/components/myprofile/profile-edit-area.tsx`, `updateMyProfile`, PUT /myprofile | the form in each tab, the row of profiles, its links to tags | open, edit, toggle a tag, save | `ProfileForm` |
| Entry | `web/app/welcome`, `signup`, `login`, `settings` with their components, `web/actions/auth.ts`, `web/proxy.ts` | cookies shared by the tabs, the page and step of each, server actions under way | visit, navigate, sign up, log in, Google's popup, create the profile, log out; redirects | `Entry` |
| First profile | `web/app/signup/profile/page.tsx`, `schema.ts`, `web/actions/myprofile.ts`, `api/validators/myprofile_validator.go`, `api/usecases/myprofile_usecase.go` | the form's values and step, the row of profiles, cookie has_profile | choose, enter, next, back, submit; POST /myprofile | `SignupProfile` |

The components interact through the database rather than by calls: SendLike
creates the match that Messaging needs, likes and skips take profiles out of
Partners' feeds, a sign-up adds one. SendMessage publishes to Redis, the
subscriber of every API instance pushes to the connections of its hub, and the
browser applies the push to its caches. Every request of the browser passes the
proxy, which may rotate the session first, and which sends it to `/welcome`, to the
form of the first profile or into the application by the cookies it finds.

### What is hard about it, and what must hold

- **Concurrency without transactions.** Most requests are several auto-committed
  statements. What keeps two requests apart is a unique index, the order
  "write, then look", or nothing. Must hold: one match per pair, no lost match
  (Matching); one account per email, a sign-up that is whole (Accounts); a session
  that parallel rotations keep, and no valid token that nobody accounts for (Sessions).
- **Two stores, no common transaction.** Photos are objects in S3 and rows in
  PostgreSQL; messages are rows and pushes. Must hold: no registered photo
  without its object, nothing pushed that is not stored.
- **Caches with several writers.** TanStack Query and SWR caches are written by
  fetches, pushes and answers. Must hold: the cache says what its tab was told;
  a conversation is listed once; polling repairs what pushes lost.
- **Goroutines that share a lock with a blocked writer.** One subscriber serves
  all connections, without a write deadline. Must hold: it comes back; a lost
  connection leaves the hub and ends its goroutines.
- **Copies that outlive what they were made from.** `has_profile` is a copy, in a
  cookie, of what some answer said about some account; a form is a copy of the profile as
  it was when the page was shown. Must hold: the cookie is of the account that is signed
  in and catches up; a form that counts as saved is the profile.
- **One rule in two places.** The form checks the age limits by the browser's date,
  the API by its own, in code of their own. Must hold: they disagree only across a
  birthday. (The limit on tags is in one place only, the form: it must hold of what
  is stored nevertheless, unless saves overlap.)
- **Failure at any statement**, lost answers, the proxy's timeout, and retries
  of what has already been done.

`PROJECT.json` lists each of these hazards at its line with the properties that
are about it, or the reason why none is.

## 2. Modules

Every component has a module with its state, one action per statement or step
that can interleave, and its properties at the end; an `MC` module gives TLC its
sets and symmetries; a `Proofs` module holds the theorems. Definitions marked
`Mutant` are the plausible bugs that the properties must detect: they are used by
no specification. `Entry` has names of its own for `Init`, `Next`, `Spec` and `vars`
(`EntryInit` and so on), because `AccountsProofs` extends it together with `Accounts`.

| module | models | abstracts |
|---|---|---|
| `MutualLike` | what matching promises: a mutual like becomes one match, for good | everything else |
| `Matching` | SendLike and SendSkip, one action per SQL statement, any number of requests; implements `MutualLike` | the notification toasts, the rows of profiles |
| `WsDelivery` | one API instance: tickets, Connect with read loop and ping goroutine, Hub, SafeConn's lock, subscriber | time (a deadline may pass once its peer is lost); payloads are a recipient and a number |
| `Messaging` | SendMessage statement by statement, pushes to one browser, its three kinds of query caches with fetches in flight, histories read with a limit, inbox and chat pages | texts, the WebSocket itself (pushes are in order or lost) |
| `Accounts` | SignUp with its transaction, GoogleLogin and Login, statement by statement, with row locks of uncommitted inserts | passwords (a request is its own), tokens |
| `Sessions` | one browser of one user: cookies, requests with the cookies they left with, the proxy and its 5-second timeout, Refresh statement by statement, the login, logout and profile actions | hashing, JWTs, Google sign-in (its cookies are those of a login) |
| `MyProfile` | one user in several tabs: presign, PUT to S3, registration, deletion, PUT /myprofile, SWR fetches | attributes of the profile, sort_order, orphaned objects |
| `Partners` | the cursor query, the feeds as infinite queries, the deck with its animation guard, the polled list of likes received with its total and the match that returning one makes, the queue of server actions, another device | filters that are constant for a user, the cached details, dragging |
| `ProfileForm` | the edit page in several tabs: its two reads, the form, PUT /myprofile statement by statement with failures, lost answers and saves that go on behind the user's back | the attributes are one value that may lack the nickname; photos (in `MyProfile`); the router's cache of pages; which tags are listed under which heading |
| `Entry` | the way in and out in the tabs of one browser: pages with their steps and forms, React's action state, Google's popup, server actions with late and lost answers, the proxy's redirects, the dialog to log out, all for several people | fields of the forms but for the consent; statements of the API (`Accounts`, `SignupProfile`), tokens (`Sessions`) |
| `SignupProfile` | the form of the first profile in several tabs, its check of the age and the API's on the real calendar, createMyProfile, POST /myprofile statement by statement | prefecture and nickname (they pass once entered), the other fields of the row, the hour of the day |

How a module's state and actions correspond to the code is written beside each
definition; `map` in `PROJECT.json` gives the lines. In general a local variable
that outlives a statement is a field of the request's record, a table is a set of
records, `pc` or `state` is the statement to execute next, and a commit, an
early return or an error is a disjunct of its own. A `history` variable records
what happened for the sake of a property; no guard reads one, except `used` of
`MyProfile` (a file or an update is sent once) and `dealt` of `Partners` (the
first page of recommendations is rendered once). In `Messaging` requests are sent in
the order of their numbers, and in `ProfileForm` saves: which number a request has makes no
difference, and the order saves states.

`MutualLike` is the abstract specification of matching; `Matching` maps its
likes to `liked` and the pairs of its rows to `matched`. The other modules stand
beside each other, since what they share is a row that the other one sees
appear: in `Partners` likes of other devices are `DecideElsewhere`, and in
`Messaging` the Redis channel and the hub are `wire`, in order and at most once,
which is what `WsDelivery` shows of them (`InOrderAndOnce`, `NobodyIsSkipped`), and
to the recipient, whose entry is the only one the subscriber takes from the hub.
`Entry` takes a request of the API as one step whose answer is a set of outcomes, which
`Accounts` and `SignupProfile` refine into statements, and a session as one value, which
`Sessions` splits into tokens; `ProfileForm` and `MyProfile` are two views of the same
PUT /myprofile, one of what the form says and one of what `Save` does to photos.

## 3. Runs

Run `tlc -config <run>.cfg <MC module>` in this directory. States are distinct
states under the symmetry of the cfg.

| run | question | bounds | states |
|---|---|---|---|
| `matching_race` | Do all interleavings of likes and skips, with a failure after any statement, lose no match, tell one of the two, and answer with the pair's row? Does `Matching` implement `MutualLike`, and does a mutual like become a match if neither request fails? | 2 users and an unknown id, 3 requests at a time, slots reused without end | 1.0 M |
| `matching_retry` | Does a retried like establish the match, as SendLike's comment says? **No.** | 2 users, 2 requests | 2 k |
| `ws` | Are connections registered exactly while they live, does each receive its messages once and in order while others come and go, does one goroutine at a time write to it, and do the subscriber and a lost connection get free again, whoever stalls while holding the lock? | 1 user, 2 tabs, 2 tickets, 2 payloads | 406 k |
| `accounts` | Do concurrent sign-ups and Google sign-ins leave one account per email, whole accounts that belong to who was answered, and one user per Google account? | 3 requests, 2 emails, 2 Google accounts with 3 claims | 20 k |
| `msg_chat` | Do pushes, answers and fetches show only what is stored, list a conversation once and bring a chat every message once, without a gap, unless a fetch overlaps? Does polling bring the row of new matches in line with the table? | 1 match, 2 messages of either side or an outsider, histories of 1 | 1.2 M |
| `sessions` | Do parallel refreshes, timeouts, lost answers and logouts keep the session or end it, as they should, and do they leave valid tokens behind? | 2 requests under way, 3 tokens | 2.1 M |
| `myprofile` | Do uploads, deletions and saves in several tabs keep photos and objects together, the grids right and the tags one update's? | 2 tabs, 2 files, 2 updates, 3 of them sent; a grid of 2 | 1.4 M |
| `myprofile_deleted` | Does a photo that was deleted stay deleted? **No.** | 2 tabs, 1 file, 1 update | 2 k |
| `partners` | Do the pages of a feed lose nobody and list nobody twice, does a liked profile leave them and the likes received, and is a card decided once? | 3 others, pages of 2, one part of the application, 2 actions waiting | 2.8 M |
| `signup` | Does the API accept what the form let pass, and does one profile come of several submissions, the one whose tab was told? | 2 tabs, 2 submissions at a time, 4 dates of birth, 2 days | 1.8 M |
| `entry` | Whatever two tabs do, and whenever answers arrive, is `has_profile` of the account that is signed in, and does it catch up? | 2 tabs, 2 people, no bound on steps | 644 k |
| `profile_form` | Is a form that counts as saved the profile, and do tags keep to the limit and to one link each unless saves overlap? | 2 tabs, 2 saves, 2 tags of a category whose limit is 1, 2 values of the attributes | 953 k |

### Why the bounds are enough

- *Matching.* Every property is about one pair, and rows of other pairs are not
  read. Three slots allow the two likes and a repetition of one at the same time;
  the slots are reused, so that retries and later requests are covered too.
- *WsDelivery.* Two connections of a user are what the in-place removal of
  `hub.go` needs to go wrong, and a peer that is well beside one that is stuck; two
  payloads show order. The hub is a map, and each step reads or writes the entry of
  one user only: connections of other users could only delay the subscriber, which
  one more of the same user does as well. (That connections of two users do not mix
  is not put to the test.)
- *Accounts.* Two requests race and a third one follows. The three claims are two
  Google accounts with one email, and one account whose email has changed.
- *Messaging.* Two messages are what order, duplication and the choice of a last
  message take; with a limit of one (50 in `message_controller.go`) a history that is
  read leaves out the older. A push or an answer is applied to one match, and entries of
  other matches are left as they are; the instance has one. The theorems hold for any
  number of matches, messages and for any limit.
- *Sessions.* Two requests with the same token are the race; three tokens are the
  first one and one rotation each. With `MaxTokens` spent a request waits, which
  restricts behaviours and invalidates none of them.
- *MyProfile.* Two tabs race. `MaxRequests` lets them send two files and one
  update, or one file and two updates: a deletion needs a file and competes with
  one save; tags need two updates. A grid of two is full in one case and not in
  the other. The theorems hold without any bound.
- *Partners.* Three profiles and pages of two make a full page with one more row,
  a last page, and a page that becomes empty. `Visits` gives a behaviour one of
  deck, feed and likes received: these share no cache that is modelled, and what
  they share, the rows and the queue of actions, other devices and the waiting
  actions of the same part exercise as well. The newest feed stands for both: the
  recommended one is the same with the ids read backwards, and every set of ids
  occurs. Others like the user only where the likes received are shown.
- *Entry.* Two tabs are one that changes the session and one that does not know; of two
  people one is signed in while an answer about the other arrives. A tab has one action
  under way, as in Next.js, and may send any number one after the other. The theorem
  holds for any number of tabs and people.
- *ProfileForm.* Two saves are what overlaps, and one save with a stale form after
  another. Two tags with a limit of one are the third and the fourth of a category: the
  operators count and compare, nothing depends on the number three. Two values of the
  attributes tell a form from the profile.
- *SignupProfile.* Two tabs race, and a tab that submits twice. The days are the end
  of a February without a 29th, on either side of which the four dates turn 30, 36
  or 18 or do not exist; every other day of the calendar behaves like one of the
  two. A user enters one date, changes the gender, and goes through the form again.

### Deadlock

Checked in the Matching runs, `sessions`, `signup`, `entry` and `profile_form`. Elsewhere `CHECK_DEADLOCK FALSE`, since a behaviour
may end: each connection, message, sign-up, file and update of an instance is used
once, and the user of `Partners` may have
decided on everybody. What would be a real deadlock is in the liveness properties of
the one component with locks: `SubscriberReturns` and `LostPeerIsCleanedUp`.

### Fairness

- `Matching` (`FairSpec`): weak fairness of the API's next statement of each
  request. Gin runs a request on a goroutine of its own, and statements return.
  Nothing is assumed of clients.
- `WsDelivery` (`FairSpec`): weak fairness of every goroutine's next step, of the
  read deadline of a lost peer, and of a blocked write that ends once its
  connection is closed; strong fairness for the subscriber's taking of the lock,
  because Go's mutex hands itself over to a waiter that has starved for a
  millisecond (the ping goroutine needs no more than weak fairness for what the
  run checks). A peer that is
  alive reads: writes to it return. Nothing is assumed of browsers otherwise, and
  a stalled peer never recovers in the model.
- `Messaging` (`FairSpec`): the interval of 15 s goes on while the inbox is open
  (weak fairness of `Start`), and of a fetch repeated for ever the server answers
  one that comes through in the end (strong fairness of `ServerReads` and
  `FetchReturns`). Without the latter nothing can be promised of a browser that is
  offline.
- `Entry` (`FairSpec`): weak fairness of `Refresh`. The access token's cookie lasts an
  hour (`cookie.ts`), and the next request of a browser that is still used refreshes it;
  nothing is assumed of what users do otherwise, nor of the answers of actions.

The other specifications have no fairness: users, browsers and networks may stop
anywhere in them, and their properties are of safety.

## 4. What the checks show

Matching: a lost race of two likes cannot lose the match, because each request
inserts before it looks; the unique index alone makes it one, and the loser
answers with the winner's row. A failure after the insert, however, does lose it:

> **Finding 1** (`matching_retry`). `like_usecase.go:53` commits the like before
> the partner's is looked for. If the request fails in between, the retry is
> refused as a duplicate at line 55, and two users who like each other are never
> matched, against the comment at line 37. Both then stay on each other's lists of
> pending likes.

WebSocket: connections are listed exactly while they are open, although Remove
shifts the slice in place, because Get copies. The subscriber is held up by a
stalled peer until the read deadline closes the connection, not longer.

Messaging: no phantom messages and no doubly listed conversations. Pushes and sends
alone keep a chat complete; the only thing that spoils it is a fetch that overlaps with a
message of it, or the loss of one of its pushes or answers (`spoiled`). A history has the
newest 50 messages when it is read and the following ones after that: a refetch may
shorten it, but it never has a gap. The row of new matches converges since it is polled.

Accounts: all properties hold for the code as it is, with the unique indexes
and the one transaction it has; each of the mutants drops one of them.

Sessions: rotation stores the new token before it deletes the old one, and of parallel
refreshes each either finds the old token or another's answer brings a good one. A session
ends through a lost answer, the proxy's timeout or a failure in `hasProfile` if the rotation
was past its DELETE; `closed` records those. The new token then stays valid for 30 days with
nobody who has it, as does one that an answer overwrote in the cookie; `stray` records those,
and rotations and logouts leave no others. A logout ends the token it was sent with and the
one its own proxy step got for it; a successor that another request gets is not ended, and
logs the browser in again if its answer comes last.

My profile: no order of failures leaves a registered photo without its object
unless someone asked to delete it, and no overlap of fetches, uploads and deletions
makes a grid contradict its tab.

> **Finding 2** (`myprofile_deleted`). `UpdateMyProfile` reads the profile with its
> photos and hands it to GORM's `Save` (`myprofile_usecase.go:96`), which inserts
> has-many rows that are missing. A photo deleted in between is a row again, without
> its object: a broken photo, though DeleteImage and the toast of
> `profile-photos.tsx:112` said that it is deleted. (`Prefecture` is reset before
> the `Save`, `Images` is not.)

Partners: the cursor and the extra row lose nobody and repeat nobody, whoever is
decided on or signs up meanwhile. A liked profile leaves the cached feeds unless a
fetch that had read it was under way, and a returned like the list of likes
received; the total beside that list counts it, unless a poll took the profile out
before the answer did; a card leaves the deck with exactly one decision, unless the
deck is left while one is being sent.

First profile: form and API apply the same rule; a request is refused only if a
birthday passed between the two checks. The button can be pressed again while a
submission is under way, since `isCreatingProfile` is set in a transition, and two
tabs may pass the look for an existing profile together: the unique index leaves
one row, and the tab that is told of success is the one whose values it has.

Entry: whichever tab signs up, logs in or out, and whenever the answers come, `has_profile`
is never set for an account without a profile, with one exception, which the model keeps
in `crossed`: the form of the first profile was sent as one account, and its answer 201
arrived after another one had signed in (`actions/myprofile.ts:36` sets the cookie without
asking whose session it stands beside). In the other direction the cookie may be behind,
until the next refresh of the session sets it from the table.

Profile form: with any statement failing and answers lost, a form is the profile whenever
it was read between saves, and again after its own save, provided that ran alone. Forms that
go stale overwrite each other, last one wins, but never exceed the limit or link a tag
twice; what can do that is two saves that overlap.

### Known behaviour that no property claims

Met while modelling; each is a consequence of the code which nothing in the
repository contradicts, or contradicts in a part that is not modelled.

- The list of pending likes shows users one has skipped; `docs/openapi.yaml` says
  otherwise (`like_repository.go:48`; `GetPendingLikes` in `Partners`).
- A like that is returned while the match fails to be stored (finding 1) stays on
  the list of likes received for good: the next attempt is refused.
- The total of the likes received is decremented although a poll has taken the
  profile out already: one too few until the next poll (`use-return-like.ts:44`).
- Feeds and the list of likes received write their profiles over the cached details
  with `already_liked` false (`use-search-profiles.ts:51`, `use-received-likes.ts:32`);
  a like that was returned is still on a feed fetched before it, and showing the
  feed un-marks the detail that `use-return-like.ts:50` had marked. (The details are
  not modelled.)
- `has_profile` can fall back to false: a refresh reads it, the profile is created,
  the refresh's answer arrives last (`auth_usecase.go:266`, `proxy.ts:107`).
- A cached history lacks a message if the refetch after a send joins a fetch that
  had read the table before (`use-messages.ts:14`, `chat-view.tsx:55`); a push
  during the server's rendering of the inbox may leave a match in neither list
  until the next poll or message.
- Two overlapping `ReplaceProfileTags` leave the tags of both
  (`profile_repository.go:119`), beyond the limit of the form, and a tag of both twice, as
  `profile_tags` has no unique key; the attributes may be the one form's and the tags the
  other's. It takes no two people: a save whose answer is lost goes on in the API, while
  the button is enabled again (`profile-edit-area.tsx:117`).
- After a logout `has_profile` stays (`auth.ts:150`). It is replaced by the next login or
  sign-up, and no page but the proxy's redirect reads it.
- The tab of Google's popup may have been left: its callback still signs in, over whoever
  has signed in meanwhile, and moves that tab to its own page (`google-signin-button.tsx:64`).
- A profile is created for the account whose token the browser has when the form is
  submitted, not for the one the form was opened as (`myprofile.ts:27`).
- Log-in's `z.email` (`login/schema.ts:4`) refuses addresses that sign-up's pattern and the
  API accept (`signup/schema.ts:3`): their owner can sign up and not log in.
- A status outside the documented ones makes an action return the raw response
  (`actions/auth.ts:63`), which is then used as a result.
- `sort_order` is the number of photos, so that after deletions a new one is not
  last (`profile_image_usecase.go:72`); nine photos are a limit of the grid only.
- The photo grid lists a photo twice if a fetch has seen its row before
  `createProfileImage` answers; an edit before the first load leaves SWR's cache
  undefined, and the grid empty until the next fetch.
- The deck refetches from `/api/recs`, which does not exist (`use-recs.ts:9`): it
  ends after the first 20 candidates.
- A submission that is answered 409, 500 or not at all although the profile exists
  leaves `has_profile` false: the user stays at the form until a refresh of the
  session (`actions/myprofile.ts:45`). The loser of two inserts is answered 500.
- The texts of the form say women from 35 and men below 35
  (`signup-birthday.tsx:59`, `signup-consent.tsx:46`); form and API accept women
  from 30 and men up to 35 (`schema.ts:3`, `myprofile_validator.go:18`).
- `fetchNextPage` writes back pages it started from, and with them a profile liked
  meanwhile; a card reopened while its decision is being sent can be decided twice.

## 5. Proofs

`tlapm <module>.tla` checks every proof; nothing is assumed but the assumptions
on the constants, which TLC evaluates in the runs. Each theorem follows from an
inductive invariant by `Init => Inv`, `Inv /\ [Next]_vars => Inv'` and
`Inv => property`, with one step per action.

| module | theorems | holds for |
|---|---|---|
| `MatchingProofs` | `MatchingTypes`, `MatchesAreSound`, `NoMatchIsLost`, `OneOfTheTwoIsTold`, `MatchingImplementsPromise` | all users, ids, requests, with or without failures |
| `AccountsProofs` (`Accounts`) | `AccountTypes`, `EmailsHaveOneAccount`, `SignUpsAreWhole`, `GoogleIdentifiesTheUser`, `SignUpAnswersAreOwners` | all emails, Google accounts, claims and requests |
| `AccountsProofs` (`Entry`) | `EntryTypes`, `HasProfileIsOfThisAccount` | all people and any number of tabs |
| `SessionsProofs` | `SessionTypes`, `SessionIsKept`, `LogoutsRevoke`, `TokensAccounted` | any number of requests and tokens |
| `WsDeliveryProofs` | `WsTypes`, `HubIsExact`, `PushesInOrder`, `PushReachesAll`, `WritersExclude` | all users, connections, tickets and payloads |
| `MessagingProofs` | `MessagingTypes`, `NothingIsPhantom`, `ConversationsListedOnce`, `ChatsAreComplete` | any number of matches and requests, any limit of a history |
| `SignupProfileProofs` | `SignupTypes`, `OneRule`, `OneProfile` | any number of tabs and submissions, all dates of birth, all sequences of days |
| `PartnersProofs` | `PartnersTypes`, `ProfilesOnce`, `PagingLosesNobody`, `LikedAreTakenOut`, `TotalIsTheLength`, `DeckDecidesOnce` | any finite number of others, any size of a page, any number of waiting actions |
| `MyProfileProofs` (`MyProfile`) | `MyProfileTypes`, `RegisteredPhotosAreStored`, `DeletedPhotosAreGoneFromS3`, `GridsFollowAnswers`, `LoneUpdatesSetTags` | all tabs, files, updates, grids and bounds |
| `MyProfileProofs` (`ProfileForm`) | `FormTypesHold`, `FormsShowTheProfile`, `TagsStayAsChosen` | any number of tabs and saves, any finite set of tags, any categories and limit |

**Matching.** `NoLostMatch` speaks of requests that are done; it is inductive only
with what the running ones are about to do. `Working` ties the request of a like
under way to that like, `OneWorker` says that it has at most one, and `History`
is the heart: of two opposite likes at most one has ended "pending", because the
later INSERT makes the later look succeed. `Rows` adds that the rows of matches
are ordered and that their ids lie behind the sequence, from which follow the
uniqueness of matches and, with one lemma per action, the steps of `MutualLike`.

**Accounts.** A transaction that has inserted but not committed holds its email.
`EmailsHeldOnce` says that no two hold one and that no user has it; with
`FreshIds` (ids come from the sequence) the commit keeps `OneAccountPerEmail`.
`LinkedOnce` and `KindOfState` say which request is where with what in hand,
`SignUpsOwnTheirAccount` what a sign-up past its commit has written.

**MyProfile.** That rows have objects (`Stored`) is inductive together with what
uploads and saves under way are going to register. That a deleted photo has no
object (`Deletions`) needs more: an object comes only by a PUT, so a file being
uploaded must be nowhere else, in no row, call or past deletion (`Files`: presigned
once, distinct among tabs). The grids follow from what the table owes to the
answers given (`Table`), whence each fetch reads something that agrees with them;
`mutate()` discards the fetches that were read before. For the tags, `Overlaps`
says that an update nobody overlaps with has seen every link it must delete.

**Profile form.** What a form shows depends on what any save in the API may still write. A
save sent while none ran deletes every link there is, since nobody else inserts any
(`RunsAlone`: what its DELETE sees is all of them), so what it stores is what it sent; a form
in sync has no save beside it (`InSync`). For the tags, `OneByOne` says that until two saves
overlap each form and each save fits the limit, and that the links a save has read or is
deleting are those of the profile, so that inserting read links again adds none. That the
links are as many as a form asks for is a bijection (`CopiesAre`, `NewLinks`), and that
toggling keeps the limit a count (`ToggledFits`).

**Entry.** An answer carries `has_profile` to the cookies long after the API looked.
`AnswersAreTrue` says of every answer under way that its account exists and, if it says
so, has its profile, and that an answer of `createMyProfile` says so; as no profile is ever
deleted, that is still true when the answer arrives. Two predicates carry the proof:
what a step of one tab may do (`Good`), and what a request may do (`MayDo`).

**Sessions.** No property of the rotation is inductive: that the cookies' token is good
depends on every refresh under way. The invariant (`NewTokensApart`) says that a token just
created is in one place only, first with the call that created it, then with the answer of
its request, then in the cookies; no other request can name it before it is there, so none
can revoke it. `Sound` says of each request which tokens it may hold at which statement.
Every action of a request makes moves of one kind (`Moves`: it issues unknown tokens,
revokes only those it names, and hands on what it holds), and one lemma shows that such a
move keeps the invariant. `Accounted` is
`NoTokenLeftBehind` with what makes it inductive: which tokens a request or call holds.

**WsDelivery.** `InOrderAndOnce` is about one browser, and rests on the whole path: the
channel is in order, the payload being pushed is older than what is on its way, and whoever
is still a target has not received it (`Numbered`). The last is true only since the hub
lists nobody twice, which `Remove` keeps although it shifts the slice in place, as Get's
copy is what the subscriber walks through. `Served` adds up the steps of a push, for
`NobodyIsSkipped`; `Locks` says which goroutine holds a connection's lock at which step.

**Messaging.** A message is followed from the INSERT to the cache. `Delivery` says that ids
are taken once, that what is published or pushed is stored, and that a message is on the
wire once. `ChatsComplete` says of a chat that nothing spoiled that each stored message is
shown or on its way, never both, but for messages older than all of these, which a full
history has left out. A fetch agrees with it because of `Overlaps`: while a message of the
chat is under way, a fetch spoils the chat, so the answer of one that did not is what the
table still has. With nothing under way this is `ChatCompleteWithoutOverlap`.

**First profile.** `OneRule` needs two facts. On dates: the age computed by both sides is the
number of birthdays passed, and form and API accept the same ages, so that whoever is accepted
on one day and refused on another has had a birthday between them. On the form: what
is sent was checked, as it is and on some day since, whichever way the steps were gone
through (`FormDone`, `Checked`). `OneProfile` rests on the row being inserted once and never
changed here (`Created`, `Told`).

**Partners.** Each of the lists has an invariant of its own over the shared tables. A feed's
pages are in the order of the query, and whoever is on none of them and is not decided on
comes after the cursor (`FeedInv`), which gives both that nobody is twice and that nobody is lost.
In the deck, the card being sent is the one on top and its decision is the only one waiting
for it (`DeckInv`). A returned like is a match, hence no later read has it (`LikesInv`).

Lists are answered by queries with ORDER BY and LIMIT. What such an operator returns would be
an induction over the length, which the library's induction theorems cannot give here
(they take an operator as parameter). In `MessagingProofs` it is proved instead by a least
counterexample (`DescendingIs`): the natural numbers are well-founded (`WFMin`, cited through
`Least`), so that of the sets without a descending listing one has least cardinality; taking
out its greatest element gives a contradiction. This is why `Messaging` defines its lists by
CHOOSE. `PartnersProofs` uses `Least` and `Greatest` for the first and the last id of a query.

The assumptions on the constants are what the code justifies: finitely many others and at
least one of a page (`Partners`), finitely many tags (`ProfileForm`), tokens and payloads bounded by some number (`Sessions`,
`WsDelivery`), years with four digits (`SignupProfile`: the form's fields and PostgreSQL's
dates), requests numbered (`Messaging`), and names for "none" that are no member of the set
beside it (`Nobody`, `NoCall`, the matches of `Messaging` against the names of pages).

The types of `Matching`, `Accounts`, `Sessions`, `MyProfile`, `Partners` and `Entry` are
proved and not checked by a run of their own: the runs check what a type says nothing of.

**Model-checked only.** Liveness (`matching_race`, `ws`, `msg_chat`, `entry`): TLAPS
does not reason about fairness and ENABLED here. Every safety property that a passing run checks is a
theorem.

## 6. Assumptions about what is not under `src/`

- *PostgreSQL:* READ COMMITTED; a unique index makes an insert wait for the
  uncommitted one it conflicts with, then decide; a DELETE does not see what has
  not been committed when it begins.
- *Redis:* GETDEL is atomic; Pub/Sub delivers to a subscriber in order, or loses.
- *GORM:* `Save` upserts preloaded has-many rows (`ON CONFLICT` do nothing new).
- *TanStack Query, SWR:* `invalidateQueries` cancels a fetch of a query that has
  data and joins one that has none; a fetch's answer replaces the cache; an infinite
  query refetches its pages one after the other; SWR discards what was fetched
  before a `mutate`. Eviction of unused caches after `gcTime` is left out.
- *Next.js:* one server action at a time per tab, in order, not cancelled when another
  page is shown; an action that throws brings the error page if a form awaits it; the cookies the proxy
  sets are merged into the `cookies()` of the request that it lets through.
- *React:* state that an asynchronous transition sets before it waits is shown when
  it ends; an error in it is reported and leaves the page as it is.
- *Browsers:* requests carry the cookies of the moment they leave with; answers
  arrive in any order or not at all; a live peer answers pings.
- *Order:* `created_at` and the id order of messages are taken to be the same.
- *Sessions:* requests that touch no cookie are left out; a refresh token expires
  only while no request is under way (30 days against seconds); looking a token
  up and deleting it in a logout is one step, as no row comes back.
- *Partners:* a match is two likes, hence the query's NOT EXISTS over matches adds
  nothing to that over likes. A like of a partner's and its match are one step there
  (with the match stored or not); their interleaving is `Matching`'s.

## 7. Not modelled, and why

- *Partner details and their cache* (`already_liked`): written by the feeds, the likes
  received, both ways of liking and the page itself. `Partners` is at the limit of what
  TLC explores in minutes; a sixth cache with its fetches would need an instance of its own,
  without the deck.
- *Match lists* beyond their order by message, *tags, prefectures*: reads without state.
- *Older pages of a history* (`before_id`): nothing in the web client asks for them, so that
  a chat shows what was read with the limit and what came after.
- *Eviction* of query caches after `gcTime`, and Next's router cache, which may show an
  edit page read earlier: what they show is what a slow fetch shows as well.
- *Dragging, layout, photos' order*: data that no state depends on.
- *The middleware that verifies tokens*: a condition on one request, before any state; its
  401 is an answer of `SignupProfile` and `Messaging` where a page or a form goes on with it.
- *Migrations, seed data, infrastructure, load tests*, and components that only render: no
  logic of the program. Of the generated client the answers of some calls are sets of the
  models; the others are one call of fetch each.

Each is a component of `PROJECT.json` with its reason.

## 8. Plan

Written in this order, the most important behaviour first:

1. `MutualLike`, `Matching`, `MatchingProofs`: done.
2. `WsDelivery`, `Messaging`, with their proofs: done.
3. `Accounts`, `Sessions`, with their proofs: done.
4. `MyProfile`, with its proofs in `MyProfileProofs`: done.
5. `Partners`, with the likes received, `PartnersProofs`: done.
6. `SignupProfile`, `SignupProfileProofs`: done.
7. `Entry`, its proofs in `AccountsProofs`: done.
8. `ProfileForm`, its proofs in `MyProfileProofs`: done.

What would come next:

9. *Cached details* beside a small `Partners`: a detail that is not marked after a like was
   answered is one that a list still holds.
10. An abstract inbox (what a user was sent, in order, once) that `WsDelivery`
    implements and `Messaging` builds on.
