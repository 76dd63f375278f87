# tintin in TLA+

This directory holds a TLA+ model of tintin, an end-to-end encrypted messenger:
a relay server on SQLite, a command-line client, a core library with the
session cryptography, and mobile clients. The modules are translated from the
Rust, Kotlin and Swift sources; TLC checks them on small instances, and TLAPS
proves every safety property that TLC finds to hold, for every instance.

## The system

| Part | State it keeps | Operations | Hard behaviour |
|---|---|---|---|
| Relay server, message path (`tintin-server/src/main.rs`, `store.rs`) | table `messages`, one mutex over the database, one task per connection | `send`, `receive` | fetch is SELECT, DELETE and one receipt INSERT per message, each committed by itself; rows that cannot be read are passed over and deleted; writes whose failure is ignored; several connections of one user; restarts |
| Relay server, key bundles, users, presence, statuses | tables `users`, `statuses` | `register`, `fetch_bundle`, `list_users`, `set_status`, ... | a bundle is replaced while a peer uses the old one |
| Relay server, groups and channels | tables `groups`, `group_members`, `channels`, `channel_subscribers` | create, join, leave, subscribe, list | creation in two statements; an auto-subscription whose failure is ignored |
| Relay server, polls | tables `polls`, `poll_options`, `poll_votes` | create, vote, close, results, list | creation is many statements; a vote racing a close |
| Relay server, timeline | tables `timeline_posts`, `timeline_comments` | post, comment, delete, get | deletion is two statements and a foreign key stands behind it; contacts are derived from other tables |
| Core sessions (`tintin-core/src/session.rs`, `ratchet.rs`) | two chains, a ratchet key pair, the peer's ratchet key | encrypt, decrypt | chains that must advance in step on both sides; both sides starting at once |
| CLI, private messages (`tintin-cli/src/main.rs`) | sessions in memory; sent messages and chat log on disk | `/msg`, `/edit`, `/recv` | receipts in any order, restarts that lose sessions, partial batches |
| CLI, groups and channels | cached lists; member lists fetched for each send | `/group send`, `/channel send` | one encrypted copy per member, failure in the middle |
| CLI, files of its own | sent messages, chat log, groups, channels: one JSON file each | every command that changes one saves it; load at the start | a crash within a write or between two; receipts matched by millisecond |
| CLI, calls | one `active_call` | offer, accept, end, media | offers that cross, late messages of earlier calls |
| CLI, files and voice | chunks of incoming files | send, receive chunk | incomplete and interleaved transfers, a write that breaks off |
| Mobile clients (`tintin-android`, `tintin-ios`) | one socket, one session cache | request and response | concurrent callers on one socket, timeouts, writes that block or are refused |
| C FFI and JNI (`tintin-ffi`, `tintin-jni`) | last-error slot, objects on the heap | wrappers of the core | a slot shared by threads, failures that leave no text |
| Mini-app SDK | manifests | permission checks | none |

### How the parts interact

Clients talk to the server with one JSON line per command and one per answer,
one command at a time. The server runs one task per connection; all of them
share one SQLite connection behind a mutex, and every SQL statement commits by
itself: there are no transactions, so what the mutex hides from other handlers
is not hidden from a crash or a failing statement.

Clients talk to each other only through envelopes that the server queues. Text,
edits, group and channel copies, call signals and file chunks are all envelopes
with an encrypted payload; delivery receipts are envelopes made by the server
inside `fetch_messages`, read receipts are envelopes made by the receiving
client. Sessions and pre-keys live in the memory of the client process and end
with it; sent messages, the chat log, and the cached lists are files.

What makes each part correct:

* relay: a queued message is delivered once, in order, or its loss has a cause;
  receipts are true; nobody waits for ever;
* sessions: both ends advance their chains in step;
* private messages: the status shown to a sender is true, and messages are
  shown in order;
* polls: a vote belongs to the poll and option it was given for, and a closed
  poll stays as it is;
* timeline: a deletion goes through or not at all but for a fault, and posts are
  seen by contacts only;
* groups: what a client believes about its memberships is what the server
  believes, and a message reaches the members;
* calls: the two ends hold the same secret, and hang up together;
* files: what is saved is what was sent, or as much of it as could be written;
* users: the keys handed out for a user are those of the process that runs,
  and its presence is its own word; stories are shown for a day;
* the client's memory: a restart changes nothing, and ticks belong to their
  message;
* native libraries: a host that is told of a failure is told of its own;
* mobile clients: an answer goes to the call that asked, fetched messages are
  shown, and no call waits for an answer for ever.

## Modules

| Module | Models | State | Actions |
|---|---|---|---|
| `MessageStore` | `queue_message` and the parts of `fetch_messages` in `store.rs`, as operators | none | none |
| `Relay` | `handle_client`, `handle_command`, `handle_send`, `handle_receive`, and the client ends | `rows`, `next_id`; per connection `phase`, `live`, `pend`, `batch`, `skipped`, `todo` | connect, send, receive, one per SQL statement, with or without rows passed over, response written, read, ignored, disconnect, restart |
| `Mailbox` | what the relay promises (abstract) | `box`, `carried`, `handed`, `dropped`, `top` | `Post`, `Take`, `Hand`, `Drop` |
| `Ratchet` | `ratchet.rs`, `session.rs`, as operators on sessions | none | none |
| `Messaging` | the CLI's `/msg`, `/edit`, `/recv`, start and end of the process | `queue`, `bundle`; per client `pc`, `spk`, `sessions`, `out`, `inbox`, `sent` | one per command and per kind of envelope handled |
| `Store` | what `Polls`, `Timeline` and `Directory` share: the users of one relay, and faults | `faults` | none |
| `Polls` | the poll handlers, `create_poll` statement by statement | the three tables, `creating` | create, insert option, give up, vote, close |
| `Timeline` | the timeline handlers, `delete_post` statement by statement; the group and message rows that contacts come from | the tables, `deleting` | post, comment, the two halves of delete, join, leave, send, fetch |
| `Groups` | the group and channel handlers, the CLI's cached lists and send loops | `rooms`, `members`, `local`, `task` | create, subscribe owner, join, leave, sync, send begin, copy, abort, done |
| `Calls` | `start_call`, `accept_call`, `end_call`, `send_call_media`, `process_call_signal`, `process_media_chunk` | per user `call`, `queue`, `keys`, `sessions`; `recordings` | the four commands, one per kind of signal, media chunk |
| `FileTransfer` | `send_file_inner`, `process_file_chunk` | per user `sending`, `queue`, `pending`, `downloads` | send, send chunk, abandon, process, lose, quit |
| `History` | `TinTinClient::new`, the `load_` and `save_` functions, and what `/msg`, `/edit`, `/recv`, the group, channel and file commands do to the files | `mem`, `disk`; `todo`, the rest of the command under way | start, crash, exit, truncate, fill, failing write, one per command and kind of envelope received |
| `Directory` | registration, key bundles, users, presence and stories: handlers, store and CLI | `users`, `statuses`; per process `phase`, `keys`, `job` | start, register, leave, presence, the two halves of posting and of listing stories, clear |
| `Bridge` | every function of `tintin-ffi` and `tintin-jni`, by its handling of handles and errors | `slot`, `heap`; per thread `frame`, the call it is in | enter, clear, succeed, fail, set the error, read it, free |
| `MobileRelay` | `RelayService` of Android and of iOS, the poll loops of the chat lists | `relay`, `open`, `up`, `down`, `call`, `queue` | connect, disconnect, begin, write, flush, the ways a read ends, leave a screen, resume |
| `RelayProofs`, `MessagingProofs`, `GroupsProofs`, `CallsProofs`, `HistoryProofs`, `FileTransferProofs` | theorems about the module of the same name, with their proofs | | |
| `StoreProofs` | theorems about `Polls`, `Timeline` and `Directory` | | |
| `MobileProofs` | theorems about `MobileRelay` and `Bridge` | | |
| `MC*` | instances for TLC; `MCStore` has `Polls` and `Timeline` | | |

Where one proof module is about several specifications, these name their parts
apart: `PollsSpec`, `TimelineSpec`, `DirectorySpec` and `BridgeSpec`, with
`PollsInit`, `PollsNext` and so on; elsewhere they are `Init`, `Next` and `Spec`.

Definitions keep the names of the functions they model. History variables are
listed last in each `VARIABLES` and are read by no action. Definitions marked
"variant with a fault" are plausible mistakes in one function; substituted for
it they must break a property, which shows that the property depends on that
function.

### How the code is read

* `Relay` takes `fetch_messages` apart: SELECT, DELETE, one INSERT per receipt.
  The mutex is the guard that no other handler is inside. A user may have any
  number of connections at a time, and one whose client end is gone may still be
  served: `live` tells whether it is there. Rows that the SELECT fails to read
  and rows whose text does not parse are passed over alike
  (`fetch_select_skips`); the DELETE takes them with the others.
* `Messaging` uses a queue per user in place of the relay, which is what
  `Mailbox`, and the proof that `Relay` implements it, justify: a fetch takes
  all, in order, and a fault can cost the fetched batch. Displaying a message
  and sending its read receipt are one step; the process may end before and
  after it. Timestamps of one client are strictly increasing, so two messages
  of one millisecond, which would share their receipts, are left to `History`.
* `Ratchet` has ideal cryptography: keys are terms, Diffie-Hellman of two keys
  is the set of both, and a message opens exactly under the key it was closed
  with. Chains advance on a failing decryption as in the code.
* `Polls` and `Timeline` rely on SQLite for keys and foreign keys; the one that
  bites, of `timeline_comments`, refuses a comment without its post, and the
  DELETE of a post that still has comments. That nobody
  holds the store's mutex is `MutexFree` in one and `Unlocked` in the other.
  `Timeline` has one group, since contacts only ask whether two users share
  one.
* `Groups` treats groups and channels alike; they differ in creation and in
  that only groups can be re-read (see the observations). A command is a round
  trip with three outcomes: done, refused, done but the answer lost.
* `Calls` handles signals one at a time although a fetch returns a batch: the
  client handles a batch without a command in between, which is one of the
  interleavings.
  Media chunks of a stream go out in one step, up to the first that is
  refused; who has a session with whom is a set, since only "first message or
  not" decides what `receive_messages` looks at.
* `FileTransfer` takes `file_id`, a time in nanoseconds, as unique. Bytes are
  pairs of file and position, so any mixture is visible. A failing `fs::write`
  leaves the name as it was, if it could not open it, or with the beginning of
  the file; a process that ends forgets what it was sending and collecting.
* `History` has the client alone: the peers fetch and read, and their receipts
  come back in queue order, as in `Relay`. `std::fs::write` is two steps, so
  that a crash can leave an empty file; a command is the list of writes still
  to come. Several messages may bear one millisecond. Groups and channels are
  one file here, `rooms`. Here and in `Messaging` the receipts of a fetched
  batch are a function of the place in the batch (`Nth`).
* `Directory` has registration and presence as round trips (done, refused, done
  with the answer lost), and takes posting and listing of stories apart where
  the clock is read before the store is locked. A user may have several
  processes; leaving tells the relay nothing.
* `Bridge` describes a function by whether it clears the slot, which handles it
  takes, what it allocates and how it fails; a call is then four steps, since
  the slot is locked for each access and not for a call. The hosts ask for the
  text in a call of its own. (In the apps as they are, calls come from the main
  thread or actor; Swift reads the text right after a failure, Kotlin never
  does.)
* `MobileRelay` has one app of either platform; `platform` is chosen in `Init`.
  Android: a write is synchronized, may last for ever and keeps the monitor
  meanwhile; a read is not synchronized and gives up after ten seconds, in the
  middle of a line with the loss of what it has; `sendCommand` runs on the main
  thread, where the platform refuses the write, once the monitor is free. iOS:
  the actor is entered by
  others while a call waits, and a read takes what bytes there are. The relay
  answers lines in order, one line each, possibly in two pieces.

## What is checked

| Run | Shows | Bounds |
|---|---|---|
| `relay` | `NothingVanishes`, `AtMostOnce`, `OldestFirst`, `ReceiptSound`, `ReceiptBeforeDelivery`, the refinement `ImplementsMailbox`, and `CommandAnswered` under fairness | 2 users; 3 connections, so that one user has two at a time; 3 commands: two sends and a fetch, or a send and two competing fetches; one type of message, since the relay treats `Normal` and `PreKeyBundle` alike; 1 fault |
| `messaging` | `UndisturbedDecrypts`, `ReadMeansShown`, `DeliveredMeansFetched`, `ShownInOrder`, `StatusNeverFallsBack` | 2 users, 2 messages or edits each, so that both directions use a chain twice and both can start a session; 1 end of a process or server error |
| `store`: polls | `VoteCounted`, `ResultsSound`, `ListedComplete`, `ClosedFrozen`, and `VoteOffset`: a vote lands as many options off as older polls have | 3 users; 2 polls of up to 3 options, so that option ids and numbers differ; 1 crash or failing statement |
| `store`: timeline | `DeletedWhole`, `StrangersUnseen` | 3 users, so that there is a third who is no contact; 1 post, 2 comments, 2 messages, 1 fault |
| `timeline_delete` | a violation: anybody removes the comments of any post | no messages, no faults |
| `calls` | `SecretsAgree`, `EndedWhenQuiet` | 3 users, so that a third can interfere; 2 calls that can cross; 2 accepts; 1 stream of 1 chunk and its end marker; 2 refused or lost signals |
| `call_media` | a violation: media of a call are not saved (`MediaSaved`) | 2 users, 1 call, 1 stream of 1 chunk, no faults |
| `files` | `SavedIsSent`, `ArrivesWhole` | 3 users, 2 files, 2 names; chunks of 2 bytes and files of 0 to 5, so empty, partly filled, exactly full and up to 3 chunks; 2 faults, such as two writes that break off under one name |
| `groups` | `CacheMatches`, `FanoutReaches` | 3 users, 2 rooms, 1 message, 1 fault |
| `history` | `RestartChangesNothing`, `SentIsRemembered`, `TicksAreOwn`, `EditMarksAgree` | 1 peer, 1 room; 2 envelopes in 2 milliseconds, so that two share one or not; 1 incoming message, 1 other command, 1 crash or failing write |
| `directory` | `ServedKeysAreOwn`, `PresenceIsOwn`, `StoriesExact` | 2 users, one with 2 processes; 3 starts, 2 stories, a day of 1 tick and 1 tick, so that a story is on the boundary; 1 refused command or lost answer |
| `bridge` | `OwnError`, `FreshError` | 2 threads, 3 calls: one that fails, one that disturbs it, one before or after |
| `mobile` | `InStep`, `LagIsTimeouts`, `MailKept`, and `ReadsEnd` under fairness | 2 calls that can cross, 2 connections, 2 messages of every fate, 1 closed connection or screen left |

`TypeOK` (`PollsTypeOK`, ...) says what the state of a module is. It is checked
and proved for `Relay`, proved for `Messaging` and `Timeline`, proved as part of
the invariants of `Polls`, `Directory` and `Groups`, and stated for the reader in
the others, whose proofs have type invariants of their own, without the bounds.
The properties are
about pairs of actors or pairs of steps: two handlers, a handler and a fault, a
sender and a receiver, two senders and a receiver. `Polls` and `Timeline` share a
run but no tables, so a behaviour of `MCStore` is about the one or the other. The
bounds are the least
with which each of these meets at least twice, and each property fails in its
run when one function is replaced by its faulty variant. TLC stops at the
bounds, so runs do not check for deadlock; `CommandAnswered` and `ReadsEnd` say
what must not wait for ever.

**Fairness.** `Relay` and `MobileRelay` have fair specifications. That of
`Relay` says that a handler
task that can run is run (tokio polls a ready task, and a mutex that is
released goes to a waiter), and that a client waiting for an answer reads it
(`recv_json` follows every `send_json`). Users typing commands and faults are
not fair. The mutex gives no turn order; weak fairness is enough because the
number of commands is bounded, so the liveness result is that nothing blocks
for good, not that a busy server treats everyone alike. That of `MobileRelay`
asks only that a call that can go on does: a thread runs, and a socket's timeout
fires. It asks nothing of `flush`, which has no timeout and blocks while the peer
does not read, and nothing of the relay or the network, so `ReadsEnd` rests on
the timeout alone; it is stated for Android, as iOS sets none. That a write ends
cannot be said of this code.

## What is proved

TLAPS proves the following for every set of users, connections and rooms and
every bound, from the assumptions stated beside the constants, which say that
bounds are natural numbers, for `Relay` and `Directory` that connections
and processes have owners, for `Directory` that a day is not empty, for
`FileTransfer` that a chunk is not, and for `Messaging` that "no session" is not
a session. Each theorem `Spec => []P` has
the same shape: an inductive invariant, one lemma that every action keeps it, with one step per
action, and the theorem that it implies P. What an action does to sequences and
records is stated once, in lemmas of its own, and used by every layer above.

* `RelayProofs`: `TypeCorrect`, `NoSilentLoss` (`NothingVanishes`),
  `NoDuplicates` (`AtMostOnce`), `InOrder` (`OldestFirst`), `ReceiptsAreSound`,
  `ReceiptsComeFirst` and the refinement `Refines`. None of the safety
  properties is inductive by itself. `LockInv` says that one
  handler at a time is inside `fetch_messages`, that what it selected and what it
  passed over are still what the table holds for its user (this is what makes the
  DELETE remove exactly the rows its SELECT came across), and that without a
  fault nothing is passed over or lost. `FlowInv` says that ids are given in
  order, that what is on its way is older than what waits, and that the batches
  on a user's connections do not interleave. In which order these batches are
  read is not determined, so the order is promised per connection. Every action moves rows in one of five ways
  (`PostFlow`, `TakeFlow`, `HandFlow`, `DropFlow`, `StillFlow`); lemma `Flow`
  sorts the actions, and one lemma per flow shows `FlowInv` preserved, and one
  that the flow is a step of `Mailbox`. `ReceiptInv` relates the receipts still
  to be inserted to those queued so far: what a handler has left is exactly
  what its batch lacks.
* `MessagingProofs`: `TypeCorrect`, `ReadIsShown`, `DeliveredIsFetched`,
  `DisplayOrder` (`ShownInOrder`), `UndisturbedRatchets`
  (`UndisturbedDecrypts`) and the action property `StatusOnlyRises`.
  `MailInv` follows a message from its stamp to the receipts: what waits and
  what was fetched is ordered by stamp, what is on its way is newer than what
  was shown, and of two receipts for one message the delivery comes first. The
  last is what makes an overwriting status safe. `RatchetInv` is about two users
  whose pair is undisturbed: they are strangers with nothing on its way, or both
  began, or one began (`Linked`). Then their sessions were made from the same
  two keys (`Match`), and the messages on their way in each direction, the one
  being sent included, are the steps between the place of the receiving chain
  and that of the sending chain, in order, each once and none left out (`Way`,
  `Carries`). So the message that is handled next is the very step the receiver
  expects, and only step 0 is a PreKeyBundle. The invariant also needs that the
  relay serves the pre-key of the running process (`Published`). It was
  model-checked with the bounds of run `messaging` before it was proved.
* `StoreProofs`, polls: `VotesStay` (`VoteCounted`), `ClosedForGood`
  (`ClosedFrozen`), `VotesShift` (`VoteOffset`), `PollsAreComplete`
  (`ListedComplete`) and `ResultsAddUp` (`ResultsSound`). `PollsInv` adds to `VoteCounted` that poll and option
  ids are keys below the next id, and that the poll being created is open:
  otherwise a new option could give an old vote a second meaning, or
  `create_poll` add options to a closed poll. `CountInv` counts: as many
  options exist as ids were given, an option's id is its number plus the options
  of older polls, only the newest poll is being filled, and each poll left
  incomplete cost a fault. `ResultsSound` is about a sum over a set, which the
  library defines by recursion: the votes for the options of any part of a poll
  solve the equation of that recursion (`ForCounts`), and on a finite set it has
  one solution (`SumUnique`, from the least part on which two would differ).
* `StoreProofs`, timeline: `TimelineTyped`, the action property
  `DeletesGoThrough` (`DeletedWhole`), `TimelineIsForContacts`
  (`StrangersUnseen`). The
  invariant says that the post whose row is about to be deleted has no comments
  left, and that every row of the queue, a receipt included, is between users
  who exchanged a message.
* `StoreProofs`, directory: `OwnKeysServed`, `OwnPresenceListed`,
  `StoriesWithinTheDay`. The invariant ties the row of a user to the one
  process that runs for the user, and a handler under way to the clock reading
  it began with.
* `GroupsProofs`: `CacheFollowsServer` (`CacheMatches`), `FanoutComplete`
  (`FanoutReaches`). A client that missed no answer agrees with the server at
  every step, except on its groups between a join and the sync that follows
  (`Cached`), and each member who stayed was sent to, was refused or is still
  ahead of the loop (`LoopCovers`).
* `CallsProofs`: `SameSecret` (`SecretsAgree`), `EndReachesBoth`
  (`EndedWhenQuiet`). `SecretInv` gives
  every offer and accept on its way, and every call that was begun, the keys it
  stands for; `PeerInv` that, while nothing is lost, one has a session with the
  peer of one's call, so that no signal is passed over; `EndInv` says who can hold a call and that, where an ended call is still
  held, a `call_end` waits behind it.
* `HistoryProofs`: `RestartIsHarmless` (`RestartChangesNothing`), `SentIsKept`
  (`SentIsRemembered`), `TicksAreTrue` (`TicksAreOwn`), `EditMarksHold`
  (`EditMarksAgree`). `SaveInv` says that what memory has and the disk has not
  is among the writes still to come, or its last write failed; `MemoryInv` that
  the entries of both lists name distinct envelopes and hold what was reported,
  in memory and in files not being written; `TickInv` that each receipt on its
  way is backed by an envelope that has got as far; `EditInv` that the lists
  agree in memory and, while no process runs, on disk.

* `FileTransferProofs`: `DownloadsAreSentFiles` (`SavedIsSent`) and
  `FilesArriveWhole` (`ArrivesWhole`), for any chunk size and file size. Lemma
  `ChunkCount` shows that the loop of `send_file_inner` sends as many chunks as
  `total_chunks` announces, `Reassembled` that these chunks, put together in
  order, are the file, and `WholeEntry` that an entry with as many chunks as
  announced has all of them. The actions are restated by what they do to one
  file. `Shape` says that every waiting chunk, entry and download belongs to one
  file that was sent, a download as a whole or, if its write broke off, as its
  beginning, and that an entry lacks a chunk; `Flow` says where the
  chunks of a file are: each at most once, those sent before the next one, and,
  unless the file was damaged or is written, every chunk sent so far either waits
  or has been received. So a file of which nothing is left to send or handle
  would have a whole entry, which `Shape` excludes, unless it was written.
* `MobileProofs`, relay client: `AnswersInTurn` (`InStep`),
  `AnswersLagByTimeouts` (`LagIsTimeouts`), `MailIsSomewhere` (`MailKept`), for
  both platforms. `TurnsInv` says that a connection that was never crossed
  carries one exchange at a time: nothing, the line of its one reader, or that
  reader's whole answer (`Resting`, `Asked`, `Replied`). `StreamInv` counts the
  lines an Android connection owes. `OwnAnswers` adds to `InStep` that only a
  fetch is answered with messages, which `MailKept` needs: a message that is read
  goes to a screen that shows it.
* `MobileProofs`, native libraries: `OwnErrors` (`OwnError`) and `FreshErrors`
  (`FreshError`), for any number of threads. `SlotOwn` says what a call that was
  left alone finds in `LAST_ERROR`, `SlotFresh` that from where a call cleared
  the slot or set it the slot holds nothing older than the call; both need that a
  call knows which others were under way when it began (`OthersKnown`), and what
  the functions of the two libraries have in common (`FunctionFacts`).

The inductive invariants of the last three items were model-checked with the
bounds of their runs before they were proved.

Only model-checked: `CommandAnswered` and `ReadsEnd`, since liveness under
fairness is outside what the installed provers can do. Where a property rests on
a recursive definition of the library (`MapThenSumSet`, `FlattenSeq`), the proofs
take the least counterexample in place of the library's induction theorems, which
these provers cannot apply.

## Disagreements with the code's own words

Two runs end in a violation and have an entry under `findings`:

* `timeline_delete`: "Delete a post (owner only)" (`store.rs:724`) does not hold
  of the comments, which are removed before the owner is checked;
* `call_media`: "Process an incoming media chunk (audio/video data during call)"
  and "Save the decrypted audio chunk" (CLI `main.rs:1607`, `1660`) describe what
  never happens. `send_call_media` drops the nonce its encryption made and sends
  the chunk's number as the nonce (`main.rs:1571`), and `receive_messages` looks
  for media in the first message of a session only, which the comment at
  `main.rs:618` takes for the place. A program without either mistake satisfies
  `MediaSaved`.

Further disagreements met while modelling, each excepted or stated by the
property named:

* "queued messages survive server restarts" (`store.rs:3`) does not hold once a
  fetch has deleted them and the answer is not yet read (`NothingVanishes` counts
  such rows as dropped by the restart);
* "Handles DH ratchet steps if needed" (`ratchet.rs:153`) does not hold when
  both users start a session at once (`UndisturbedDecrypts` excepts it);
* "Vote with: /poll vote {} <number>" (CLI `main.rs:2143`) sends the number as
  a row id that counts over all polls (`VoteOffset` says how far off it lands);
* "accepted call {} — call connected!" (CLI `main.rs:2084`): a late accept
  connects a different call, with a key nobody in it holds (`SecretsAgree`
  excepts it);
* "View contacts' stories" (`README.md:113` of the repository) and "View friends'
  active stories" (CLI `main.rs:2595`, `2693`): the relay lists the stories of all
  users, whoever asks, and only the comment at CLI `main.rs:2224`, "View all
  active stories", says so. `StoriesExact` states what the code does;
* "Uses blocking I/O on a background thread (Dispatchers.IO)"
  (`RelayService.kt:16`) is not so of `sendCommand`, whose callers are coroutines
  of the main thread. Android refuses network access there with an exception,
  which `sendCommand` returns as a failure (`RelayService.kt:265`), so a message
  is never sent (`sendJson`). Registering is a `sendCommand` too
  (`RegisterScreen.kt:66`), and the app as it is does not get past that screen;
  `MobileRelay` models `RelayService` and the screens behind it as they are
  written, for an app that got there.

Observed while reading:

* a message encrypted to the pre-key of a process that ended cannot be
  decrypted by the next one;
* `edit_message` marks the newest outgoing entry of the chat log, not
  necessarily the one edited (`EditMarksAgree` excepts it);
* messages to rooms and files are tracked under a later time than their
  envelopes bear, so that receipts rarely find them;
* a row of the queue that cannot be read or does not parse is deleted by the next
  fetch, whose answer is "ok" (`store.rs:514`, `523`; `NothingVanishes` counts it
  as dropped). Every other listing of `store.rs` passes over such rows
  too; `Directory` models it for stories, elsewhere rows are taken to be
  readable;
* a fault in `create_poll` can leave a poll with fewer than two options, which
  is listed (`ListedComplete` counts these);
* contacts of the timeline that come from messages vanish when the messages are
  fetched;
* `handle_my_channels` parses a command with a `channel_id` that the client
  does not send, so `/my_channels` always answers an error and a channel list
  that went stale stays so;
* call offers are consumed before `display_decrypted`, so "Incoming call" is
  never printed;
* `/poll create` notifies nobody, and what it takes for question and options
  ends at the first space;
* a timeout on Android puts the stream one answer behind for as long as the
  connection lasts (`LagIsTimeouts`), and an old connection is never closed;
* one message that does not decrypt costs the rest of its batch on iOS, and
  leaving the chat list costs the batch being fetched on Android (`MailKept`
  excepts both);
* a write of the Android app that blocks keeps the monitor, and the main thread
  waits for it as soon as the user sends (`Blocked`);
* the apps send every message as `Normal` and make no session as responder, so
  that a first message between two apps is not read; the signed pre-key is made
  anew at every start;
* the buffers of `tintin-ffi` are leaked vectors that are freed with their
  length as capacity, which is right only where the two are equal;
* on iOS `connect` asks the continuation for `wasResumed`, which it does not
  have;
* an empty file is announced with one chunk and sends none (`ArrivesWhole`
  excepts it).

## Not modelled

Cryptographic content, formatting, terminal output, QR codes, stickers, image
compression, recording and search have no state that other parts depend on. The
mini-app SDK is types and functions of one value, which nothing calls. Of the
mobile apps the user interface, the session caches and the key files are left
out, and the native libraries are modelled by their errors and handles, not by
what they compute: that is `Ratchet`. How the continuation of iOS's `connect` is
resumed cannot be said, since that code does not build as it stands.
`PROJECT.json` lists every part with its status.

## Plan

Done: the relay with its abstraction, private messaging, polls, timeline,
groups and channels, calls with media, the client's files, file transfer, the
directory of users, the native libraries and the mobile relay clients, each
model-checked and with proofs of its safety properties.

Next: the session caches of the mobile apps, composed with `Ratchet`.
