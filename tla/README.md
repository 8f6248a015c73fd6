# Arianagram in TLA+

Specifications of the Arianagram server (`src/src/server.c`), of its client
(`src/src/client.c`) and of the game of the previous assignment
(`src/files_tp1_for_reference`), the TLC runs that check them on small instances
and the theorems TLAPS proves of them for every instance. Line numbers are those
of `src/src/server.c` unless a file is named.

## 1. The system

A single process. `main` accepts connections and gives each a *slot* of
`clients[MAX_CLIENTS]` and a detached thread; the thread reads fixed-size
messages and serves them. Four structures are shared, each with its mutex.

| Part | State | Operations | What makes it correct |
|---|---|---|---|
| Feed and counter (21-38, 420-477) | `msg_id_counter`, `feed_messages[5]` | `incrementMsgIdCounter`, `addMsgToFeed`, `getFeedMessages` | no post lost, repeated or torn; ids unique; a READ answers with the end of one timeline |
| Follow list (40-44, 533-564) | `follow_list`, `follow_count` | `processFollowMessage`, the collection of followers of a POST | a pair that is there is not added again, nor one of a user with himself; outlives the connections |
| Slots and acceptance (25-31, 176-221) | `clients[]`: active, descriptor, name, `send_mutex` | `waitForClientConnection`, the exits of a thread | a running thread owns its slot and descriptor; nothing leaks |
| Client threads (242-418, 439-571) | locals, `thread_state` | CONNECT, POST, FOLLOW, READ, disconnection | pushes reach followers, in order and once for each time they are in the list; answers reach who asked, in one piece; every request ends |
| Client program (`client.c`) | `state`, `in_feed` | command loop, reader thread | what arrives is printed as what it is; the server never refuses what it sends |
| Set-up (47-174; `client.c` 33-129) | arguments, sockets | `setUpServer`, `connectToServer`, validation | bad arguments are refused |
| Wire format (`util.c`) | - | `htons`/`htonl` | both sides read the same message |
| The game (`files_tp1_for_reference`) | the states of two programs, `attempts_counter`, the arrays of `calculateFeedback` | START, GUESS, EXIT and their answers | the answer is the hint for the guess, repeated digits included; neither program waits for the other for ever |

How they interact: a POST takes, one after the other, `msg_id_mutex`,
`feed_mutex`, `follow_mutex`, then for each follower `clients_mutex` and for each
of his slots that slot's `send_mutex`, under which it looks at the slot again and
sends. A READ takes `feed_mutex`, then its own `send_mutex`. Accepting and leaving
take `clients_mutex`, and neither takes `send_mutex`: this is where the two
protocols can meet badly. What is hard here: threads between two of these
critical sections; slots, descriptors and mutexes that are reused while a thread
still has an index or a number in its hands; clients that vanish or do not read
while somebody sends to them; limits (128 slots, 128 names in `to_notify`,
2^32 ids). `PROJECT.json` lists these hazards at their lines.

A client and the server share one connection: the client sends and does not wait
for an answer, and a second thread of it prints what arrives, the items of an
answer and live pushes alike, with one flag, `in_feed`, to tell them apart.

`files_tp1_for_reference` is the previous assignment. No rule of the Makefile
builds it and nothing calls it: two programs of one thread each, which take turns.

## 2. The modules

| Module | Models | Variables and actions |
|---|---|---|
| `Positions` | what a loop over an array collects, as positions in order | `Ascending` |
| `FeedArray` | the array and the counter as data | `ShiftIn`, `FeedItems`, `NextId` |
| `Feed` | threads that post and read | `IncrementMsgIdCounter`, `AddMsgToFeed`, `GetFeedMessages`, one per critical section; `log` and `issued` are history |
| `GlobalFeed` | what the feed promises: one timeline, a READ answers with its end | `Publish`, `Read`; `Feed` implements it |
| `FollowList` | the list of pairs as a sequence, and what it stores of a text | `AddFollow`, `FollowersOf` |
| `Server` | `main`, every client thread, the clients and the descriptors as the server sees them | below |
| `SendMutex` | one `send_mutex` as a futex with sleeping waiters, and its initialisation at reuse | `Lock`, `Contend`, `FutexWait`, `Unlock`, `Reuse` |
| `Connection` | what the server promises to one connection | `ServerReceives`, `SendItem`, `SendEnd`, `ServerPushes`, ...; `Server` implements it and `Client` relies on it |
| `Setup` | the validation of command lines, and who reaches whom | `ValidForServer`, `ValidForClient`, `Reaches` |
| `Client` | the client program from its command line on, and the start of its server | one action per state of `main`'s loop, `SEND_MSG_TO_SERVER` in two (flag, send); the reader's receive, print, reset |
| `Feedback` | `calculateFeedback`, an iteration a step | `Split`, `Mark`, `Match`, one per loop |
| `Game` | both programs of the game; another program may take the client's place | one action per state, one per answer |
| `Mastermind` | what the game promises: each answer is a hint, and none follows the right one | `Play`; `Game` implements it |
| `MCFeed`, `MCServer`, `MCClient`, `MCGame` | instances for TLC | casts of clients and what they send; what is typed; who plays what |
| `FeedArrayProofs` | lemmas about the operators of `Positions` and `FeedArray` | |
| `FeedProofs` | theorems about `Feed` | |
| `ServerOwnershipProofs`, `ServerSendProofs` | theorems about `Server`: types, slots and mutexes; then what is sent to whom | |
| `ServerRefinementProofs`, `ServerConnectionProofs` | on top of these, order and uniqueness of pushes with `ImplementsFeed`, and `ImplementsConnection` | |
| `ClientProofs`, `GameProofs` | theorems about `Client` and `Game` | |

`Server` puts `FeedArray` and `FollowList` together with the slots. A thread is
named by the connection it serves, and `pc[c]` is its `thread_state` refined by
the places inside the `process...` functions. The grain follows the code's
locking:

* what a thread does under a mutex every other access also takes is one step:
  the id, the feed, the follow list, the slots under `clients_mutex`. That such a
  section is not seen half-way is read off the code and assumed;
* `waitForClientConnection` is a step for each store that `processPostMessage`
  can see without `clients_mutex`: active (`ClaimSlot`), descriptor (`StoreFd`),
  name and mutex (`InitSlot`). `clients_mutex` is held meanwhile
  (`ClientsMutexFree`);
* in `processPostMessage` taking `send_mutex`, the second look (`CheckSlot`), the
  load of `client_fd` (`ReadFd`), the lookup of the descriptor by the system call
  (`EnterSend`), the delivery (`SendPush`) and the release are steps of their own;
* a thread's exit gives back the slot (`LeaveSlot`) and then closes (`Close`).

The environment is modelled by what it does to the server. `accept` gives the
lowest free descriptor. A client sends a script, leaves at any point of it (FIN
or RST), and may stop reading. `Send` blocks while the peer does not read; to a
peer that has gone it succeeds and may be answered by RST; after the RST it fails
and may raise SIGPIPE, which ends the process (`up`).

`rcvd`, `log`, `name`, `due`, `aim` and `clobbered` are history variables: no
action's guard reads them.

`Connection` is the contract between the two programs. `Server` is shown to keep
it for every connection: `ServerOf(c)` maps the places a thread may be at to
"idle", "answering", "leaving" and the others, `Untaken(c)` are the messages that
were sent and not yet received, and a push of whatever thread is a live push.
`Client` EXTENDS `Connection`: its actions are the client's half of it, with
`main` and the reader around them, and the server's half is its environment.
So what is shown of the client holds of it together with the modelled server.
What `Connection` does not promise is that the server answers: its thread may
sleep for ever on the mutex of a slot (520) or in `send` (524) while it delivers a
POST. `Client` has this as an action of its own, `HoldUp`; afterwards the thread
does nothing (`held`), and only pushes of other threads and the end of the process
come from that side.

In `Client`, `main` sets `in_feed` and then sends a READ (390-406 of `client.c`);
the reader thread looks at the flag for each MSG_PUSH and clears it at MSG_END
(262-272). There is no lock, so these are steps of their own. Live pushes and the
end of the connection can come at any moment, even inside an answer
(`answer_mixed`). `asked`, `ended`, `overlapped` and `printed` are history.
`Inputs` are sequences of what `fgets` returns, each by what `validateUserInput`
makes of it: a command, nothing, or something refused. Before all that the server
sets itself up, or does not, and the client connects, or does not (`Setup`). The
result of `pthread_create` is not looked at (313): if it failed there is no reader,
and the detach that follows may end the program (`DetachFails`).

`SendMutex` is the one place where the grain of `Server` is too coarse: there a
mutex is a bit, and a waiter takes it when it is free. A futex also remembers
that somebody is asleep, and `pthread_mutex_init` (203) forgets it. The protocol
of the word is that of the C library's default mutex and is marked external; what
the code contributes is who locks it, and that it is initialised regardless.

In `Game` the two programs and the two directions of the connection are the state.
States of the code that only go on to the next one (`SET_UP_...`, the ones that
print) are merged with a neighbour. `calculateFeedback` is not one step but its
iterations, because its properties are about indices and about what one loop
leaves to the next. A line that is not five digits is `Refused`. The programs'
sends are one step, since each blocks for the other and neither can see a half.

Abstractions. Names and texts are model values, and `Stored` is what `strncpy` and
the terminating zero leave of each in an array of 16 characters. A FOLLOW is
compared as it was sent (536, 546-547) and stored cut (557), which makes a
difference for targets of 16 characters and more: `client.c` does not send these,
another client may. A name read half-written is not modelled. A stalled peer is one
whose buffers are full. The `pthread_t` stored at 216-218 is never read and left
out, and so are printing and the byte order of messages. System calls of the set-up
may fail, without a reason given.

## 3. The runs

Passing runs:

| Run | Instance | What it shows |
|---|---|---|
| `feed_threads` | 3 threads, 4 posts, array of 2 | `FeedIsTail`, `EveryIdAccounted`, `SameThreadInOrder`; `Feed` implements `GlobalFeed` |
| `server_reuse` | 3 connections for 2 slots, two of which may leave, three scripts for the third, `pthread_create` may fail; or a follower whose pair is doubled by a text that is cut | ownership of slots and descriptors, no leaks, mutual exclusion on a slot that is not reused under a sender, no interrupted answer but by that, no push to a stranger but for a follower whose session is over, no follower passed over, nobody renamed by a second CONNECT; a post comes twice only for a doubled pair or when one of the two was for somebody else |
| `server_authors` | two authors and a reader who follows both, or a follower on two connections whose threads add the same pair at once, or texts that are cut, to the author's own name among others; 3 slots | all that reaches a connection of one author's posts is in order, and what is meant for it comes once, but for a doubled pair; answers to the asker; no pair doubled and nobody following himself but for a name that a text may have been cut to; the server's feed implements `Feed` |
| `server_progress` | a follower who READs, shares his name with another connection and leaves while that one may stop reading; or a follower and a client without a name | requests end, sessions end, and a client that does not read holds up nobody but who sends to it or wants its mutex; each connection is served as `Connection` says |
| `client_threads` | three inputs with READs apart or in a row, answers of up to 2 items, 2 live pushes; a server with an argument too few or held up over a POST, a client without a name or without a reader | the flag is up only while an answer is awaited; an answer is printed as feed unless READs overlap; the flag comes down; the server never refuses the client |
| `game` | all guesses at all codes of 3 places and 3 digits; a longer game; a server with a code out of range or an argument too few; another program with 4 messages | no index out of range whoever plays; hints are right; `Game` implements `Mastermind`; the player is never dropped, is always answered, and a win is acknowledged |

The bounds. Four posts overfill an array of two, and three threads are what an
inversion with a bystander takes. Reuse needs one connection to leave a slot and
another to take it while a third thread is sending: three connections, two
slots. The order and uniqueness of pushes need an author with two posts and
another author. One text is too long, which is enough for each way in which the
two comparisons miss. `MaxFollows` is 2 in `server_reuse`,
where the list is full at the third pair, and more elsewhere. Two READs
are what it takes to overlap, and with two pushes one can come before and one
inside an answer. `ImplementsConnection` was also checked once on the instance of
`server_reuse` (1.9 million states), where slots and descriptors change hands; it
is too slow there for a run that is to be repeated, and it is proved for every instance
(section 5). With three places and three
digits a digit can be repeated in the guess, in the code or in both, in place or
not; four messages are START, a guess, another one and EXIT in any order, with
guesses out of range on both sides. `CHECK_DEADLOCK` is off for all but the feed:
the server ends when the scripts do or a signal ends it, the client at the end of
its input, the game when it is over.

Runs that end in a violation, each of something the documentation or a comment
says (the lines are quoted in `PROJECT.json`):

| Run | Statement | What happens |
|---|---|---|
| `feed_inversion` | a READ is newest first | two posts at once enter in the opposite order of their ids |
| `misdelivery` | the second look at the slot keeps a push from a stranger | the follower leaves after it, the next client gets slot or descriptor |
| `answer_mixed` | an answer is not mixed with pushes | a push for the previous user of the slot lands inside it |
| `broken_pipe` | a dropped connection harms nobody | SIGPIPE at a send after its reset |
| `unknown_type` | a client that goes is cleaned up | after a message of unknown type the thread never reads again |
| `lost_wakeup` | a dropped connection holds nobody up | two threads push to one slot, it is given to another client, and the one that was asleep on its mutex is not woken |

Five more disagreements have no run.

* A follower who does not read holds up the author's thread in `send`, and with it
  everybody who posts to that follower, though the technical documentation (line
  143) says that a slow connection does not. `RequestsComplete` and `SessionsEnd`
  except just these threads (`HeldUp`).
* `to_notify` (491) is filled with the first 128 followers, connected or not, and
  those after them get nothing although README.md:10 and :59 promise the post to
  every connected follower; `FollowersReached` excepts an author with more
  followers than that.
* The target of a FOLLOW is compared as it was sent and stored cut (536, 546-547,
  557). With 16 characters or more the same pair is stored again, and a user comes
  to follow himself, which the comments at 535 and 544 say is ignored.
  `FollowListSound` and `PushesInPostOrder` except the names that a text may have
  been cut to.
* After 2^32 posts the counter gives id 0, and the post that gets it is skipped by
  every READ as if its element were empty (469); what is said of ids is said of
  those before the wrap.
* `in_feed` is one flag for any number of READs (`client.c` 23-26): the end of the
  first of two answers clears it, and the second is printed as notifications, the
  exception that `FeedPrintedAsFeed` makes with `overlapped`.

Each property of a passing run has a mutant of the code, beside the definition
it mutates (a check left out, a loop one short, a lock not taken), that breaks it.

## 4. Fairness

`FairSpec` asks weak fairness of `main`'s steps and of each thread's steps: the
system schedules threads, and each runs as long as it can. Clients owe nothing. A
pthread mutex is not fair, but each script is finite, so a waiter is passed over
finitely often only and weak fairness is enough. The progress properties say
under which circumstances they hold: the process is not ended by SIGPIPE, no mutex
was replaced while held, and the thread in question is not at some time inside a
`send` to a stalled peer, nor wants the mutex that another one holds there.

`Client`'s `FairSpec` asks it of the reader, of the server's start, its receipts
and its answers (not of its pushes), and of the send of a message once it is
typed; whoever types owes nothing. The server owes nothing any more once `HoldUp`
has happened, and `HoldUp` may happen at every POST. So `FlagIsCleared` excepts,
besides an end of the program or of the server, a client whose thread is held up
and one without a reader, as `RequestsComplete` excepts a thread that a stalled
peer holds up and mutexes that were replaced.

`SendMutex` asks it of each thread, which has nothing to do but its one push.
Clients of the slot owe nothing; without a reuse the property holds.

`Game` asks it of the server, which never waits for anything but a message, and
of the client where it waits for an answer or says EXIT. Whoever types may stop
for good, and so may another program.

## 5. What is proved

`FeedProofs`, for any set of threads, any size of the array, any bound of posts:

* `TypeCorrect`. The step that is not routine is that `FeedItems` is a sequence:
  the ranks of the filled elements are an injection into `1..n` from a set of `n`
  elements, so every place of the copy is filled (`EveryRankTaken`).
* `ArrayIsTail`. Inductive with the types.
* `IdsAccounted`, `OneThreadInOrder`. Neither is inductive: `IdInv` adds that the
  counter equals the number of ids given, and that what a thread has in the feed
  is older than what it holds. Both are about the ids before the counter wraps.
* `FeedImplementsTimeline`, under `MaxPosts < IdModulus`: entering the feed is
  `Publish`, copying it is `Read`, giving an id is a stutter. With no id 0 the
  filled elements are the first ones, so the copy is the end of the timeline.

The `Server...Proofs`, for any number of connections, slots, descriptors, posts
and follows, and whatever the clients send:

* `ServerTypeCorrect`. `TypeOK` is not inductive alone: `ReadFd` and `SendPush`
  use the lowest slot still to visit and `Tail(to_notify)`, so `PushLoop` adds
  that a thread inside the loops still has a slot and a follower to visit.
* `SlotsAreOwned`, `NothingIsLost`. `SlotOwnership` speaks of threads in session,
  but a session begins with what `main` prepared and ends with a `close` after
  the slot is given back. The inductive invariant `OwnInv` adds what `main` has
  in hand at each of its steps (`MainHolds`), that a thread that is closing still
  has its descriptor for itself (`ClosingHolds`), and that a client the server
  has not accepted has neither thread nor descriptor (`NewIsUnknown`). Most steps
  touch none of it: they are shown `Quiet`, and one lemma handles those. The two
  properties are proved together, since main may take an inactive slot only
  because no session has it.
* `OneSenderPerSlot`. `SendMutexExclusive` is inductive on top of that: a step is
  shown to leave the holders alone, to take a free mutex or to release one's own;
  `InitSlot` either finds the mutex free, so without a holder, or marks the slot.
* `AnswersReachAsker`. From ownership: the descriptor that `sendFeedToClient`
  reads from the slot at each send is the one of the thread's own connection.
* `FollowsAreSound`. From `AddFollowSound`, a fact about `AddFollow` alone: a text
  that is stored whole has been compared with what is stored, so only a name that a
  longer text is cut to can be doubled or follow itself.
* `NamesAreKept`. From `NamesInv` (below): a slot bears the name of the connection
  that owns it, and `Register` gives one only to a slot without.
* `PushesReachFollowers`. A push is the end of a chain of steps, so the invariant
  `SendInv` follows it along: slots bear the names of the connections that own
  them, and nobody acts without one (`NamesInv`); `to_notify` holds followers of
  the author, for good, since follows are never taken back (`QueueInv`); the post
  is in the log (`LoggedInv`); until the session it is meant for is over, the slot
  and the descriptor that a thread has in its hands are of that session
  (`AimInv`); and so is what was sent (`PushedInv`).
* `AnswersInterruptedByReuseOnly`. `AnswerInv`: after an item of an answer its
  thread is still sending, or the client has gone. With mutual exclusion
  whoever sends in between either holds the mutex of another slot, so the push was
  for somebody else, or one that was initialised under a sender.
* `NoFollowerIsMissed`. `NobodyForgotten`: as long as a POST is not over, each
  session that is due and still there has either been sent the post or is at a
  follower or a slot that is still to be visited. `DueKnown` says who was due.
* `PushesComeInOrder`, under `MaxPosts < IdModulus`. `BudgetInv`: the ids given and
  the POSTs still to come are no more than `MaxPosts`, so the counter does not wrap
  (`CounterInv`) and ids tell posts and authors apart (`IdsInv`). The posts of one
  author are in order, misdelivered ones included, since his thread pushes one to
  the end before it numbers the next (`OrderNext`). A connection is sent the
  same post once since a follower whose pair is in the list once is in
  `to_notify` once (`NamedOnce`), and nothing puts it back among those still to be
  reached (`OnceInv`); a pair that is there twice stays so (`TwiceStays`). A post
  that was meant for somebody else may still be followed, or preceded, by the
  client's own: that is what reuse does, and the theorem says no more.
* `FeedIsImplemented`. `AssignId`, `AddToFeed` and `GetFeedMessages` are steps of
  `Feed` (`BudgetInv` gives the guard that bounds the ids); everything else leaves
  the feed alone.
* `ConnectionsAreServed`. Beyond types, ownership and names it needs `ServingInv`:
  a thread that serves a CONNECT or a READ has received one, and `next_item` is at
  most one past the end of what it copied. The lemmas
  `...Maps` show each step of the server to be the step of `Connection` it stands
  for, as seen by the connection that acts; `OpenChanges` lists who can close a
  socket; `PushMaps` is about pushes, which arrive at others than who acts; when a
  signal ends the process, every connection sees its server end.

`ClientProofs`, for any input, any command lines, answers of any length and any
number of live pushes; the server is all that `Connection` allows:

* `ClientTypeCorrect`.
* `FlagMeansWaiting`, `AnswersPrintedAsFeed`. What the flag means depends on what
  is on its way, so `FlagInv` counts: each READ that is sent, taken or being
  answered, and each MSG_END not yet acted upon, was asked for (`EndsAreAsked`,
  an inequality, since a READ may be lost with the connection); an item has fewer
  ends in front of it than are awaited (`ItemsAreAwaited`); and until READs
  overlap at most one is awaited, just when the flag is up (`FlagIsExact`). The
  lemmas about `Upto` say how `Append`, `Tail` and `SubSeq` change such counts.
* `ClientIsNeverRefused`. `Introduced` adds that until the server has read a
  CONNECT with a name, one is in front of all that is on its way.

`GameProofs`, for codes of any length in any base, any games, any messages of
another program:

* `GameTypeCorrect`, `IndicesInBounds`. `Checked` adds that a calculation runs only
  for a guess and a code that were looked at: without the check of the code
  (`ValidCode`) the digits that are split from it could be negative, and without
  that of the guess (`ValidGuess`) any number could be an index.
* `HintsAreRight`. `MarkInv` and `MatchInv` are the invariants of the second and
  third loop: what `remaining_digits` holds of a digit are its places in the code
  that were not guessed so far, less those marked since; and a place that the third
  loop left without a mark found none left. At the end both give the minimum that
  `IsHint` asks for.
* `PlayerIsKept`. `TurnInv` lists whose turn it is and what is on its way.
* `GameIsMastermind`. The secret of the abstract game is the code in positional
  notation, while the program takes digit after digit off its right end.
  `DigitsInv` relates the two at each iteration; it takes that powers multiply,
  and `Power` is a recursive function, so that it satisfies its own equation at
  all is a lemma (`PowerEquation`). `HitsInv` says what `counter` counts, so the
  player has won just when the guess is the secret. `PlayedInv`: while guesses are
  taken the attempt has the number of the turn and no turn has won.

Inductions over numbers (`Induction` in `GameProofs`) are stated for sets, since
the provers cannot instantiate an operator: a set of numbers that is not empty
has a least element, because finite sets are well ordered by inclusion.

They rest on the named assumptions of the modules: positive sizes, `Empty` is not
a text, what `Stored` leaves of a text is not cut again and empty only of an empty
one, `NoConn` is not a connection, the scripts and the inputs are sequences of
messages and of pieces, the scripts hold no more POSTs than `MaxPosts`, the command
lines are of the type of command lines. What is said of ids is said of those before
the counter wraps.

Only model-checked: progress (`RequestsComplete`, `SessionsEnd`, `FlagIsCleared`,
`NobodyWaitsForEver`, `WinIsAcknowledged`), since liveness under fairness is beyond
the prover. `SendMutex` has no theorem: its one property is violated. Every
invariant, action property and refinement that a run checks is a theorem.

## 6. Not modelled, and what is left

What could be added: `Sessions`, an abstract server with registered sessions, a set
of follows and a post that reaches the followers' sessions, implemented by `Server`
where no slot is reused under a sender; and, as a theorem, what progress rests on,
that of the threads that wait for each other one can always move.

Not modelled:

* The bytes of a message (`util.c`): two fields change their byte order on the way
  out and back on the way in, and the same `Message` is on both sides.
* A program started with too few arguments evaluates `atoi(argv[2])` before it
  counts them (594; `client.c` 302): it may end there instead of at the check.
  Either way it does not start, which is what `SetUpServer` and `ConnectFails` say.
* A line that is longer than `user_input`: `fgets` returns it in pieces, and
  `Inputs` are pieces, but no property tells a piece from a line.
* `accept` with every descriptor in use: `main` calls it again at once and for
  ever (611). The model waits for a free descriptor, where a busy loop looks the
  same.
