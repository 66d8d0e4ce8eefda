# Verification of the xb.live homebrew SDK

TLA+ models, TLC configurations and TLAPS proofs for the C library under
`src/sdk` that an original-Xbox homebrew game links against: sign-in, runs and
scores, achievements, saves, presence, lobbies, and the deterministic lockstep
that carries a real-time match. Everything here is translated from the C code;
the xb.live server and lwIP are not in the repository and appear only as what
the SDK code relies on.

## 1. Inventory

| component | source | state it keeps | operations | interacts with |
|---|---|---|---|---|
| UDP link | `sdk/xbl_net.c` 20-154 | socket, `peer` address, `hasPeer` | open, set_peer, send, recv, recv_from, send_to, close | lwIP; both lockstep engines |
| Rendezvous | `sdk/xbl_net.c` 167-220 | `peer`/`hasPeer` | `xbl_net_connect_peer`: hello to every candidate, lock on the first source that answers | the UDP link, the candidates that the server lists |
| Two-player lockstep | `sdk/xbl_net.c` 222-359 | `mine`, `peer`, `peerKnown`; the frame counter is the game's | init, handshake, record_local, pump, have, inputs, local, free | its peer, by datagrams without acknowledgement; the game's loop (`xbl_net.h` 106-117) |
| N-player lockstep | `sdk/xbl_net.c` 363-620 | `in`, `known`, `ready`, `gpeer`, `gpeerSet` | init, handshake, record_local, pump, have, inputs, local, free | host and guests, by datagrams |
| HTTPS client | `third_party/https_client.c` | one connection per call | `https_request`, `https_get_to_file` | TLS, the file system |
| Session and accounts | `sdk/xblsdk.c` 157-577 | `sk`, `username`; the session file; the shared accounts file | session load/save/clear, validate, device login, login, remember, forget, resume, login_new | the server, the game's callbacks, every other app that uses the accounts file |
| Runs and scores | `sdk/xblsdk.c` 581-789 | `XblRun` (seed, nonce) of the game | run_begin, score_submit, leaderboard | the server, the input log |
| Achievements | `sdk/xblsdk.c` 793-1075 | the game's progress table: unlocked, awarded, toasted | init, reset, award, mark_silent, toast_unlocked, report, sync | the server, the game's toast callback |
| Input log | `sdk/xblsdk.c` 1079-1142 | run-length entries (frame, state) | init, record, free | the lockstep's inputs, the server's replay |
| Presence | `sdk/xblsdk.c` 1204-1347 | an instance id, drawn once | heartbeat, list, claim | the server |
| Lobbies and matchmaking | `sdk/xblsdk.c` 1352-1907 | the caller's `XblLobby` copy | create, list, join, leave, get, poll, setters, find, create_mode, quick_match, rounds, finish | the server, other consoles through it |
| Live battle | `sdk/xblsdk.c` 1992-2154 | the caller's match copy | net_register, net_poll, battle_finish | the server, the lockstep, the input log |
| Friends and invites | `sdk/xblsdk.c` 2165-2338 | none in the SDK | friends, invite send/list/respond | the server |
| Save files | `sdk/xbl_save.c` | a folder per slot with `SaveMeta.xbx` (label) and `data.bin` (payload) | init, write, read, list, delete | the file system, a power cut |
| Codecs | `sdk/base64.c`, `json_*` in `sdk/xblsdk.c` | none | base64, JSON scanning | every request and reply |
| Cryptography, entropy, QR code, build | `sdk/xbl_crypto.c`, `third_party/*` | none | HMAC, SHA, QR matrix | - |

### Interactions

A game on one console calls the SDK from one thread. Consoles meet in two ways:
through the server, by one HTTPS request at a time, and over UDP, in a match. Apps
on one console meet through the shared accounts file. Hence the hard parts:

- **two or more game loops in lockstep**, each at its own pace, over datagrams
  that are lost, late, repeated and reordered, with no acknowledgement;
- **handshakes** that a console may leave while its peer is still in its own;
- **files rewritten in place**, of which a power cut leaves a part, and file
  operations whose results are ignored;
- **a lost response**: the server did what was asked, the SDK reports an error;
- **callbacks** that call back into the SDK (achievement toasts).

### What makes each part correct

| part | properties |
|---|---|
| Lockstep, both | no two consoles step a frame with different inputs; what is known is final; a stall needs more loss than the redundancy covers; the match ends |
| Handshakes | an input that arrives early is not lost; the result says whether the peer was heard; the match links whatever it returns |
| Session and accounts | the file is the list of the most recent accounts, and a fault costs only what it must; no account twice; a key stays with its user; a valid session is not given up |
| Rendezvous | the link leads to the peer by an address that works; no call of a peer is missed that the network has delivered; a search lasts for its timeout and ends |
| Save files | a save that returned `XBL_OK` reads back; no payload under an older name or without a label; a delete clears what faults left, but not what the game put there |
| Achievements | a toast once, never for what was earned before, one for every new unlock; what toasts live is granted later |
| Runs and scores | an acceptance is one of the server; an honest run is not refused for its replay |
| Live battle | both consoles get to search for each other; the two results agree and arrive |
| Matchmaking | a seat is kept while it is polled with the session; a player is in no room it does not know of unless an answer was lost; nobody hosts past an open room; a room that is gone is noticed |
| Input log | the entries stand for the sequence of states the match was played with |

## 2. Plan

| order | module | models | status |
|---|---|---|---|
| 1 | `Lockstep` | the abstract promise of lockstep | done |
| 2 | `Lockstep2` | the two-player link, implements `Lockstep` | done, proved |
| 3 | `LockstepN` | the host relay, implements `Lockstep` | done, proved |
| 4 | `Handshake` (extends 2), `HandshakeN` (extends 3) | the handshakes in front of a match | done, proved |
| 5 | `Rematch` (extends 2) | the next match between the same consoles | done |
| 6 | `AccountList`, `AccountStore`, `Accounts` | lists of accounts; the promised list; sign-in over two files and a server | done, proved |
| 7 | `Rendezvous` | `xbl_net_connect_peer` of two consoles behind address translation | done, proved |
| 8 | `Saves` | a slot's two files, failing operations, short writes and power cuts | done, proved |
| 9 | `InputLog`, `Runs` (extends it), `Achievements`, `Play` (composes them) | one launch of a game: runs, their logs, scores, and the achievements they earn | done, proved |
| 10 | `LiveBattle` (extends 7) | the round, the exchange of endpoints and the verdict around the search | done, proved to implement 7 |
| 11 | `Matchmaking` | several consoles, a server that reaps rooms, lost requests and answers | done, proved |
| 12 | `LoopTheorems` | facts about loops that the proofs of 6 and 9 need | done, proved |

A `...Proofs` module extends the last module of its component: `Lockstep2Proofs` is
about `Lockstep2` and `Handshake`, `LockstepNProofs` about `LockstepN` and
`HandshakeN`, `LiveBattleProofs` about `Rendezvous` and `LiveBattle`. What the plan does not take up,
and why, is in section 8.

## 3. The modules and the code

### Lockstep

`Lockstep` is the promise, with no network: `Sample` fixes one input per player and
frame, `Delay` frames ahead, and `Apply` steps a frame only when the inputs of all
players for it are fixed.

### Lockstep2

Variables `mine`, `peer`, `peerKnown` are the fields of `XblLockstep`; `frame` and
`phase` are the game's loop of `xbl_net.h`:

    record_local(f); pump(f); while (!have(f)) pump(f); inputs(f); step

| code | action |
|---|---|
| `xbl_lockstep_init` | `Init` |
| `xbl_lockstep_record_local` | `RecordLocal` |
| `xbl_lockstep_pump`, with `ls_drain` | `Pump` |
| `xbl_lockstep_have`, `_inputs`, and the step of the game | `Apply` |

`net[p]` holds the datagrams of `p` that were not dropped. It only grows: a drain
reads any subset, so a datagram can be late, out of order or read twice. `lost`
counts the dropped copies of each frame. `view` is a history of what each console
stepped. One pump is one action: the sends do not depend on the drain, and what
arrives between two calls of `recv` belongs to the drain.

### LockstepN

The same loop; `table` is `ls->in`, `known[p]` the host's `known`, `ready[c]` the
guests' `ready`, `gpeerSet` the endpoints that the host has learned. The host's
pump (`HostPump`) drains and then relays the complete frames of its window to the
guests it knows; a guest's (`GuestPump`) sends its window and drains. A guest may
be known before the match, from a hello in the handshake: `Init` lets `gpeerSet`
be anything, which covers a handshake that ended either way.

### Handshake and HandshakeN

Each extends its engine by one variable for where a console is in its handshake;
what is left of the engine runs once the handshake is over. A round of the
two-player handshake is two steps, because it reads the socket twice: `Greet`
(hello, `ls_drain`) and `Listen` (the second read, which drops what it reads). A
round of the N-player handshake is one step of the host or of a guest. `TimeOut`
may happen at the top of any round. An input that `Listen` drops comes again: its
sender stays at the frame, and sends it with each pump, until it hears the peer,
which sends inputs only after its handshake.

### Rematch

`Restart` is `xbl_lockstep_init` for the next match. The restarting console opens
a socket that holds nothing sent so far, so that only what the peer sends
*afterwards*, from its own unfinished match, can reach the next one.

### Accounts

One action per request and per file operation of `xbl_login`, `xbl_login_new`,
`xbl_session_resume`, `xbl_account_forget`: `pc` is where the call is, `out` the
caller's `XblSession`, `list` the array that `accounts_write` writes.

| code | action |
|---|---|
| `xbl_login` to `xbl_session_load` | `Login` |
| `xbl_session_resume`, `xbl_login_new` | `Resume`, `LoginNew` |
| `xbl_session_validate` | `Validate` |
| `xbl_session_clear` | `DeleteSession`: `Clear` inside `xbl_login`, `SignOut` by the game |
| `device_login` | `DeviceFails`, `DeviceSucceeds` |
| `xbl_session_save` | `CreateSession`, `WriteSession` |
| `xbl_account_remember`, `accounts_write` | `RememberNobody`, `CreateStore`, `WriteStore` |
| `xbl_account_forget` | `Forget`, then `CreateStore`, `WriteStore` |

A file is a sequence of whole lines; the last may be cut short, which leaves
nothing, or an account whose key is `Damaged`. An empty file and a missing one are
the same, since both loads return `XBL_ERR_AUTH`. `Launch` is a power cut or the
launch of another app: memory is lost. `Revoke` is the server. The two loads are
part of the step that uses them, because no other app runs.

Every file operation may fail, once `MaxFaults` allows: a session file that cannot be
read is taken for none (`Login`), a store that cannot be read is taken for an empty one
and replaced by the account that signs in (`CreateStore`) or is left alone (`Forget`),
and a file that cannot be deleted stays, of which nobody is told (`DeleteSession`,
`Forget`). The answer of `device_login` may lack the user name: the session is saved
without one, and `RememberNobody` is the check that keeps it off the list.

`AccountList` has what both modules do to a list: `Kept(u, list)[n]` is what the
loop that skips user `u` has copied of the first `n` accounts, `Without` what it has
copied in the end, and `Front` the first entries, as many as there is room for.

`AccountStore` is what `xblsdk.h` promises of the list: remember moves to the
front, at most `Max`. Its `faults` counts what goes wrong, and only a step that
counts may do what `Suffer` allows: an interrupted write keeps a prefix, and a list
that cannot be read is replaced. `Accounts` implements it when a list that is being
written counts as written, with its own `faults` for that of `AccountStore`.

### Saves

`label[s]` and `data[s]` are the two files of a slot: a label is the number of the
save whose name it holds, `Blank` after `CREATE_ALWAYS`, `Cut` after a short write;
a payload has the number of its save, its full size and how much is on the disk.
Of a name, its first 63 characters count, which is what `XblSaveInfo` holds.
`own[s]` says that the game has files of its own in the folder, as `docs/saves.md`
tells it to (`OwnFiles`): `RemoveDirectory` then fails, which `xbl_save_delete` does
not look at, and it may fail for no reason of the folder's. `SaveList` ends early,
with `XBL_OK`, when `FindFirstFile` or `FindNextFile` fails.
`step` is where in a call the thread is; `PowerCut` may end any call between any two
file operations. `stored`, `gone`, `unremoved` and `refused` are histories of what
the results told the game.

| code | action |
|---|---|
| `xbl_save_init` | `SaveInit` |
| `xbl_save_write` | `SaveWrite`, `CreateLabel`, `WriteLabel`, `CreateData`, `WriteData` |
| `xbl_save_delete` | `SaveDelete`, `DeleteData`, `DeleteLabel`, `RemoveFolder` |
| `xbl_save_list`, with `read_save_name` | `SaveList`, `Name` |
| `xbl_save_read` | `Read`, an operator, as it changes nothing |

### InputLog, Runs, Achievements and Play

`InputLog` has the entries of the buffer, its length and capacity, and `held`, the
masked states of the frames played; `Record` is `xbl_inputlog_record`, one disjunct
each for no change, a change that is appended, and a `realloc` that fails.
`Doublings[k]` is `newcap` after `k` rounds of the loop that doubles it, `Grown` what
the loop ends with.
`Replayed` is how the server reads the log (`docs/rest-api.md`), 0 before its first
entry. An entry has `EntryLen` characters, where those of the code have as many as
their numbers need; the buffer counts what is in it either way.

`Runs` extends it by the run the game holds and by the server's record of it:
`RunBegin` is `xbl_run_begin_map`, `ScoreSubmit` is `xbl_score_submit`. Its three
disjuncts are an answer, a transport error after which the server may or may not
have judged the score, and a server error. `Verdicts` are what the server may make of
a submit: the run is closed (409, 410), the log does not replay to it (422), or the
caller is refused whatever the run is (400, 401, 403, and 422 for its timing); every
4xx is `XBL_ERR_REJECTED`, and `why` is a history of which it was. A run expires by
`Expire`.

`Achievements` is the awarded set of one launch. `AchAward` sets the flag and then
enters the toast callback (`depth` + 1), in which the game may award again;
`ToastReturn` leaves it. `AchReport` sends a report; its answer is worked off one
toast at a time (`ToastUnlocked`, the loop of `ach_toast_unlocked`) and `MarkAll`
is `ach_mark_all_silent`. `AchSync` is `xbl_ach_sync`, `AchReset` is
`xbl_ach_reset` with another account, `GrantElsewhere` the same account on another
console.

`Play` composes the two in the order of `docs/achievements.md`: in a run the game
awards what its held inputs have earned (`AwardLive`), after it submits the score
and reports (`ReportStep`), and the server replays the log to grant
(`EarnedAtServer`). No step of the run happens inside a callback, because there is
one thread.

### Rendezvous

A round of `xbl_net_connect_peer` is `Volley` (a hello to every candidate), `Hear`
(one packet of the inner loop: the first with the magic number links, and its source
is answered) and `Doze` (the socket is empty: `Sleep`, one tick). `GiveUp` is the
test of the outer loop, `Searching`, with `GetTickCount() - start` modulo `Wrap`
taken as a signed number. A linked console goes on sending by `Talk`, since the
handshake and the match have the same magic number.

The network between two sockets is external: a console is behind an open, a
restricted or a symmetric address translator (`nat`), possibly on a shared local
network (`lan`). `SendTo` puts packets into `flying`; each is there until `Deliver`
brings it to the translator of the peer, which lets it in or does not (`Passes`). A
packet that is dropped is in flight for ever. Packets overtake each other, and a packet
that is sent again while it is in flight is the same packet. `inbox` is a socket's
packets by source; an address
is the one the peer's packets come from.

A search that comes up empty while a call is in flight has missed nothing yet, so
`deaf` excepts that round (`OnItsWay`): `NothingMissed` is about calls that the
network has carried to the end of their way.

### LiveBattle

Extends `Rendezvous` by the requests around the search, so that a console dials only
what the server has told it:

| code | action |
|---|---|
| `xbl_mp_start` | `StartRound` |
| `xbl_mp_round` | `FetchRound` |
| `xbl_mp_net_register`, `parse_net_match` | `Register`, `Match` |
| `xbl_mp_net_poll` | `PollPeer` |
| `xbl_net_connect_peer` | `Dial`, then the steps of `Rendezvous` |
| `xbl_mp_battle_finish` | `BattleFinish`, `ResultOf` |

Every request has a disjunct in which it fails, with what the server did of it left
open: the request was lost, or its answer was. `Decide` is the server, which replays
the battle once it has both logs.

### Matchmaking

`room`, `made` and `heard` are the server's; `copy[p]` is what a console reads of the
`XblLobby` it holds: the code, and whether it sees itself in the roster and as
host. A quick match is a sequence of requests (`pc`): `Find`, `TryJoin` for each row
kept, `Create`, `SetMode`, and `Leave` if the mode could not be set. Requests of
different consoles interleave. `Lose` is a request or an answer that is lost.

| code | action |
|---|---|
| `xbl_mp_quick_match` | `QuickMatch` and the actions of `Proceed` |
| `xbl_mp_list`, `xbl_mp_find` | `Find`, `Joinable` |
| `xbl_mp_join` | `TryJoin`, `JoinByCode` |
| `xbl_mp_create`, `xbl_mp_create_mode` | `Create`, `SetMode`, `SetFailed` |
| `xbl_mp_leave` | `Leave` |
| `xbl_mp_poll` | `Poll`, `HeardOf`, `Polled` |
| `xbl_mp_get`, and `xbl_mp_poll` without a session | `Get`, `Polled` |
| `xbl_mp_start`, `xbl_mp_kick`, `xbl_mp_return` | `Start`, `Kick`, `ReturnToLobby` |

The server is modelled from `docs/rest-api.md` and `docs/multiplayer.md`: a join is
refused by a full room, the host role migrates, the last member disbands. `Reap`
drops the members the server has not heard of, once every console that holds a seat
has polled or tried to. A poll by `Get` is answered like any other, and the server
does not hear of the member by it. `astray`, `steady`, `polled` and `turnedOut` are
histories that the properties need to say what a console could know: a console whose
polls went all unheard, because they were lost or carried no session, is turned out.

## 4. The runs

| run | bounds | what it shows |
|---|---|---|
| `Lockstep2Match` | 2 frames, delay 1, 2 inputs, delay copies of each frame may be lost | no desync, refinement of `Lockstep`, known inputs are final, a stall needs more than `Tolerated(f)` losses, and with fewer the match ends |
| `LockstepNMatch` | 3 consoles, 2 frames, delay 0, one input loss per frame and link, one aggregate loss | no desync, refinement of `Lockstep`, implicit acknowledgement, nothing passed unrelayed; while no aggregate is lost the match ends |
| `LockstepNRedundancy` | 2 consoles, delay 1, one aggregate lost | **violated**: an aggregate may be sent once only |
| `HandshakeMatch` | 2 frames, delay 1, 1 input, delay copies of each frame may be lost | what a handshake throws away never stalls the match, which ends while the losses stay within the redundancy |
| `HandshakeNLive` | 3 consoles, 1 frame, delay 1, hellos and one input may be lost | the match links and ends whatever the handshakes return |
| `RematchAgreement` | 2 matches of 1 frame, perfect network | **violated**: an input of the last match counts in the next |
| `AccountsSafety` | 2 apps, 3 users, room for 2, 3 keys, 2 faults of any kind | refinement of `AccountStore` (hence no account twice), at most two accounts, a key stays with its user, a sign-in that met no fault is persisted |
| `AccountsKept` | 1 user, no fault | **violated**: a lost request clears a valid session |
| `SavesSafety` | 2 slots, sizes 0 and 2, 3 saves, faults and power cuts at will | saves read back, labels are never older than payloads nor missing, a delete leaves no file of the SDK's |
| `PlaySafety` | 2 runs of 3 frames, raw inputs 0 to 2 of which bit 1 is undefined, a catalog of 3 of which 2 fit | the log replays to the run, an honest run is not refused for its replay, one toast per achievement, none for what was earned before, live toasts are granted |
| `LiveBattleMatch` | tick counter of 8 that starts at 7, timeout of 1 round, every pair of translators, one call failed | the link leads to the peer, no delivered call is missed, a search lasts for its timeout and ends, both consoles dial, the verdict arrives |
| `MatchmakingRooms` | 2 consoles and a guest, rooms of 2, 2 modes, 2 rooms, a table of 1 row, one request or answer lost | seats that are polled with the session are kept, strays come of lost answers only, nobody hosts past an open room, a room that is gone is noticed |

The bounds. *Lockstep*: two frames with a delay of one is the least with a warm-up
frame, a window of two frames, a pump that overlaps a later one, and a frame past
the end of the match. Two inputs tell any two apart; where only progress is asked
for, one is enough. Three consoles is the least where the host holds one guest's
input and lacks another's. *Accounts*: with room for two of three accounts one is
evicted; three keys give each user one, or one of them a second. *Saves*: three
saves put two on one slot, of which the second is cut short, and one beside it; a
size of two lets a short write be empty, partial or whole, and a size of zero takes
the path without `WriteFile`. *Play*: a log of three entries makes the buffer grow
more than once from its first capacity, and a second run meets what the first left.
*Live battle*: a clock that starts one tick before its wrap wraps in every search,
and a call that is in flight across a round, or for ever, is in every one too.
*Matchmaking*: the least with a room that fills between a list and a join, two
searches that meet, a guest who takes the last slot, a list that is longer than the
table, and a room that is created, left and replaced.

Apps, users, keys and slots are interchangeable, and the account and save runs,
which check no liveness, use that symmetry. `MaxLoss`, `MaxInputLoss`, `MaxAggLoss`,
`MaxFaults`, `Matches`, `MaxSaves`, `MaxRuns`, `MaxFailed`, `MaxRooms` and `MaxLost`
are the counters that are bounded for TLC's sake.

`CHECK_DEADLOCK FALSE` is set where the system comes to its end: a match that is
played, a draw, a search in vain, a launch whose runs are spent.

## 5. Fairness

`FairSpec` and `HFairSpec` assume that a console keeps running its loop (weak
fairness of `RecordSome` and `Apply`), that time passes (`TimeOut`), and that a
pump finds every surviving datagram infinitely often (`PumpAll`): a datagram that
was not dropped is not late for ever. The loop of `xbl_net.h` calls the pump every
2 ms for as long as it waits, and `ls_drain` reads until the socket is empty. No
fairness is assumed of the network's losses, which are bounded instead. A console
that is done stops pumping, as in the code. `Handshake` assumes strong fairness of
`TimeOut`, which is enabled only between two rounds: a round sleeps 120 ms, so
that after finitely many of them `timeoutMs` has passed.

`LiveFairness` is weak fairness of a console's next step of any kind but idle
traffic: a game repeats a call that failed, dials once its peer is ready, and a
search goes on until it links or its time is over. Calls that fail are bounded by
`MaxFailed`; no fairness makes a search
successful, and none is assumed of the packets in flight, so that any may be dropped.
`Fairness` of `Matchmaking` is weak fairness of a console in a room that polls, by
either call, or notices what the last poll has left it: the loop of
`docs/multiplayer.md`.
It is over `state`, the variables without the histories that every step rewrites.
Nothing is assumed of a player who searches, hosts or leaves.

## 6. What is proved

The runs check what is hard; what follows more directly from the code is stated and
proved without a run of its own: the type invariants, `FramesAscend`,
`AcceptedIsStored`, `AwardedIsEarned`, `ListMissesNone`, `ReadyFrameStable`,
`BoundedSkew`, `ResultsAgree` and `GuestHandshakeTimesOut`.

Eight modules hold the proofs, for every value of the constants, of the type
invariants, safety invariants and action properties listed in `PROJECT.json`, and
seven refinements: the abstract lockstep is implemented by the two-player link and by
the host relay, each with and without handshakes; the promised account list by sign-in
and its files; `Rendezvous` by a live battle; and the runs of `Runs` by a launch.
Every invariant and action property that a passing run checks has a theorem.
The assumptions are those that the modules name: `Neutral` is an input, a delay is a
natural number, a match has a frame and two players, the sets of slots, users and
rooms are finite, a timeout is less than half of what the tick counter holds, and the
like. In each, the argument is one inductive invariant.

*Loops* (`LoopTheorems`). Two definitions follow a loop of the code round by round,
as recursive functions: `Kept` and `Doublings`. Their proofs need induction over
the rounds, which the installed provers do not get from a theorem with an operator
for a parameter; they get it from a set. `LeastNat` takes the least element of a
set of natural numbers (`WFMin` of the library), `UpTo` is induction up to `n` for a
set that contains 0, and `LoopRuns` says that a bounded loop has a run, so that
the recursive function exists. `KeptIs` and `DoublingsAre` apply it.

*Two players* (`Lockstep2Proofs`). `Agreement` is not inductive: it needs that what a
console applied is what both **recorded** (`ViewRecorded`), hence that what it knows
is what its peer will apply (`KnownFixed`), hence that a datagram carries an input
that is fixed (`NetFixed`): it is for a frame below `Recorded(p) + Delay`, which
`RecordLocal` no longer writes. These are `LinkInv`; `SkewBound` and the refinement
of `Lockstep` follow from it. `LossTolerance` needs a count: `LossCounted` says that a
frame with no surviving copy lost one for each pump whose window held it,
`Covered(p, f)` of them. `IInv` is the two together.

*Two players behind handshakes* (`Lockstep2Proofs`, `HInv` of `Handshake`). `LinkInv`
carries over, since a handshake takes from the network and adds no input. `LossCounted`
does not: the second read of a handshake throws datagrams away that no network lost.
What saves the match is when it does so. A console in its handshake has sent no
input, so that its peer knows none (`Unheard`) and is still at frame 0
(`LeftAfterHeard`); whatever is thrown away was sent from there. The pump in which
the peer first hears this console sends the window of frame 0 once more, after the
handshake is over. Hence the count holds of each frame as soon as its sender has
heard its peer (`LossCountedSinceHeard`), and a console cannot be stuck at a frame
that its peer has left without having heard it. `HandshakeStallsNothing` is the
result: the losses that a match survives are the same with and without handshakes.

*N players* (`LockstepNProofs`, `IInv`). The chain is longer: an input packet is
fixed (`InputFixed`), what the host knows is fixed (`HostFixed`), an aggregate is
the host's row of a complete frame (`AggFixed`), so is what a guest is ready for
(`GuestReady`), so is what any console applied (`ViewRecorded`). `Linked` and
`PassedRelayed` say that the host leaves a frame only after it has relayed it to
every guest, which is what `RelayedBeforePassed` rests on.

*N players behind handshakes* (the same module, `HInv`). `IInv` carries over; what is
added is `Fresh`: a guest in its handshake has sent no input, so the host knows none,
so no aggregate exists. Hence `GuestsAlwaysTimeOut`, for any number of players and
any network, and the refinement, although the host's handshake drains inputs.

*Accounts* (`AccountsProofs`, `IInv` of `Accounts`). That a key keeps its user must
hold in memory too (`MemoryNamedRight`), of names that the server has confirmed
(`ServerKnows`). `MidCall` says what a call holds at each of its steps: a session is
written only once the server has vouched for it, and a list of a sign-in begins with
that session, which has a user by then. `SessionFirst` says that the session is on the
disk before the list, as long as nothing has failed, and `UsersDistinct` that no account is listed twice, which
rests on what `Without` leaves (`WithoutIs`). The refinement of `AccountStore` maps a
list that is being written to the whole list, and an opened file to `Remember` or
`Forget`. A step that counts a fault is `Suffer`: a write that stops, or is cut short by
`Launch`, is `Lose`, a store that could not be read is `Replace`, and the others leave
the list alone (`HarmlessFault`). Without a fault the list is therefore exactly as
promised.

*Saves* (`SavesProofs`, `TInv` then `IInv`). A payload is never newer than the calls
made so far (`DataNotNewer`), and in the middle of a call the files are as the steps
before it have left them (`MidCall`); `StoredOnDisk` says where a save that returned
`XBL_OK` is. With these, `LabelNotOlder`, `DataHasLabel` and `DeletedIsGone` are
inductive across power cuts. `DeletedIsGone` is about deletes that the file system
refused nothing, and lets a folder stay for files of the game's own; `ListMissesNone`
is about lists that no failing find has cut short.

*One launch* (`PlayProofs`, `PlayInv`). `LogInv` says that the last entry of the log
is the last state recorded and that entries ascend; from it follows what the log
replays to at every frame whose record returned `XBL_OK`. `BufferInv` keeps the text
and its NUL inside the buffer, because the doubling loop ends with room for them
(`GrownFits`: after `k` rounds the buffer either fits or has more than `k` bytes).
`RunsInv` adds what the result of a submit says of the server, and that a refusal for
the replay was of a log that does not replay; and `AchInv` that the
awarded set is what was toasted and what the server said was earned, with `depth` no
more than its cardinality. `PlayInv` adds what a reported run has been granted.

*Rendezvous and live battle* (`LiveBattleProofs`). In `SearchInv`, `NetInv` says that
the source of every packet in flight or in a socket can be answered once it is let in,
so that the peer locked onto can be reached; `Hears` that a console that was called has
a packet to hear or one on its way;
`ClockInv` that the tick counter is `rounds` past `start` modulo `Wrap`. Every step of
`LiveBattle` is one of `Rendezvous` or leaves its variables alone
(`LiveImplementsSearch`), so the three properties carry over; `CallsInv` and
`ResultsInv` say what leads to a search and what a result stands for.

*Matchmaking* (`MatchmakingProofs`, `Inv`). `ServerInv` says what rooms are,
`ClientInv` what a console holds, and for each console `CopyInv`, `SeatInv`,
`StrayInv` and `SteadyInv` relate the two. Every action is one lemma about what it
does to the console that moves, its outcome, and one about the bystanders.

Only model-checked is liveness, which is out of the prover's reach: that a match, a
search and a battle come to their end (`MatchCompletes`, `SearchEnds`, `RoundIsDialed`,
`VerdictArrives`) and that a room that is gone is noticed (`GoneIsNoticed`). The three
properties of the runs marked **violated** do not hold, so that `Rematch`, whose only
property is one of them, has no theorem.

## 7. What disagrees with the documentation

Every run marked **violated** checks a sentence of a header or comment that the
code does not keep; `PROJECT.json` quotes each with its line: an aggregate may be sent
once only (`LockstepNRedundancy`), an input of the last match may count in the next
(`RematchAgreement`), and a lost request deletes a valid session (`AccountsKept`). The
other models state what the code does where a document says something else. The
properties are about what the code does keep; what it does not is here:

- `xbl_net.h` 204 lets a guest's handshake return 1 once the host is seen. It waits
  for the aggregate of frame 0, and so for the input that the guest sends only after its
  handshake: it never returns 1, as `GuestsAlwaysTimeOut` proves.
- `xblsdk.h` 159 says that a sign-in that succeeds is persisted and remembered. The
  results of `xbl_session_save` and `xbl_account_remember` are ignored (`xblsdk.c` 368),
  so that it succeeds where the disk refuses; `SignInIsRemembered` is about a sign-in
  that met no fault.
- `xblsdk.h` 172 says that the list of accounts is added to or updated. If it cannot be
  opened or read it is taken for an empty one, and rewritten with the account that signs
  in (`xblsdk.c` 496): `Replace` of `AccountStore`, which counts as a fault there.
- `xblsdk.h` 523 says that a delete removes the folder of the slot. It stays if the game
  has files of its own in it, which `docs/saves.md` 92 tells it to, or if
  `RemoveDirectory` fails (`xbl_save.c` 240, result ignored), and is listed as a save.
  `DeletedIsGone` is about the two files, and about the folder of a slot without others.
- `xblsdk.h` 59 says that `XBL_ERR_REJECTED` is a failed verification. It is any 4xx
  (`xblsdk.c` 715): a stale session, an implausible timing, a run that is expired or
  already stored (`docs/rest-api.md` 125). `HonestRunNotRefused` says that a run recorded
  whole does not fail the replay, not that it is accepted.
- `xblsdk.h` 340 and `docs/multiplayer.md` 363 have a console poll its room by
  `xbl_mp_get`, which carries no session: the server does not hear of the member, and
  reaps it. `SeatIsKept` holds of `xbl_mp_poll`, which `docs/multiplayer.md` 58 asks for.
- `xbl_net.c` 311 promises delay + 1 chances to *every* frame. A warm-up frame `f`
  has only `f` + 1, as `Tolerated` in `LossTolerance` says.
- `xbl_net.c` 281 says that a handshake keeps early inputs. `Listen`, its second
  read, drops those that arrive after the drain; `HandshakeMatch` shows that they
  come again.
- `xblsdk.h` 197 says that `xbl_score_submit` returns `XBL_OK` for a rejection; it
  returns `XBL_ERR_REJECTED`, as `Answered` has it. `xbl_ach_report` returns
  `XBL_ERR_HTTP` for one.
- A report that the server has worked off, but whose answer is lost, leaves an
  unlock without a toast: the next answer marks it silently (`EarnedStaysSilent`).
  `UnlocksAreShown` is about answers that arrive.
- `xblsdk.h` 334 and `docs/multiplayer.md` 305 say that a host who leaves disbands
  the room; `docs/rest-api.md` 328 and `docs/multiplayer.md` 51 that the role
  migrates, which `Matchmaking` follows.
- `xblsdk.h` 400 says that quick match hosts if no room is joinable. The list is cut
  off at 32 rows of any kind before it is filtered, which `HostsOnlyWhenAlone` has to
  except.
- A room of `xbl_mp_create_mode` is in the default mode until its second request,
  and may be joined as such.
- `xblsdk.h` 378 says that `xbl_mp_finish` sets `*accepted` for a verified score; the
  code sets it on every 2xx (`xblsdk.c` 1979). `xbl_mp_finish` is not modelled.
- `xblsdk.h` 521 says that `xbl_save_list` enumerates the saves. When a find fails it
  returns `XBL_OK` with those found so far, which `ListMissesNone` has to except.
- A join whose answer is lost has seated the player (`xblsdk.c` 1827): quick match goes
  on, and the player may be in two rooms until the server reaps the first.
  `StraysWereUnanswered` and `HostsOnlyWhenAlone` except such a room.

## 8. What is not modelled

*Within the models.* The abort of the game's loop, checks of arguments, packets that
are too short or carry another magic number (in the lockstep they change nothing);
opening and closing sockets; 16-bit inputs are members of a small set, since no
code path of the lockstep looks at their bits. In `Accounts` the polling of
`device_login` is one step, and names longer than their buffers are left out. In
`Saves` a read does not change a slot, and names that `slot_ok` refuses reach no file.
In `Rendezvous` nothing with the magic
number comes from a third party, although another match that reaches the same socket
would be locked onto, and no packet arrives twice unless it is sent twice. A 2xx answer that does not parse is left out everywhere. The server
is what the SDK code and its documents rely on: it issues a key to a user and a run
to a console, accepts a key until it is revoked, stores one score per run, and
answers or does not.

*Components.* Presence, friends and invites are one request each, and keep no state
in the SDK beyond an instance id. So are the leaderboard, `xbl_mp_progress`,
`xbl_mp_finish` and the setters of a host other than the mode, start and kick: they
change what the server keeps, or fill in what it answers. `https_client.c` is
sequential I/O over mbedtls and lwIP whose state ends with the call; a request is a
step that is answered or lost in every other module. Base64 and the JSON scanners
are pure functions over byte strings, and unit tests reach them. Cryptography,
entropy, the QR code (vendored) and the build have no behaviour for a model checker.
