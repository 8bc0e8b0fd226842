# A formal model of CANShift Tuner

CANShift Tuner is a web page that edits the setup of a CANShift dash, a display mounted
in a car, and talks to the dash over Wi-Fi (a WebSocket) or USB (Web Serial). What is
hard to get right lies between the page and the dash: two transports that drop, one
command channel without reliable replies, a dash that restarts on some writes, stores
that remember what the dash is believed to hold, and scans, lists and updates whose
answers come when the page has moved on. The specifications here model that part, and
those of the editor's algorithms that many edits in a row can break. TLC checks them on
small instances. TLAPS proves, for every value of the constants, every safety property
that a passing run checks; what must eventually happen is checked by TLC alone.

Source paths below are relative to the application's `src/` directory
(`transport/...`, `lib/...`, `stores/...`, `hooks/...`); `docs/...` is relative to
the repository's root.

## 1. Inventory

| Component | State | Operations | Interacts with |
|---|---|---|---|
| Command channel, `transport/ack-queue.ts` | pending command, bounded line, stale window, seq counter, timers | `send`, `routeAck`, timeouts, `failPending`, `clearStaleFlush`, `drainAllWithError` | owned by each client; `write`/`canSend` call back into it |
| Reconnect scheduler, `transport/reconnect-scheduler.ts` | timer, delay, attempts, uptime | `schedule`, `cancel`, `reset`, `noteOpened`, `handleClose` | owned by each client |
| Wi-Fi client, `transport/websocket-client.ts`, `contention.ts` | adopted socket, opening promise, status, error, intent | `connect`, `disconnect`, socket events | browser sockets, scheduler, channel |
| USB client, `transport/webserial-client.ts` | port, reader, writer, status | `connect`, `disconnect`, read loop, close | browser port, scheduler, channel |
| Line framer, `transport/line-framer.ts`, `frame-parse.ts` | buffer, discard flag | `push`, `reset` | feeds the USB client |
| Chunked transfer, `transport/chunked-*.ts`, `file-ipc.ts` | offset of the transfer | push, pull | one command per chunk |
| Send to dash, `lib/sync/*`, `stores/sync/*` | baseline, draft, send state, newer-setup flag | send, undo, restore, adopt answers, persist | channel, editor, device session |
| List of changes, `lib/sync/diff-*.ts`, `revert.ts`, `setup-path.ts` | none: computed from draft and baseline | list, undo one, undo all | editor, send to dash |
| Device session, `stores/device.store.ts`, `hooks/use*` | handshake, heartbeat, known device | handshake, beat, offline mode | both clients, every store that sends |
| Firmware update, `lib/firmware-update.ts`, `stores/firmware.store.ts` | view, progress, cancel flag | pick, begin, write, commit, abort, wait for the restart | channel, device session |
| CAN scan, `stores/can-scan/*` | status, generation, subscription, timer, counters | start, stop, learn, snapshot | channel, frames, link events |
| Car scan, `stores/car-scan/*` | phase, generation, poll timer | start, poll, match, reset | channel, link events |
| Trouble codes, `stores/dtc.store.ts` | codes, status, error | read, clear | channel, link events |
| Session logs, `stores/session-logs.store.ts` | list, availability, busy session | list, download, delete | HTTP |
| Editor, `stores/dashboard/*` | pages, widgets, selection, undo/redo | edits, undo, redo, paste | draft of send to dash |
| Gauge layout, `stores/dashboard/widget-moves.ts`, `utils/layout.ts` | the places of a page's gauges | drag, resize, nudge, add, copy, paste, swap | editor |
| Autosave, `stores/dashboard/autosave.ts` | debounce timer, last written | edit, flush, load | local storage |
| Sampling and log ring | bounded buffers | append, clear | event hub |

What makes them hard, in order of weight:

* **Interleaving.** One page, one thread, but every `await` is a place where a
  drop, an answer, a timer or the user gets in: a send holds the baseline it read
  before its first command; a reconnect attempt outlives a `disconnect()`.
* **Unreliable delivery.** A reply may come after its timeout, a write may be
  obeyed and its reply lost, a USB write may reject after its command was answered.
* **Ordering.** Late replies must not be given to the next command; the write that
  restarts the dash must be the last; HTTP requests overtake one another.
* **Restart.** The dash reboots in the middle of what the page does, and the page
  can be reloaded in the middle of what the dash is told.
* **Long sequences.** Edits, undos and drags are each simple, and what they leave
  after a few of them is not.
* **Liveness.** Every call must settle, every send and every update must end,
  reconnection must stop or succeed.

What makes each modelled component correct is stated as the properties of
section 3. `PROJECT.json` lists every hazard at its line, with the properties that
guard it or the reason there is none.

## 2. Modules

| Module | Models |
|---|---|
| `CommandChannel` | what a caller of `send()` is promised: one server, a bounded line, final results |
| `AckQueue` | the class, its timers, the writes on their way and the device that answers; inductive invariant; refinement of `CommandChannel` |
| `ReconnectScheduler` | the backoff, as operators its owner composes |
| `WebSocketClient` | the Wi-Fi client; extends `ReconnectScheduler` |
| `SerialClient` | the USB client; extends `ReconnectScheduler` |
| `LineFramer` | the stream of characters cut into lines |
| `SendSetup` | draft, baseline, dash, one send, the answers of a connection |
| `ChangeList` | the list of what is not sent, and the undo of one entry |
| `Device` | what the stores know of the dash; extended by the stores below |
| `CanScan`, `ScanAccumulator` | the CAN scan and the scanner it drives; its counters |
| `CarScan` | "Scan my car" and the bus scan it polls |
| `TroubleCodes` | the trouble codes and the car |
| `FirmwareUpdate` | the firmware update and the dash that receives it |
| `SessionLogs` | the recorded sessions and the card of the dash |
| `GaugeLayout` | the places of the gauges of a page |
| `Autosave` | the draft in the storage of the browser |
| `AckQueueProofs`, `WebSocketClientProofs`, `SendSetupProofs`, `FirmwareUpdateProofs` | the theorems about the module of that name |
| `SerialClientProofs` | the theorems about `SerialClient` and `LineFramer` |
| `StoreProofs` | the theorems about `CanScan`, `ScanAccumulator`, `CarScan`, `TroubleCodes`, `Autosave` and `SessionLogs` |
| `EditorProofs` | the theorems about `GaugeLayout` and `ChangeList` |
| `OrderLemmas` | least and greatest elements, ranks and counting, for `EditorProofs` and `SerialClientProofs` |
| `MCAckQueue`, `MCSendSetup` | instances of these two for TLC |
| `MCTuner` | the other twelve components in one instance |
| `MCGaugeLayout` | one page of the full grid |

One action is one uninterrupted run of JavaScript: a method, a timer callback, a
socket event, or the code between two `await`s with everything it calls. Where
the order of two calls inside such a run cannot be seen from outside, they are one
conjunction. Actions carry the source's names.

Definitions whose comment begins "Faulted" are variants of a definition that
follows them, with one plausible mistake; nothing uses them. `PROJECT.json` pairs
each with the property that must fail when it takes the place of the real one.
History variables, marked so where they are declared, are read by properties and never by
an action's guard.

### AckQueue

`pendingAck`, `pendingSends`, `staleAckDiscards`, `staleAckFlushTimer` and `lastSeq` are
the fields of the class. A promise is `outcome[c]`, an armed acknowledgement timer is
membership in `ackTimers`, and `seqOf[c]` the number the command went out with (0: never
sent). `outbound` are the writes that have not settled (USB only; a WebSocket write
settles at once), `wire` the commands whose reply has not come, in any order and any
time later, or never. The replies on their way die with a WebSocket, but not with a USB
port: the port is reopened without resetting the device (`applyNonResettingSignals`,
`webserial-client.ts:146`), which may answer afterwards (`repliesLeft`), as `LineFramer`
assumes too. A write that rejects may have reached it all the same. The history
`forgotten` says that the queue no longer expects a reply that may still come: its stale
window expired, or the port was closed, failed or replaced and `adopt()` cleared the
window. A command is sent at most once, so "the line is full" and "the seq
wraps" are reached with a small `Capacity` and `SeqMax` (`SEND_QUEUE_CAPACITY`, 8, and
`USB_SEQ_MAX`).

`LinkKind` picks the owner, which differs in when `canSend()` turns false and who
fails the calls. `PortSwaps` lets `SerialClient.connect()` be called over a port
that is open (`webserial-client.ts:94`), which lets go of that port with its
commands outstanding. `EchoesSeq` says whether the firmware returns the seq.

### ReconnectScheduler, WebSocketClient and SerialClient

The scheduler is the state of its owner: the callbacks `onScheduled` and
`onExhausted` are the predicates `schedules` and `exhausts`, which the client's
action tests in the same step. Both clients reduce the command channel to what
they do to it, time to `recent`/`stable` for the uptime of a connection, and let
`connect()` and `disconnect()` be called at any moment. Some properties hold only
for a caller that waits until nothing is on its way; the histories `overlapped`
and `usbOverlapped` remember one that did not, and those properties say so.

In `WebSocketClient`, `sockState` is the browser's side of each socket and `origin`
who created it; a socket is never reused before its close is seen. Time is also
reduced to `dropAges` for the contention window.

In `SerialClient`, `portState` is the browser's side of each port and `loops` its
read loop: reading, ending because it was cancelled, or over with its port closing.
`opens` is what each `connect()` under way waits for (the teardown of the old port,
the user's choice, the port to open), with the scheduler's attempt as one more
caller; `target` is the port an attempt opens again, and `downAfter` the loops a
`disconnect()` waits for before it sets its status.

### LineFramer

A character is the number of the line it is of, so that a line can be recognised
wherever it turns up; `eols`, where each line has its new line, is picked at the
start, lines longer than the buffer and empty ones among them. `received` is how far
the stream is. A chunk ends anywhere. The code cuts the buffer at one new line after
another; the module says what that gives: for every new line in the buffer, the
characters since the one before (`lineUpTo`), without the first line of a buffer that
was thrown away (`dropResyncRemnant`) and the empty ones. When a link comes back the
dash goes on with the first line it had not begun; `cut` remembers the lines that were
lost that way. UTF-8 is left out, chunks being cut between characters, and so is the
carriage return that the framer drops at the end of a line.

### SendSetup

`draft` and `device` are the edited setup and the baseline, both maps from parts
to values; `snapshot`, `confirmed` and `steps` are the locals of `sendSetup` while
it awaits a reply, `verifying` that it polls the dashboard it pushed, `reading`
which answers of the connection are outstanding, and `dash` what the dash holds.
Which parts restart the dash, the order of the steps, the brightness that travels
with the sound and the rotation, the three kinds of answer and the way each moves
draft and baseline are the code's. A write is obeyed, refused, or obeyed with its
reply lost; a drop in the middle of one leaves either. `Newer` is a dashboard the
page cannot read. `Overlaps` says whether a send may start while the answers of
the connection are awaited (the code does not prevent it, and they usually arrive
within a second), `OtherTuner` whether the dash may change while the page is away.

### ChangeList

`sketch` and `baseline` are two dashboards: pages with gauges, and the page shown first.
`look` stands for any other field of a page or gauge, since each field is listed and
undone in the same way. `diffSetup` is the list, `revertChange` the undo of one entry,
which assigns what the dash has at the path of the change, and puts back what was
removed at the index it has on the dash, as far as there is one. `order` is the list of
the pages' ids and `pages` what each is; the sort of an undone order is stated by rank
(`revertOrder`: the page at index i is the one with i - 1 pages before it, the pages the
dash does not have behind the others as they were). The order in which a page's gauges
are drawn is left out, which the list does not tell. Edits are those of the editor's
slices: pages are added, removed, moved and changed, gauges added, removed and changed,
and the baseline is read anew.

### Device and the stores that send commands

`Device` holds `linkUp` (the status of the link), `connected` (the store's own
idea of it) and `simulationMode`. `CanScan`, `CarScan`, `TroubleCodes` and
`FirmwareUpdate` extend it. They take from `CommandChannel` what `AckQueue`
implements: commands are answered in the order they were sent, so each keeps the
commands not answered yet as a sequence, of which the dash obeys the oldest; a
command may also fail, obeyed or not. A link that drops fails them all.

* `CanScan`: the generation counter is unbounded, so it is carried as a mark on
  each outstanding command: is its generation still the current one? `dashScanning`
  is the scanner; the history `lost` says that a command failed or the link dropped
  since the dash last obeyed one, so that the page cannot know what it does.
* `ScanAccumulator`: the counters and the rows of the last snapshot, which a new
  snapshot reuses for a frame id that is not `dirty`. The rate window is the number
  of an id's frames in it.
* `CarScan`: generations are numbers here, since a bus scan, a poll, a timer and a
  catalogue each belong to one. The deadline is `pollsLeft`. `dashBusScan` is the
  bus scan of the dash, with the generation that started it.
* `TroubleCodes`: one operation at a time, with the guards of the panel and the
  dialog that asks before a clear. `carCodes` is what the car has, `anotherSource`
  that the codes shown are simulated, or that the car or the link changed since they
  were read.
* `FirmwareUpdate`: an install is a process of its own (`pc`, what it sends and how far
  it is), because nothing ties a second one to the first: the dialog allows it (see
  `firmware_one_install`). `dashUpload` is the update the dash is receiving and
  `dashVersion` what it runs. The histories `before`, `sending` and `unanswered` are of
  the last install: what the dash ran, what is sent, and which step had no answer;
  `doubled` that it began beside another.

### SessionLogs

`requests` are the HTTP requests outstanding; any of them may be served and
answered next. The screen that is opened and closed, the dialog and the disabled
buttons are the guards. `crossedLists` remembers that two lists were outstanding
together, and `goneUnseen` which sessions left the card with nobody told (a
deletion whose answer was lost, or one by another device).

### GaugeLayout

`page` maps each gauge to its column, row and spans; a gauge is a number, as gauges are
only ever added at the end of the page's list. A drag is one step, from
the press to the release, with every place the pointer may have reached; nothing else is
pressed meanwhile. `resolveCollisionsIn` is the code's algorithm: passes in which every
overlapping pair is pushed apart, and a free place for the dropped gauge if it is still
covered. Since the pairs of a pass are found before it, with the places they had, a
pass moves each gauge once, away from the last of those it gives way to (`resolvePass`),
and eight passes are two times two times two (`twoPasses`, `fourPasses`). The
selection is not kept: any gauges may be selected when an action looks. The sizes of
the Size field are `StandardSizes` (`setSize`). `dropped` and
`tidy` remember which gauge was just dropped and whether no two overlapped before. A
behaviour of `MaxGestures` gestures is followed by another page.

### Autosave

`kept` is the draft in the store, `autosaved` what the storage holds, `lastWritten`
the object the code compares with. The debounce is an armed timer; a tab is hidden,
closed (which flushes) or killed (which does not).

## 3. Runs

| Run | Instance | Shows |
|---|---|---|
| `ack_queue_wifi` | 4 commands, line of 2, seq to 6, echoed | one command in flight; no call stranded; replies to their own call; a refusal means nothing was sent; no overtaking; **implements `CommandChannel`**; every call settles |
| `ack_queue_usb` | 4 commands, line of 2, seq to 3 (wraps), not echoed, port swaps | the inductive invariant of the proofs; without an echoed seq, a reply goes to another command only once the queue has stopped expecting one that may still come: a window expired, or the port was closed, failed or replaced |
| `send_calm` | dashboard, brightness, sound; another tuner | a success is on the dash and clears; edits during a send stay listed; while a newer setup is known nothing is written, and it is written over only by a send that takes the dashboard for unknown; a send ends |
| `send_overlap` | dashboard, device configuration; sends and answers overlap | what is confirmed is on the dash, and answers keep changes |
| `send_restart` | brightness, device configuration, rotation; overlap | one restart per send, and it comes last; a success is on the dash and clears |
| `tuner` | twelve components, one in each behaviour | the table below |

The properties of `tuner`, whose modules share no state but the device's and the
scheduler's. `exercised` picks the component of a behaviour and the others keep
their initial state, so that one run explores each of them alone:

| Component | Properties |
|---|---|
| Wi-Fi client | the inductive invariant of the proofs (`LinkInv`); no socket stays open beside the adopted one (`NoLeakedSocket`); for a caller that waits, the status matches the socket (`StatusMatchesSocket`) and a deliberate disconnect stays down (`StaysDownOnceSettled`); reconnection settles (`ReconnectSettles`) |
| USB client | for a caller that waits, the status matches the port (`UsbStatusMatchesPort`), and no port stays open that nobody reads, nor is a close taken for a drop or a drop for a close (`NoPortLeftOpen`) |
| Line framer | lines come whole, once, in order, and none that fits is lost (`LinesAreWhole`) |
| CAN scan | one subscription and one timer exactly while it runs (`OneSubscription`); the scanner is on exactly while the page shows it (`DashFollowsScan`); a table made of reused rows is what was counted (`SnapshotIsTrue`) |
| Car scan | a busy scan waits for exactly one thing (`OneContinuation`); the car suggested is of this scan (`CarResultIsOwn`) |
| Trouble codes | a list shown without an error is what the car has (`ShownCodesAreTheCars`) |
| Session logs | the list is what is on the card once all requests ended (`ListingIsCurrent`) |
| Firmware update | the outcome shown is what happened (`OutcomeIsTrue`); no half received update stays (`NoUploadLeft`); every install ends (`InstallEnds`) |
| List of changes | an empty list means nothing differs (`NothingListedNothingDiffers`); the undo of one takes it off and touches no other (`UndoTakesItAway`) |
| Gauge layout | no gauge leaves the screen (`GaugesInGrid`); a dropped gauge is free of others while there is room (`DroppedIsFree`) |
| Autosave | with no write to come and none refused, the storage holds the draft (`SavedUnlessPending`) |

Six runs are expected to fail. Each states what a test or a page of the
documentation says, and TLC finds the steps by which the code does otherwise:

| Run | Says | The code |
|---|---|---|
| `websocket_stays_down` | "stays down after a deliberate disconnect" (`transport/__tests__/websocket-client.test.ts:78`) | an attempt in flight when `disconnect()` is called fails later and sets the status "reconnecting"; nothing is scheduled, so it stays (`websocket-client.ts:161`) |
| `send_loses_edit` | "keeps an edit made while the send was running as unsent" (`stores/sync/send-actions.test.ts:79`) | the baseline is read before the send and stored after it (`send-actions.ts:79`), over what an answer of the connection set meanwhile; an edit equal to the old value is no longer listed |
| `send_drop` | "If the Wi-Fi drops mid-send, nothing changed on the dash." (`docs/tour.md:27`) | steps are written one by one; those before the drop stay |
| `send_brightness` | "sends the sound live, keeping the brightness the dash has" (`lib/sync/sound-sync.test.ts:51`) | the brightness is never read back: before one was sent, the sound goes with 80 |
| `firmware_one_install` | "never starts a second install while one runs" (`stores/firmware.store.test.ts:47`) | the button starts the install and closes its dialog, and closing is `backToChoosing` (`ConfirmInstallDialog.tsx:20`): the choice of files is shown until the first chunk is acknowledged, and another install can be started |
| `gauge_drop` | "Widgets it lands on are pushed aside; if there is no room, it goes back to a free place" (`docs/layout-editor.md:44`) | what is pushed aside may be pushed onto a third gauge at the edge and stay there; only the dropped gauge is given a free place (`widget-moves.ts:58`) |

### Bounds

*Command channel.* Four commands with a line of two are the smallest instance in
which one is pending, the line is full and another is refused, while a late reply
to the first is still on its way. `SeqMax` 3 with 4 commands makes the counter wrap
while an earlier reply is still out; 6 keeps the Wi-Fi run below the wrap, where
`OwnReply` is claimed.

*Send to dash.* Two values are enough to differ from the baseline and from the dash
at once; a third part adds the interactions named in the table. Two or three parts
are taken at a time because all seven together are beyond TLC; parts interact only
through the order of the steps, the brightness, and the dashboard's flag, and every
one of these pairs is in some run (`dayMode` behaves as `sound` does without the
brightness).

*Tuner*, about 322,000 distinct states in all:

* Three sockets allow an adopted one, one that is closing and an attempt in flight.
  A delay from 1 to 3 by a factor of 2 is doubled once and capped once. Two
  attempts and two counted drops are a first and a last; `websocket_stays_down` has
  three of each.
* Two ports and one caller beside the scheduler's attempt: a port can be replaced
  by the other one while an attempt opens it again. One caller at a time, since two
  choosers cannot be open at once.
* Four CAN commands are more than the store can have outstanding. Four generations of
  the car scan let an answer cross a failure, a reset and another start; two polls are
  one that is not the last and the last.
* Two codes let a clear remove one and leave the other; the simulated one is no
  car's.
* Two frame ids with two payloads in four frames: one row is reused while the other
  changes, and a second scan follows the first.
* Two sessions and two requests at one time; three would only repeat a crossing.
* Three chunks are the fewest of which one is still to be sent when a cancellation
  is seen: the button shows after the first, with the second on its way. Two
  installs are the pair that a second tap makes. One file is being read at a time.
* Three pages and two gauges with two looks: what is put back has a neighbour on
  either side, and the page cap is reached.
* The grid of 3 by 2 with up to three gauges is small enough to be full; `LastGauge`
  leaves a number to a gauge that is added or pasted. Three gestures can be a push, a
  push back and a paste. `gauge_drop` uses the full grid of 12 by 12.
* A buffer of two characters with three lines of up to four: shorter than the
  buffer, equal, one longer, and longer than two chunks.

Symmetry over commands is used in `ack_queue_usb` only, which checks no liveness.
Every run checks for deadlock: the link of each model can always open or close, and
the editor can always edit.

### Fairness

* `AckQueue`: weak fairness of armed timers. Nothing is assumed of the device, of
  the link or of the caller: a call settles because its own timer fires or the
  stale window ends.
* `WebSocketClient`: weak fairness of an armed timer, and of the browser, which
  gives up on a socket that does not open and completes a close.
* `SendSetup`: weak fairness of the running send: every command is answered or
  times out (shown by `EverySendSettles` of `AckQueue`), and the polls have a
  deadline (`verify-burned-config.ts:20`).
* `FirmwareUpdate`: weak fairness of the oldest command, which is answered or times
  out for the same reason, and of the end of a wait, which has a deadline
  (`wait-for-dash.ts`). Neither the dash nor the link is assumed to come back.

`MCTuner` states the fairness of two of them under the condition that the behaviour
exercises that component. The other components have no liveness property.

## 4. Proofs

`AckQueueProofs` proves, for every set `Commands`, every `Capacity`, `SeqMax` and
both owners, under the assumptions `AckQueue` states about its constants:

| Theorem | Extra assumption |
|---|---|
| `AckQueueTypeOK`, `AckQueueIInv`, `AckQueueOneInFlight`, `AckQueueNoStrandedSend`, `AckQueueRetryIsSafe` | none |
| `AckQueueNoOvertaking` | `~PortSwaps` |
| `AckQueueImplementsChannel` | `LinkKind = "wifi"`, `~PortSwaps` |
| `AckQueueOwnReply` | `EchoesSeq`, finitely many commands, no more than `SeqMax` |

The inductive invariant is `IInv`, a conjunction of named parts. `TypeOK` alone
says nothing of how the parts of the state hang together, and each safety property
alone fails after some step from an unreachable state: that a call is not stranded
needs that a closed stale window has a timer (`PendingInv`), that the line is
non-empty only behind something that drains it (`WakeInv`), and that a waiting
call is in the line or has its timer (`OutcomeInv`). That at most one timer runs
needs the shape of the writes on a failed stream, where the pending command is the
last one written and older ones still hold a timer until they reject
(`StreamInv`). `LineInv` (no command twice in line) and `SentInv` (only dispatched
commands are on their way) keep the others inductive.

Three lemmas carry the step proofs: `DispatchPost`, what `dispatch` leaves;
`DrainPost`, what `drainQueued` leaves from any state a handler hands it
(`DrainPre`); `FailAllPost`, what a lost link leaves. `NextIInv` has one lemma for
each action.

The refinement maps `current` to `pendingAck` and `line` to `pendingSends`.
`StepImplements` shows that each action is a `Submit`, `Finish`, `Resume` or a
stutter. Over USB the class does not implement the channel: a write that rejects
late clears `pendingAck` whichever command it holds (`ack-queue.ts:163-168`), so a
second command is dispatched while the first still waits.

`AckQueueOwnReply` holds over both links, over a port that was reopened or replaced too:
with the echo, a reply from before is told by its seq, whatever window was cleared. It
adds `SeqInv`: until the counter wraps, the seqs handed out are
the numbers 1, 2, 3, ... in order of dispatch, so a reply with the seq of the pending
command is its reply. After the wrap it is not proved and would not hold: a reply
`USB_SEQ_MAX` commands late carries the seq of the pending one. `ack_queue_usb`
wraps the counter, but under a firmware that does not echo it.

The constants are otherwise free. The assumptions the modules state about them are those
of the code: `SeqMax` positive; a backoff that starts above zero, grows by more than 1 and
has a bound above its start; a contention limit above zero; the placeholders of the
models (`NoSocket`, `NoPort`, `Null`, ...) outside the sets they are added to; the defaults
of a setup among its values; and of what the dash may hold, that a dashboard names each page
once and that its gauges lie on the screen. The editor lets no gauge leave the screen, and
blocks the send of a dashboard from elsewhere of which one does ("Burn stays disabled until
it fits", `lib/layout-overflow.ts`).

### The clients

`WebSocketClientProofs` holds for every set of sockets, every backoff and every
contention limit. Whatever the caller does, `LinkInv` is inductive: it adds to the types
that a socket is open exactly when it is the adopted one (`AdoptedInv`), of which
`NoLeakedSocket` is one half; the other says that the client never holds on to a socket
it has closed. The scheduler's part of each step is two lemmas, `ScheduleKeeps` and
`SchedulerIdle`; `DelayGrows` bounds the delay.

`StatusMatchesSocket` and `StaysDownOnceSettled` are for a caller that waits, and need
what waiting buys (`CalmInv`): one socket opens at a time, and while it does no socket
is adopted, no timer runs and nothing was taken down; a socket closes only after a
`disconnect()`; a timer runs only without a socket. So a late event is always one of the
socket the status is about.

`SerialClientProofs` holds for every set of ports and callers. `SerialInv`: types, and a
timer only for a user who wants the link, with attempts left and a port to open.
`UsbStatusMatchesPort` and `NoPortLeftOpen` are again for a caller that waits, and again
not inductive: a port that closes may be one that `connect()` replaces, one that
`disconnect()` gave up, or one that was pulled, and what the client does then depends on
which. `Patient` tells them apart: one call is under way at most, and the client holds
no port meanwhile; a loop is that of the port held or of the one being replaced, for
which `suppressNextReconnect` stands and its caller waits; a port taken down is still
held until its loop ends.

### Send to dash

`SendSetupProofs` holds for any of the seven parts and any values. Its lemmas about
`sendSteps` (`StepsOf`) say that the steps are the parts that differ, each once, in order.
The inductive invariant `SendInv` relates what is left to write (`Left`) to what was
asked: the dashboard comes first or not at all, so that while it is awaited nothing else
is written; a part that restarts the dash comes last, so that at most one does; nothing
is left that was not asked. `ConfirmedIsOnDash` is inductive on top of that, the brightness
that travels with the sound included: a brightness that was asked for is in the snapshot,
so it is the one that travels.

`SendSetupOneRestart`, `SendSetupSentClears` and `SendSetupAnswersKeepChanges` are action
properties proved from `SendInv`, with sends that overlap the answers of a connection and
with other tuners. `SendSetupEditStaysUnsent` and `SendSetupNewerDashKept` assume
`~Overlaps`: for the first, `send_loses_edit` is the counterexample otherwise; for the
second it is a send that is under way when the answer tells of the newer setup. They use
`CalmSend`: the baseline and what the send takes for it differ by what was written only.
`SendSetupNewerDashKept` has two halves. While the tuner knows that the dash holds a newer
setup, no send is under way and none begins. When it has forgotten (a failed read, a
reload), the strengthening `NewerInv` relates the dash to the baseline: once the dashboard
was asked for on this connection, the tuner knows that it is a newer one or takes it for
unknown.

### The stores

`StoreProofs` proves `OneSubscription` and `DashFollowsScan` for any number of
commands outstanding. Neither is inductive: both need to know which commands can be
on their way in each status. `CallsInv` says it: the link is up during a scan and
while a command is outstanding; a start that is current is the last command and is
shown as starting; a start that was superseded has a stop behind it; there is one
stop at most, and it is shown as stopping. So a scan that is switched off late is
always switched off before a newer one is switched on.

`AccumulatorSnapshotIsTrue` is for any frames and any payloads. `CleanRowsInv`:
a row of the last snapshot whose id is not dirty shows the count and the payload of now,
so that reusing it while the rate is the same too is as good as making it anew; what
forgets the counts forgets the rows.

`OneContinuation` and `CarResultIsOwn` hold for any number of scans
and polls. `CarCallsInv`: at most one command is of the current generation, and it is
of the phase the scan is in; starts go out in the order of their generations.
`PhaseInv`: the timer and the catalogue of the current generation exist only in
their phases, and while a scan is polled the bus scan of the dash is its own, for
which the order of the commands is needed. `WaitsInv`: a busy scan waits for
something.

`FirmwareUpdateProofs` holds for any number of chunks and of installs and any versions.
Whatever overlaps, `QueueInv` ties the queue to the installs: each command on its way is
that of an install that waits for it, and an install has one at most. `OutcomeIsTrue` and
`NoUploadLeft` are claimed while no install began beside another, and there `Single`
follows the one install (`Ongoing`): until the commit is obeyed the dash runs the old
version and receives nothing but what is sent, after it the new one, with nothing left to
receive; a step that was not answered first is the one the install is about to hear of.
`Ended` is what it leaves.

`ShownCodesAreTheCars` holds for any codes; the strengthening
(`CallShown`) is that an operation is shown exactly while its command is on its way.
`SavedUnlessPending` holds for any drafts; the strengthening is
that what was last written, if it was not refused, is what the storage holds. And
`ListingIsCurrent` holds for any sessions and any number of requests: unless two crossed,
there is one list on its way, and what it names, from the moment it is served until it
is replaced, is on the card or was removed since (`ListTells`, `RowsTell`), by a request
that still has to tell it or with nobody told.

### The editor

`EditorProofs` holds for any grid, any number of gauges and any pages the dash may hold.
`GaugeLayoutInv`: every gauge of the page, and every copied one, has a size and lies on the
screen (`isPage`), and the gauge that was just dropped is free of the others unless no
place is. The copied ones are part of it because a paste brings them back. What is pushed
is clamped, so a pass leaves a page (`PassKeepsPage`), and so do eight; that a drop ends
free of the others follows from the last step of `resolveCollisionsIn` alone, whatever the
passes left (`CollisionsResolved`), as what it falls back on is the first of the free places.
That the passes leave no overlap among the others is not proved, and not true: `gauge_drop`.

For the list of changes, `Listed` says which entries there are: one for each page, look,
gauge, order and first page in which draft and dash differ. `EditorListComplete` then says
that two dashboards that differ in none of these are one; the step that is not obvious is
that two lists with the same pages, each once, in which the same pages precede each other
are the same list (`SameOrder`, by the least index at which they would differ).
`EditorUndoExact` has one lemma for each kind of entry: what `revertChange` gives is a
dashboard again, in which exactly the entry's difference is gone (`takesOff`). For a page
put back this needs where it goes in the list (`PutAt`), for the order that ranking a list
of distinct pages gives each of them one index (`OrderReverted`, with `Ranked` and `Counted`
of `OrderLemmas`). `ListInv`, that both are dashboards in which an id names one page, is
what all of this rests on, and is where every edit and every undo must lead.

### The stream

`SerialLinesAreWhole`, in `SerialClientProofs`, holds for any number of lines of any length,
any size of the buffer and any chunks. `FramerInv` relates the state to a place in the stream
(`isBuffer`, `areGiven`): the buffer is the part of the stream before that place, holds no
new line, and begins where a line begins, unless the framer discards, when the place is
inside a line longer than the buffer; what was given are the lines that ended before the
place, whole, in order, and all of them that fit. A chunk extends the part. The lemmas go
from a part of the stream to its lines: its new lines are ends of lines (`NewLinesAre`),
what is between two of them is one whole line (`LineIsWhole`), what is after the last has
none (`RestIs`), and the k-th line given is the one with k - 1 ends before it (`NthIs`).

### Model-checked only

* Liveness (`EverySendSettles`, `ReconnectSettles`, `SendEnds`, `InstallEnds`): temporal
  proofs of what must happen under fairness are beyond this prover.

`NoTimerWhenDown`, `CommandsNeedSocket` and the type invariants of the modules with
proofs have no run of their own: they are parts of the inductive invariants.

## 5. What the models do not say

Seen while modelling, and left without a property of their own:

* `readDashboard` sets the newer-setup flag from every result, so a read that
  fails clears a flag an earlier read had set (`hooks/useDashSync.ts:35`), and a send
  may then write over the newer dashboard. `NewerDashKept` claims what is left: such a
  send takes the dashboard for unknown, since the same read forgot the baseline.
* Over USB, `adopt()` clears an open stale window (`webserial-client.ts:213`), and the
  device that is reopened is not reset: with a firmware that does not echo the seq, a
  reply from before can be taken for the reply to the next command. `OwnReply` allows
  that (`forgotten`).
* What was edited within the debounce of the autosave is lost when the tab is killed
  (`autosave.ts:142`), though `docs/tour.md:19` says that every edit is kept "the moment
  you make it". `SavedUnlessPending` leaves exactly that time out.
* A device that reports no sound makes `adoptSound` replace a sound that was not sent
  (`stores/sync/draft.ts:81`). Every dash of `SendSetup` has a sound, so its
  `AnswersKeepChanges` does not cover this.
* Setting a gauge's size under More options moves no other gauge
  (`widget-actions.ts:76-89`), so it may cover some; `DroppedIsFree` is about drags.
* The `finally()` of `connect()` forgets the promise being opened whichever it is
  (`websocket-client.ts:72-74`): connect, disconnect, connect, and the first
  promise settling lets a third `connect()` open another socket. `NoLeakedSocket`
  shows that at most one of them is kept.
* The late failure of an abandoned socket overwrites the status of an adopted one
  (`websocket-client.ts:161`); `StatusMatchesSocket` is for callers that wait.
* `adopt` clears the stale window without draining the line; after a port swap the
  calls queued behind it wait for the next command. This is why `NoStrandedSend`
  and `NoOvertaking` are stated for `~PortSwaps`.
* `docs/tour.md:21` says the chip reads "On the dash" when the dash holds exactly
  what is shown. Brightness, rotation and car are never read back, so after a
  lost reply and an undo it may not.
* When the answer to the commit of a firmware update is lost, the page says the
  update failed though the dash installed it (`firmware-update.ts:70`).
  `OutcomeIsTrue` leaves that one answer out.
* Two lists of sessions that cross are shown in the order they arrive, so the
  older may stay (`session-logs.store.ts:133`); and `busy` is cleared by the end of
  another session's request (`session-logs.store.ts:122`).
* Paste does not look at `MAX_WIDGETS_PER_PAGE` (`clipboard.slice.ts:22`).
* The order of a page's gauges is no change of its own, so after some undos it
  differs from the dash's with nothing listed; `ChangeList` leaves that order out.
* Nudges, resizes and pastes ask for the grid of the panel (`lib/grid-tracks.ts`), while
  pushes and the search for a free place always use the grid of the base tier
  (`utils/layout.ts:31`). They are the same for every panel in the catalogue
  (`lib/grid-tracks.test.ts:7`), and `GaugeLayout` has one grid.

Abstracted away or left out of the modelled components: timeout lengths; the
keep-alive beat; the fan-out of events; the chunks a push of the setup consists of;
the individual preflight rules (any send with a dashboard may be
refused), the default theme, boards without sound, and the
firmware update that disables the send button; `dayMode` is adopted on every
handshake, while the hook runs only when the value changed (a new session resets
it). `AckQueue` over Wi-Fi sends as long as the socket is open, without the
`status === 'connected'` that `canSend` asks for as well (`websocket-client.ts:37`), and
leaves out the `failAll` of a socket that is refused as busy beside the adopted one
(`:169-175`); that of the adopted one is `linkClosed`. In `SendSetup` storage is taken to hold the last draft and baseline; the
debounce before it is in `Autosave`. Two tabs with one storage, the parsing of what
is stored, UTF-8 decoding, the conversion of a session to CSV, the checks of a
firmware file, how cars are matched, and pixels (a drag is in tracks of the grid)
are left out.

### Not modelled

* Undo and redo of the editor: no part of the interface calls them
  (`history.slice.ts`).
* Chunked transfer: the loop stops at the first refusal, and what a half transfer
  does is decided by the receiver, which is firmware outside this repository.
* Keep-alive, the event hub, the command wrappers, the sampler and the log ring: one
  timer, a fan-out, a validation or a bounded buffer with one writer each.
* Parsing and serialising (signals, ECU catalogue, backup files) and the React
  components, which are most of the repository's lines. They render state and call
  the operations above; the guards of their buttons are taken over where an action
  needs them.

## 6. Plan

Done, in the order of importance: the command channel; the two clients; send to dash;
the stores that scan, list and update; the autosave; each with the proofs of its safety
properties; the list of changes; the layout of gauges; the framer.

Next:

1. Heartbeat and keep-alive composed with `WebSocketClient`: a link that is silent
   without a close.
2. The settings and the car in `ChangeList`, and its composition with `SendSetup`.
3. A drag as several steps, with a link that adopts another dashboard in its middle.
