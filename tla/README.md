# TabScreen: TLA+ models, checks and proofs

TabScreen turns an Android tablet into a second screen, pen tablet or touchpad
of a KDE Wayland desktop. A Rust server (`src/server`) creates a virtual
monitor, encodes it, sends it over TLS and feeds the tablet's pen and touch
events into uinput devices; a Kotlin app (`src/android`) decodes the picture and
captures the input. This directory holds models of that program, the TLC
configurations that check them and proofs about them.

`tlc -config X.cfg M` checks a run (the table below), `tlapm MProofs.tla` the
proofs. `PROJECT.json` is the index: components, runs, the lines each definition
stands for, hazards, findings and theorems. Operators commented `mutant:` are
never used by a specification: each is a plausible bug that one of the runs must
notice when it replaces the definition it stands next to.

## 1. The system

| Component | State it keeps | Operations | Talks to |
|---|---|---|---|
| Session control and event loop, `main.rs`, `tray.rs` | the connection served, `SessionInner` (socket, status), queue of outgoing messages, what the session has created | accept, peek, pairing, HELLO, start, the loop (monitor check, drain, read, dispatch), teardown; Disconnect and Quit on the tray thread | all others on the server; the tablet by messages; the tray by a shared record |
| Pairing, `security.rs` | certificate, key and code, in memory and in three files | `load_or_create`, `server_handshake` | called by `main` (also of `--show-pair`) and by the session |
| Virtual touchscreen, `uinput.rs` `Touch` | slots, next tracking id, pending events; the kernel's device | `handle`, `release_all` | called by `dispatch` and the teardown |
| Virtual stylus, `Pen` | proximity, tool, buttons, pending events; device | `handle` | as above |
| Virtual touchpad, `Touchpad` | fingers, peak, moved, scroll remainder; device | `handle`, `release_all` | as above |
| Video encoder, `video.rs` | pipeline | start with a fallback, frame callback, `request_keyframe` | channel to the event loop |
| Virtual monitor, `wayland.rs` | node, failed, closed | create, close, dispatch thread | KWin |
| Audio routing, `audio.rs` | previous default, module id; PipeWire's sinks | `tablet_only`, `both`, drop, capture | `pactl` |
| Tablet video decoder, `VideoDecoder.kt`, `StreamActivity.kt` | surface, pending and applied configuration, decoder, `awaitingKeyframe`, free input buffers | surface callbacks, `onStreamConfig`, `onVideo`, `feed`, `release` | reader thread and UI thread share the decoder |
| Tablet connection, `Connection.kt` | `closed`, `socket`, `outQueue` | `start`, `send`, `close`, reader and writer thread | server; the activity by callbacks |
| Tablet audio player, `AudioPlayer.kt` | queue, `queuedBytes` | `feed`, `release`, output thread | activity |
| Tablet input capture, `StreamView.kt` | pen in proximity, batches | pen and touch events | `Connection.send` |
| Wire protocol, `protocol.rs`, `Protocol.kt` | none | parsers and builders | both ends |
| Discovery, `discovery.rs`, `Discovery.kt` | hosts found | UDP answer; scan | network |
| KDE configuration, `kde.rs` | KWin's settings of the monitor and the devices | name, scale, mode, mapping of a device | `kscreen-doctor`, `busctl`; called by `start_screen` |
| Trust registration, start screen, crypto helpers | none of their own | calls of other programs and libraries | desktop, Android |

### What is hard, and what makes it correct

* **Session.** One thread serves one connection at a time, from the first byte to
  the last drop, while the tray may take its socket at any moment and KWin may
  take the monitor. Every creation may fail half way. Correct: an idle server
  holds and shows nothing of its last session; a click reaches the session it
  was made for; nobody unpaired gets anything; the monitor outlives its users;
  every session can be ended, but while it waits for a KWin that is silent.
* **Input devices.** Each keeps a picture of what the kernel holds, and writes
  may fail between changing one and the other. Correct: the two agree while the
  session runs and nothing stays pressed after it.
* **Video.** Five threads (encoder, event loop, reader, UI, codec) and three queues.
  Correct: the decoder never gets a delta it cannot decode and ends up with a
  picture, wherever the surface goes.
* **Start of a screen.** KWin, GStreamer, `kscreen-doctor` and the kernel each
  answer late, wrongly or not at all, and a second thread reads KWin's events.
  Correct: the start ends, what the code can see refused is warned about, and the
  monitor is there exactly as long as somebody needs it.
* **Event loop.** A byte stream cut anywhere, read between writes. Correct: every
  frame is dispatched once, whole and without waiting for a later one.
* **Credentials.** Three files written in place by processes that may overlap and
  may be killed. Correct: a paired tablet stays paired.
* **Audio route.** State outside the process that outlives it. Correct: sound comes
  back, after failures and kills.
* **Connection.** Three threads may close it at once, also before there is a socket.
  Correct: one message to the user, no thread and no connection left.
* **Audio player.** Two threads count one queue. Correct: latency stays bounded
  (it does not, finding 2).

## 2. Modules

| Module | Models | Checked by |
|---|---|---|
| `Touch` | `struct Touch` | `MCInput`, `InputProofs` |
| `Pen` | `struct Pen` and its cancel in the teardown | `MCInput`, `MCPenEraserLift.cfg`, `InputProofs` |
| `InputPath` | `StreamView.kt` and `dispatch`, composed with `Touch` and `Pen` | `MCInput`, `InputProofs` |
| `Touchpad` | `struct Touchpad` | `MCTouchpad`, `InputProofs` |
| `Service` | what the server promises, from outside: whom it serves, and his monitor | refined by `Session` and by `Screen` |
| `Session` | `main`, `handle_client`, `SessionControl`, `TabTray`, `server_handshake` | `MCSession`, `MCSessionLive`, `SessionProofs` |
| `Screen` | `start_screen`, `wayland.rs`, `kde.rs`, `Encoder::start` and both ways out | `MCScreen.cfg`, `ScreenProofs` |
| `Wire` | the event loop as a pump of bytes and frames, batch parsing | `MCWire`, `WireProofs` |
| `Credentials` | `load_or_create`, and what the handshake makes of the code | `MCCredentials.cfg`, `CredentialsProofs` |
| `VideoPath` | encoder callback, drain loop, TCP, `onVideo`, `VideoDecoder.feed`, surface callbacks | `MCVideo.cfg`, `VideoProofs` |
| `AudioRoute` | `AudioRoute` and the `pactl` calls | `MCAudioRoute.cfg`, `AudioRouteProofs` |
| `AudioPlayer` | `AudioPlayer.kt` | `MCAudioPlayer.cfg` |
| `Connection` | `Connection.kt` | `MCConnection.cfg`, `ConnectionProofs` |

Three views of one server: `Session` has the whole life of a session with each part
as one step; `Screen` opens the steps that create and drop the parts of a second
screen; `Wire` opens the event loop. `Session` and `Screen` both implement
`Service`, which ties the two together: what `Session` assumes of a monitor (one per
session, perhaps gone before anyone looks, never outliving the session) is what
`Screen` delivers.

### Touch
`slots` is the array of pointer ids, `nextTid` the counter modulo `TidMod`
(2^16 in the code), `touchDev` what the device shows once `Device.pending` has been
written, `touchKernel` what it shows now. `TouchSync` is `Device::sync`: it writes
all of `pending` or fails and keeps it. A failure of `handle` ends the session
(`touchPhase = "failed"`), and `release_all` follows, whose own write may fail
("lost") or not ("released"). The kernel's protocol (select a slot, set its
tracking id) is external. `age` counts DOWNs since a slot's contact began.

### Pen
`penDev`, `penKernel`, `penPhase` and `PenSync` are as in `Touch`. `Handle` is
`Pen::handle` for every action, including the early return when the
tool changes in proximity (its second half then runs as for a pen that arrives)
and the write inside it that may fail (`ToolChangeFails`). Axes are left out
except for whether pressure is zero. `Teardown` is the PEN_CANCEL that
`handle_client` makes up, always with the tip as its tool. `switched`
remembers that the tool changed without leaving.

### InputPath
The view's events are the actions: a pen event goes through `handlePen`, which moves
`penNear`, and is handled by `Pen`; a finger event goes through `handleTouch`, which
drops it while the pen is near or touch is switched off, and becomes a `batch` that
`HandleTouch` gives to `Touch` event by event. The module extends `Touch` and `Pen`:
its actions are conjunctions of theirs, and a session ties the phases of the two
devices together: an error of either is the
end of both, and the teardown goes on after a failure of its own. The connection
is not there, because it keeps the order and nothing comes back from the server:
the view's next event waits for the dispatch of the last. The view of a session that
has ended is reset at once. `swallowed` remembers fingers the desktop still holds
because their lift was dropped.

### Touchpad
`padDev`, `padKernel` and `padPhase` are as in `Touch`. One axis in steps of 1/120 of
the pad, `acc` is the scroll remainder. Pointer
motion is left out but for the write that may fail. `timely` says that the
220 ms of a tap have not passed; `TimePasses` ends them at any moment. The
finger that goes down is never one that is down already: the tablet sends every
event in touchpad mode (`touchpadMode` keeps `penInProximity` false). A cancel
lifts all fingers, as Android does it.

### Session
`main` is the program counter of the main thread. Its values are the places
between which something else can happen: a blocking call, a lock, a message, or
the creation or drop of one part. `held` is the set of parts that exist:
creation follows `acquireRank`, drops follow `dropRank`, which are the order of
the statements and of the fields of `Screen`; a creation that fails unwinds the
local variables (`UnwindPart`) and ends the session with the control cleared.
`shown` is what the menu was rendered from last, so a click acts on stale
state as in the code; `taken` is the socket `disconnect` has taken out of the
record and not shut down yet. Messages are kinds, not bytes. `full` says that the
tablet does not read: `Write` then waits, as `write_all` does. A closed
connection may come back as a new one. The creation of the monitor is one step, but
not one that must be taken: `AtKwin` is the wait for KWin's answer, which no fairness
ends.

### Screen
`main` walks through `start_screen`. `events` are KWin's, on their way; `AwaitNode` is
`blocking_dispatch` in `create`, which sleeps until there is one and hands out a
batch, and `DispatchThread` the thread that does it afterwards. A deadline is one bit
(`late`), which the code looks at where the model does. `conf` is what KWin has set up
as asked for; the calls of `kde.rs` change it, or fail with an exit status, or fail in
what they print, or without a sign the code knows (`unsaid`), or a device is skipped
because it has no event node (`DeviceSkipped`); `warned` says that the log tells, `silent`
remembers what was lost without a word. `Ask` does not wait for KWin to remove the last
session's output (`stale`): while that is there it has our name too (`named` is
"shared"), and a setting may go to either. `pipes` counts pipelines that
play. Failures unwind the locals last first (`Unwind`), a regular end drops the fields
of `struct Screen` first to last (`Rank`).

### Wire
The stream is the frames the tablet has sent with the `at` of their first byte; `base`,
`got` and `pos` are `inbuf`'s beginning and end in the stream and the dispatch loop's
place in it. A read brings any number of the bytes that are there. A batch may
promise more events than it holds (`Truncated`), a length may exceed the limit.

### Credentials
One action per system call of `load_or_create`; `std::fs::write` is two (truncate, write).
Contents are numbered by the generation that made them. `Stop` kills a process at any
point. `torn` and `overlap` record the two accidents the properties except.

### VideoPath
A frame is a key frame or a delta. `sinceKey`, `forceKey` model key-int-max and the
force-key-unit event, `queue` the channel, `sentKeyframe` the event loop's flag,
`wire` the socket. `reader` is the reader thread between its look at
`decoder` and the end of `feed`, with `mine` telling whether the UI thread has
released that decoder meanwhile. `ref` is what the current decoder has seen:
nothing yet, everything since a key frame, a gap, or a delta it should not have
got. The encoder may fall back to the CPU pipeline after having emitted frames.
The codec's own buffer callbacks are reduced to a poll that finds a buffer or
times out. The constructor of a decoder may throw (`DecoderFails`): what it has begun is
not released, `decoder` stays null and the connection is closed (`link`; a reader inside
`readFrame` may still bring one message). The surface callbacks go on and may try again,
as they may in the code until the activity has finished. `alive` counts what is begun
and not released, `failures` the constructors that threw.

### AudioRoute
`pc` walks through the `pactl` calls, each of which works or fails. `modules` and
`configured` are PipeWire's, and stay when the server dies (`Crash`, then systemd
restarts it) or quits (`Quit`).

### AudioPlayer
`feeder` and `player` are the two threads, each with its register: `queuedBytes += n` reads
in one step and writes in the next. `Release` is the UI thread's.

### Connection
`at` is the program counter of each thread; `close()` is four steps on whichever
thread calls it. `socket` (the field) and `link` (the connection) differ until
the handshake is over. The server answers, hangs up or does neither.

## 3. Runs

| Run | Expected | What it shows, and its bounds |
|---|---|---|
| `input` | pass | Three fingers, two slots (so DOWNs overflow the table), ids that wrap after 3, tip and eraser with all actions and buttons, every write of either device may fail. No finger goes down while the desktop has the pen; no finger stays down but those lifted while the pen is near; the slot table, tool and buttons agree with the kernel; a written teardown lifts all. Symmetric in fingers. |
| `pen_eraser_lift` | violation | finding 1 |
| `audio_queue` | violation | finding 2: chunks of 1 and 2, a bound of 3, six chunks |
| `touchpad` | pass | Four fingers (one more than there are buttons), steps -1, 1 and 4 (shorter and longer than a tap allows; lines of 2 so the remainder counts). Symmetric in fingers. |
| `session` | pass | A paired tablet and a stranger, both reconnecting for ever. Deadlock check off: after Quit the process has exited. |
| `session_live` | pass | One connection, fairness below. A click or a closed connection ends the session from every phase except the wait for KWin's answer (`AtKwin`). |
| `screen` | pass | One session after the other; two attempts of the encoder, three polls of each loop of `kde.rs` (first, middle, last), one event of the compositor about something else (before, between or behind KWin's own, so a batch may bring nothing of interest). Every call of `kde.rs` may fail in three ways, a device may be skipped, the last session's output may linger. |
| `wire` | pass | Three frames out of six kinds (whole, cut short and over-long batches, the empty frame, an answer, a length beyond the limit), reads of up to a frame and a bit, two messages queued. Deadlock check off: the loop ends. |
| `credentials` | pass | Two processes (the service and `--show-pair`), five generations: two more than a torn pair, a lost code and their remakes need. |
| `video` | pass | Groups of three frames, two messages in channel and socket (fewer would hide that a gap and a key frame queue up together), two losses of the surface (so a decoder is replaced twice), one stalled poll, two constructors that throw (so one may fail again behind a closed connection, or leave more than one codec). |
| `audio_route` | pass | Two outputs, every call may fail, two kills, Quit, three sinks at once (one more than a failed unload needs). |
| `connection` | pass | Two messages queued. Deadlock check off: the threads end. |

The bounds cap counters only: `MaxQueue` (three modules), `MaxSent`, `MaxSurfaces`,
`MaxStalls`, `MaxFailures`, `MaxCrashes`, `MaxModules`, `MaxMade`, `MaxOther` and `MaxFed` appear in
guards and are marked as bounds in their modules; `MaxWire`, `TidMod`, `MaxTries`,
`MaxLen`, `Chunk` and `Item` stand for sizes of the real system.

Conditions in properties. `NoOtherGhosts` excepts fingers lifted while the pen is
near (see below). `DeltasDecodable` holds while no poll has timed out
(a timed-out poll drops a frame by design). `AtMostOneSink` and
`SoundComesBack` assume that no list or unload call has failed, `DefaultRestored`
that nothing failed or was chosen by hand in that session. `NothingHeldOutOfProximity`
excludes a pen that left by changing its tool (finding 1 is that case).
`ClosedMonitorEndsSession` excludes a main thread that waits in `write_all` for a
tablet that does not read. `CloseEndsThreads` excludes a close before the
handshake is over: the reader then waits for the server, which `Connection.kt`
gives no time limit beyond that of `connect`. `NeverRefused` and `StartsAgain`
except two first runs that overlap, the latter also a kill inside the write of
the key; each exception is needed, TLC finds the violation without it.
`EndedSessionEnds` excepts a start that waits for KWin to make the monitor: that wait has
no end of its own (`wayland.rs:141`). `DecoderFollowsSurface` allows one leaked decoder for
each constructor that threw, because the code releases nothing then.
`QuietMeansConfigured` speaks of sessions without a warning in the log, and excepts by name
what the code cannot see: the settings in `silent`, and a monitor whose name is shared with
an output of the last session;
`InputHandled` assumes `DrainEnds`. The type invariants are in no run, because they are
proved (but `AudioPlayer`'s); a run checks one when its name is added to the cfg.

### Fairness
* `Session`: weak on the main thread (it runs when it can, and the programs and devices
  it calls return), but for its wait for KWin to make the monitor, which it need never
  leave; weak on the tray's second step and on process exit; strong on `DrainEmpty`, which says that `try_recv`
  finds the channel empty now and then. The code does not enforce that: producers
  that outrun the link for ever would starve the rest of the loop. It is the one
  assumption about load. Nothing is assumed of tablets, users or KWin.
* `Screen`: weak on the main thread, on the dispatch thread and on the clock, and on
  KWin's answer to the request (created or failed), without which the start never
  ends. A poll of `kde.rs` owes a return, not a success; GStreamer and the tablet owe
  nothing.
* `Wire`: weak on the loop, strong on `ReadSome` (what the tablet sent arrives), and
  the premise of `InputHandled`.
* `VideoPath`: weak on the server's steps, on the reader and on a posted runnable, and on `EncoderEmits` because the
  capture's `keepalive-time=1000` makes frames come without damage. Nothing makes
  the surface come or go.
* `Connection`: weak on the reader, the writer and a `close` that the UI thread has
  begun. Nothing is assumed of the server or the user.

### Findings
1. *Eraser at the teardown* (`main.rs:486`). The cancel names the tip; with the
   eraser near, `Pen::handle` takes the tool-change path, which releases only the
   tool key: BTN_TOUCH, barrel buttons and pressure stay, against "Teardown: lift
   fingers/pen" (`main.rs:478`). The device is destroyed right after, which hides it.
2. *The audio queue is not bounded* (`AudioPlayer.kt:51`, `:66`, `:68`). `@Volatile`
   makes `+=` visible, not atomic: when the player's write falls on top of `feed`'s,
   the chunk just queued is not counted, and the latency it adds stays. The other way
   round the count stays too high and sound is dropped for good. The class
   promises "a bounded queue" (`AudioPlayer.kt:11`). With the two steps made one
   (`CountRest` from the current value) TLC finds `QueueBounded` satisfied.

Met while modelling, without a run of their own:

* A finger that is on the glass when the pen comes near and is lifted while it is
  near stays down on the desktop: palm rejection drops its UP (`StreamView.kt:125`), and
  a CANCEL by the system too. It goes up with the next visit of the same pointer id, or
  at the teardown.
* `TAP_MAX_MOVE` is compared with one sample's movement, so many short ones are a tap
  (`uinput.rs:516`); `emit_scroll` drops what is below a line and repeats what is left above one
  (`uinput.rs:473-483`).
* `awaitingKeyframe` is cleared before the poll that may drop the key frame
  (`VideoDecoder.kt:99-101`): after that timeout deltas reach a fresh decoder.
  It recovers with the next key frame (`DecoderRecovers`).
* `process::exit` of Quit runs no destructor (`tray.rs:65`): the sink and the default stay
  until the next tablet session ends (`SoundComesBack`).
* A decoder whose constructor throws after it has started its thread or made its codec
  (`VideoDecoder.kt:23`, `:44`, `:68`) leaves both behind (`StreamActivity.kt:148-151`); until
  the activity has finished each further surface callback may leave another.
* `kscreen` knows an error by the exit status, "Unable" or "rror" (`kde.rs:86`); one in other
  words passes for success. A device without an event node is neither mapped nor warned
  about (`main.rs:283`). A session that starts before KWin has removed the last one's
  output of the same name may configure that one instead (`wayland.rs:180-186`). All three
  leave a monitor that is not as asked for, with nothing in the log.
* The 5 s deadline of `create` is looked at only after an event (`wayland.rs:141`): a
  silent KWin blocks the server for good. A lost Wayland connection ends the dispatch
  thread without setting `closed` (`wayland.rs:158`). The thread of a released output lives
  until KWin says closed or the connection ends.
* Errors of a running pipeline are only logged (`video.rs:179`).
* A key file torn by a kill makes every later start fail until somebody deletes it;
  overlapping first runs may show a code that is overwritten (`security.rs:61-82`).
* A discovery probe gets no answer while a session or a silent peer is being served
  (`PROTOCOL.md:17` promises one); frames may overtake STREAM_CONFIG
  (`PROTOCOL.md:34`), harmlessly, because the tablet drops them and asks for a key frame.
* A `close` before the handshake is over does not keep the reader from sending HELLO
  (`Connection.kt:56`). The runnable of AUDIO_CONFIG may create a player after `onDestroy`
  (`StreamActivity.kt:169`), which then waits in `takeFirst` for ever.

## 4. Proofs

All for every value of the constants, under the constants' named assumptions. Each
proof shows `Init => IInv`, a step lemma per action or group of actions, and
`IInv => property`.

| Module | Invariant | Why it is needed |
|---|---|---|
| `InputProofs`, `TouchInv` | types; no id twice; `touchDev` mirrors the slots; `touchKernel = touchDev` unless a write has failed; tracking ids apart by age | the agreement of kernel and slots needs the pending batch in between; distinct ids need the age of each contact relative to the counter |
| `InputProofs`, `PenInv` | types; `penDev` holds at most the remembered tool and exactly the remembered buttons; `penKernel = penDev` while live or released; a pen that left unswitched holds nothing | the theorems speak of the kernel, the steps change `penDev`; a failed write separates them |
| `InputProofs`, `PathInv` | the two above; a pen the desktop has near is near for the view, and no batch of fingers is under way then (`ServingInv`); each slot is a finger on the glass, one whose lift is under way, or one whose lift was dropped (`GhostInv`) | view and server never compare notes: palm rejection holds because the view is the more careful of the two |
| `InputProofs`, `PadInv` | the fields agree with what really happened since the first finger came down, and a click ends the gesture (`GestureInv`); buttons of a write that was not lost are up (`ButtonInv`) | the button is chosen at the last lift from what was counted since the first touch |
| `VideoProofs` | types; a decoder has a surface, what is begun and not released is it or one per constructor that threw, a surface whose stream is known has one or the connection is closed, a reader that holds the activity's decoder finds it there, a surface costs one request (`DecoderInv`); without a stall a decoder is fresh until the key frame that ended `awaitingKeyframe` is in it (`KeyInv`) | the reader decides on a decoder and feeds it later, and the UI thread may replace it in between |
| `SessionProofs` | per phase: what is held, who is registered, what is shown | idle cleanliness depends on what each earlier phase may leave; the refinement of `Service` needs that nobody unpaired gets past `auth` and that the monitor is held in the right phases |
| `ScreenProofs` | what is held where (`HeldInv`); one pipeline exactly in a poll or with the encoder (`PipeInv`); what each step of `kde.rs` has achieved, or lost silently, while nothing was warned about and the name is ours alone (`QuietInv`); a held monitor has a thread that reads its events (`ThreadInv`); KWin's stream is gone only when its last event says so (`KwinInv`) | the properties are about the end of a long walk; the invariants say what each stretch of it hands on. `MonitorLossNoticed` needs that a batch of events takes none of them away, in the middle of the start either |
| `WireProofs` | frames lie one behind the other (`Stream`); the loop is within what has arrived (`Position`); a turn begins with less than a frame (`Buffered`) | that the loop is at a boundary is inductive only with the shape of the stream; the buffer's bound needs the state before the read |
| `CredentialsProofs` | without overlap one maker of the code, and all that are up have the file's (`CodeInv`); without a torn key one maker of the pair (`MakerInv`), and no key before its certificate (`LoaderInv`) | a process acts on what it read several calls ago |
| `AudioRouteProofs` | whose sink it is (`OwnerInv`); how many there are while list and unload work (`CountInv`); what the session remembers while undisturbed (`MemoryInv`) | the end of a session is judged by what was read at its start, over kills in between |
| `ConnectionProofs` | one thread at most between `compareAndSet` and the end of `close`; only the empty array exceeds the queue's bound; an open connection is in the field or about to be stored; no writer before the reader starts it; what each step of a close has left behind (`ToldInv`) | `told` counts what a thread inside `close` is still going to do; the reader's last look at `socket` sees what it stored |

Proved: every safety property the passing runs check, the types of every module but
`AudioPlayer`, both refinements of `Service`, and that `InputPath` takes only steps of `Touch` and of `Pen`
(`InputImplementsDevices`), so the theorems about the devices, which hold for any
events, hold of a session; for any number of tablets, slots, fingers, frames,
surfaces, processes, polls, attempts and kills.

Liveness under fairness and ENABLED are beyond the prover, so the liveness properties
(`EndedSessionEnds`, `ClosedMonitorEndsSession`, `StartEnds`, `ClosedEndsSession`, `EndIsTold`,
`CloseEndsThreads`, `InputHandled`, `DecoderRecovers`) are model-checked only. What they rest
on is proved as far as it is safety, that is, that nothing on the way is lost:

| Theorem | It says | Half of |
|---|---|---|
| `SessionClickNotLost` | the socket of a session is in the control, in the hand of the tray, or shut | `EndedSessionEnds` |
| `ScreenMonitorLossNoticed` | a monitor KWin took away is marked closed, or the event and the thread that reads it are there | `ClosedEndsSession` |
| `ConnectionCloseReachesAll` | threads end only behind a close, and a close that is over has told the activity, woken the writer and closed the connection, unless it found no socket | `EndIsTold`, `CloseEndsThreads` |
| `WireAllDispatched` | when all bytes are there and the parser has run, all frames are dispatched | `InputHandled` |
| `VideoKeyOnItsWay` | the key frame a decoder of an open connection waits for, its request or the order for it is under way | `DecoderRecovers` |

These five and the invariants of the table were checked by TLC on the bounds of the runs
before they were proved. Nothing here is an induction over data. `AudioPlayer` has no proof:
what it promises is false (finding 2).

## 5. Not modelled

* Choice of codec, size and scale, and the fields of HELLO: arithmetic on one
  message; TLS and the cryptography of pairing; the text of the pipelines.
* Discovery: a stateless UDP responder and a scan, no state outlives a probe. Trust
  registration: one file written at startup. The start screen and `Crypto.kt`: user
  interface and library calls.
* Coordinates, pressure values, tilt and the history samples of a MotionEvent.
* Data races on the Kotlin fields without `@Volatile` are modelled as interleavings of
  their reads and writes, not as reads of arbitrarily old values.
* A tablet that vanishes without a FIN: that is TCP's timers.
* A full disk, and a power cut that loses finished writes, for the credentials.

## 6. Plan

1. The activity's players (`StreamActivity.kt:169`) joined to `Connection` and `AudioPlayer`.
2. `Session` with `Screen` in place of its steps, so that one proof covers the way
   from KWin's event to the tray's menu.
3. In the proofs: the steps of the liveness arguments that are not temporal, such as
   the rank that `start_screen` and the drops descend (`StartEnds`), and what a
   session adds to a finger that was swallowed (`NoOtherGhosts` bounds who it is,
   not for how long).
