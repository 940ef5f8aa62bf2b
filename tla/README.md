# Aurora-Emulator in TLA+

Aurora-Emulator is an Android app that runs an X server process (derived from
Termux:X11), shows its screen in an activity, and turns touches and keys into
X input.  This directory holds TLA+ models of the parts that carry state and
meet concurrency, TLC configurations that check them on small instances, and
TLAPS proofs, for any size of the instance, about all of them.

All paths below are under `src/app/src/main/java/com/project_aurora/emu/`
unless they start with `src/`.

## 1. The system

| Component | State | Operations | Talks to |
|---|---|---|---|
| **Connection** (`XserverActivity`, `CmdEntryPoint`, AIDL `ICmdEntryInterface`) | `service`, `mClientConnected`, the surface; in the server: the announcement timer, the listening thread on port 7892, native `connected()` | `ACTION_START` → `onReceiveConnection` → `tryConnect`; death recipient; `clientConnectedStateChanged`; `requestConnection`; `sendBroadcast`, `sendBroadcastDelayed`, `spawnListeningThread` | broadcast, a TCP port, Binder calls, the UI looper |
| **Tap detector** (`input/TapGestureDetector`) | initial positions by pointer id, count, first point, cancelled flag, one timer message | `onTouchEvent`, `handleMessage` | calls `onTap` and `onLongPress` of the gesture listener |
| **Gestures** (`input/TouchInputHandler`, `InputStrategyInterface`) | the strategy object and its held button, drag / swipe / suppress flags, delayed taps | `handleTouchEvent`, `onTap`, `onDoubleTapEvent`, `onLongPress`, `onScroll`, `setInputMode` | the detectors, Android's `GestureDetector`, the sender |
| **Swipe detector** (`input/SwipeDetector`) | in-gesture and in-swipe flags, the first positions of two fingers | `onTouchEvent` | read by `onScroll` |
| **Direct touch** (`input/InputEventSender.sendTouchEvent`) | `pointers[]` | one call per `MotionEvent` | touches at the X server |
| **Keyboard** (`utils/KeyInterceptor`, `XserverActivity.handleKey`, `InputEventSender.sendKeyEvent`) | `pressedKeys`, `mPressedTextKeys`, three preferences | key down and up, changes of focus and of preferences, shutdown | the accessibility service, the window, the X server |
| **Hardware listeners** (`TouchInputHandler`: mouse, stylus, DeX; on-screen mouse buttons of `XserverActivity`) | saved button states, the stylus' button and its helper mode, gesture flags, posted presses | `onTouch`, `checkButtons`, `mouseDownRunnable`, `onSingleTapConfirmed` | the sender; all share one remote mouse |
| **Clipboard** (`LorieView`) | the primary clip, `lastClipboardTimestamp`, the listener, the switch of synchronisation | `setClipboardText`, `handleClipboardChange`, `onWindowFocusChanged`, `setClipboardSyncEnabled` | other apps' copies, the wall clock, the X server |
| **Preferences** (`LoriePreferences`, `XserverActivity`) | SharedPreferences, what the activity has read, queued broadcasts | the `CHANGE_PREFERENCE` receiver, the screen's `onPreferenceChange`, `onPreferencesChanged` | broadcasts, a weakly referenced listener, the accessibility service |
| **Compositor socket** (`src/app/src/main/cpp/compositor/vulkan/co_device.*`, `src/app/src/main/cpp/native-lib.cpp`) | `COMPOSITOR_SOCK_FD`, a file in the file system, the window | `createSocket` when the library loads, the surface callbacks, `cleanup` | the kernel's table of descriptors, which all threads share |
| **Compositor images** (`co_hardware_buffers.*`) | `image_buffers`, references to `AHardwareBuffer`s | `recv_image_buffers`, `allocate_buffers`, `release_buffers`, `send_buffer` | a peer that sends handles |
| View (`LorieView`) | surface size | surface callback, measuring | the native client |
| Shell (`coreutils/ShellLoader.kt`, `core/*.kt`) | child processes, two reader threads each, a log | `runCommandWithOutput`, `executeShellProcess` | pipes, view model |
| Extraction (`coreutils/ZipFileExtractor.kt`, `AsyncTask.kt`) | files, named tasks | extract | file system |
| UI, overlays, loader | layout | — | Android |

**What is hard here.**  `service` is a plain field that binder threads clear
and the UI thread reads, checks and calls; the server is found by three
mechanisms that overlap (a timer, a request, a retry), of which each may give
up; a server may die at any step and another take its place while messages of
the first are queued.  The input side is one thread, but four state machines
see each event one after the other and share a remote mouse with two timers
(the long press and the delayed tap); fingers come and go, gestures are
cancelled, focus moves between a press and its release.  A clip from X11 and
one from the user differ by a timestamp only.  Preferences are announced before
they are committed.  The compositor keeps a number of a descriptor that other
threads may be given, and a file that outlives the process.  `hazards` in
`PROJECT.json` lists each of these at its line, with the property that would
catch it or the reason why none does yet.

**What makes each component correct.**

- Connection: a live server that the app holds in `service` is never stranded;
  the end of a connection is noticed; connection, binder and surface belong to one server; a server that
  stays up is shown.
- Tap detector: one report for a gesture at most, only of fingers that stayed,
  with the right count and place.
- Gestures: each press of a remote button has its release, and the strategy
  knows what is held, and for which finger.
- Touch: touches at the X server are the fingers on the screen, but for what it
  was not told; a swipe is judged by the fingers that are there.
- Hardware listeners: a button that is down at the X server is one that some
  device holds, or one that a cancelled press has left; a press is lost only
  where two devices share a button.
- Keyboard: a key released by the user is released at the X server, wherever
  the focus was in between; what a shutdown, the filter or a change of codes
  loses is named.
- Clipboard: nothing that came from X11 is announced to it within 150 ms; what
  the user copies later is.  Both while the clock is not set.
- Preferences: the activity ends up working with what is stored; the
  permission is asked wherever it is needed.
- Compositor: a name left by a killed process is never in the way; the socket
  that is offered is the one clients reach; no failure leaks a descriptor, and
  no cleanup closes one of another thread.
- Images: each live buffer is in one image, in the order of the peer, or is one
  of the two kinds the code drops; the first release frees nothing twice.

## 2. Modules

| Module | Models | Extended by |
|---|---|---|
| `XSession` | abstract: which server is on the screen, and when that may change | instantiated by `XConnection` |
| `XConnection` | server processes, activity, binder threads, messages | `MCXConnection`, `XConnectionProofs` |
| `TapDetector` | `TapGestureDetector` | `GestureInput` |
| `GestureInput` | `handleTouchEvent` in all three modes, composed with `TapDetector` | `MCGestureInput`, `GestureProofs` |
| `SwipeDetector` | `SwipeDetector.onTouchEvent`, an operator of the event | `TouchScreen` |
| `DirectTouch` | `sendTouchEvent`, an operator of the event | `TouchScreen` |
| `TouchScreen` | one event going through both | `MCTouchScreen`, `TouchScreenProofs` |
| `PointerDevices` | the hardware mouse, the stylus, the DeX touchpad and the on-screen mouse buttons, on one remote mouse | `PointerDevicesProofs` |
| `KeyInput` | a key on its two ways to the X server | `KeyInputProofs` |
| `Compositor` | the compositor's socket and window, in processes that are killed | `CompositorProofs` |
| `HardwareBuffers` | `ExternalMemoryAndroid`, the images of the compositor | `MCHardwareBuffers`, `CompositorProofs` |
| `Clipboard` | clips of both sides and their timestamps | `ClipboardProofs` |
| `Preferences` | receiver, screen and activity on the main looper | `PreferencesProofs` |

`MC*` modules only add the symmetry sets.  Operators whose comment calls them
a mutant state a plausible mistake in the definition that follows; no
behaviour uses them, and each property is broken by at least one.

### XConnection

The UI thread is one looper: `uiPc = "idle"` between two messages.  A handler
that starts is cut exactly where it reads `service` again, since a death
recipient, on a binder thread, may run there:

| `uiPc` | Code (`XserverActivity`) |
|---|---|
| `link` | 107, `requireNonNull(service).asBinder().linkToDeath` |
| `alive`, `logcat` | 443-456, `onReceiveConnection` |
| `try`, `get` | 458-477, `tryConnect` up to and including `getXConnection` |
| `check`, `call` | 205-219, the surface callback: `service != null`, then `service.windowChanged` |
| `crashed` | an exception that no handler catches |

`after` names what the surface callback returns to, since it is reached from
four places; `CallbackReturns` is what these do next (the end of `tryConnect`,
466-467, and of `clientConnectedStateChanged`, 712-724).  `DeathRecipient` and `DeathPosts` are the recipient's two steps:
clear `service` and ask for a connection, then post the disconnect runnable.
The server side is `StartServer`, `BindPort` (the port may still belong to the
process before: `ServerSocket` throws, and the listening thread ends),
`SendBroadcastDelayed`, `RequestAccepted`, `RequestRefused`, `ServerDies`.
Broadcasts from servers arrive in order.  A server process is identified with
its binder.

### TapDetector, GestureInput

An event is an action whose argument is the finger or the positions it
carries.  Positions are places more than the touch slop apart, so "moved" is
"another position".  `note` is the call a step makes to the listener; `told`
counts them in the gesture; it and `strayed` are history variables for the
properties.  `GestureInput` extends the detector: each of its actions is
the whole of `handleTouchEvent`, with the detector's action as one conjunct
and the strategy, the flags and the button events (`sent`, in order; `pressed`
at the remote) as the others.  Android's `GestureDetector` is external and
seen through its calls: `doubleTappable` and `doubleTapping` say when it may
take a tap for the second of a double tap, and a scroll may be reported once
a finger has left the slop.  The swipe detector's verdict is a free choice
here.  A long press waits for the delayed taps before it: Android's long-press
timeout is longer than its double-tap timeout.

### TouchScreen

`at` is the fingers on the screen.  `FingerUp` passes the event that still
carries the finger that leaves; `Cancel` ends every finger with a single event;
`LostUp` is the case the comment at `InputEventSender.java:114` is about.
`SetInputMode` is `setInputMode`, which any change of preferences calls,
whatever is on the screen.  Two history variables say what the X server was not
told: `unseen`, the fingers on the screen that came outside touch mode, and
`stuck`, the touches that did not end with their finger (`LeaveUntold`).

### PointerDevices

Each listener's record (`mouseSavedBS`, `button`, `dexSavedBS`, the flags) is a
variable, `remote` is the buttons down at the X server, and an action is one
event with the button state it carries.  `dexGesture` is what the finger on the
DeX touchpad does, as the flags of its events tell; `posted` counts
`mouseDownRunnable` in the handler's queue.  Both listeners that send
differences share `ButtonsAfter`.  `PenCancel` and `AuxCancel` are the
`ACTION_CANCEL` that two of the listeners have no branch for, and `DexReset`
the one the third has; they come at any time, as does the end of a gesture.
Two history variables: `contended`, since a button was last held two devices
have held one button together; and `abandoned`, the buttons whose press ended
with no event that releases them.  The model assumes that no physical button is
pressed within a tap of the touchpad, and that the last event of a DeX gesture
carries no button.

### KeyInput

`KeyDown` and `KeyUp` go through the interceptor when the service runs, and
then, unless it consumed the event, to the window with focus.  `sendKeyEvent`
decides for each event, by the preference and the modifiers of that moment,
whether the key goes as text, with its key code alone, or with its scan code
(`AsText`, `ByScancode`); a key of `Remapped` has a scan code that is another
key at the X server, so `remote` holds codes, not keys.  `FocusLost` cancels the
keys Android has delivered to the window, as its input dispatcher does, with
modifiers of its choice.  `OnPreferencesChanged` sets the three preferences
that matter here, and `Shutdown` stops the service, both at any time.  The
service is assumed to get no event after `disableSelf`.  `astray` is history: the
keys that are down at the X server, or remembered as typed, and that something
has parted from their release (`Astray`).

### Compositor

`pc` is where the UI thread is in the library.  `unloaded` to `listen` are the
system calls of `createSocket` (`co_device.h:76-98`), which initializes a
static, so it runs once in a process, when the first `surfaceChanged` loads
the library; each failure closes and returns −1 (`Fails`).  `init`, `cleanup`
and `remove` are `Compositor::init` and `Compositor::cleanup`
(`co_device.cpp`) as `native-lib.cpp` calls them from the surface callbacks;
`close` and `unlink` of the cleanup are two steps.  Between any two of them
`OpenFile` and `CloseFile` of other threads may run, with the kernel's rule that a
new descriptor is the lowest free one, and `Kill` may end the process: memory
and descriptors are lost, the file at `sock_path` stays.  `writable` says
whether that directory can be written at all.

### HardwareBuffers

Each action is one call, on any interleaving of calls.  `channel` is what the
peer sent and was not received.  `RecvImageBuffers` follows the code in that
`allocateBuffer` is called on the handle just received and writes over it
(`RecvAllocates`), or fails, which nobody looks at (`RecvAllocateFails`).
`AllocateBuffers` works on copies of the images, as the lambda of the code
does, so that its buffers are known to nobody.  `ReleaseBuffers` leaves the
list as it is.  `dropped`, `stale` and `misfreed` are history variables.  After
a free of a buffer that is not live the process may do anything; a behaviour
ends there.

### Clipboard

`SetClipboardText` and `SetTimestamp` are the two steps of `setClipboardText`:
`setPrimaryClip`, which Android stamps, and the line that reads the clock again
and adds `EchoWindow`, the 150 ms.  Both run on the UI thread
(`XserverActivity.java:732` calls `handleXEvents`), so that no other callback
of the view comes between them, while copies of other apps, and the clock, do.
`UserCopies` and `ManagerCopies` are those copies; the second sets a clip of
X11 again, as the comment at `LorieView.java:230` expects, at any time.  `Tick`
lets time pass and `SetClock` sets the clock, forward or back.  History:
`sinceX11`, the time that has passed since the last clip from X11, whatever the
clock showed; `ticked`, whether any has since the last clip; `ahead` and
`caughtUp`, how the clock was set since X11's clip; `steady`, whether
synchronisation has been on since the focus was gained; and, in the clip,
whether it was announced and whether it is excused (`MayBeMissed`,
`MayComeBack`).

### Preferences

All of it runs on one main looper, so an action is one message or callback.
`CommitsAll` announces every key and then commits; `RejectsAfter` returns in
the middle, after some announcements, and may have stopped the service.
Broadcasts are delivered later, in order (`queue`).  `Store` calls the
activity's listener if that was not collected.  `Deliver` is the activity's
receiver and the screen's, which may load its items again, then without
listeners (`reloaded`).  `untold` is history: what a reloaded screen has
changed that nobody announced.  Preferences are members of a set: the names
do not matter to the model, and where the receiver and the activity spell one
differently (`clipboardSync`, `clipboardEnable`) it shows nothing.

## 3. Runs

| Run | Question | States | Result |
|---|---|---|---|
| `conn_recovery` | Can any order of starts, announcements, deaths, retries and surface changes strand a live server held in `service`, hide a lost connection, or mix two servers? | 6.8 million | holds |
| `conn_session` | Does the connection implement `XSession`, its liveness included, when deaths are dealt with before the next start? | 15 thousand | holds |
| `conn_reconnect` | And without that order? | — | `Reconnects` is violated |
| `gesture_buttons` | Do reports stay true and buttons paired, with every order of three fingers' events and both timers? | 23 thousand | holds |
| `key_focus` | Are keys released when focus, capture, preferences and service change with keys down, but for those that are known to go astray? | 1.5 million | holds |
| `touch_contacts` | Do touches at the X server follow the fingers, with cancels, hovering, lost events and a mode that changes any time, as far as it was told? | 436 thousand | holds |
| `pointer_held` | Do four kinds of device on one remote mouse leave a button down that no cancelled press explains, or lose a press? | 1.2 million | holds |
| `compositor_socket` | Is the socket reachable, and nothing leaked or closed that is not its own, with kills and failures at every step? | 7.7 thousand | holds |
| `compositor_again` | And from the second surface on? | — | `FilesStayOpen` is violated |
| `buffers_images` | Is each live buffer in one image, or one of the two kinds the code drops, with every failure and addresses that come back? | 2.2 thousand | holds |
| `clipboard_sync` | When does a clip of X11 go back to it, or a copy of the user get lost: ever but in the cases listed below? | 617 thousand | holds |
| `prefs_change` | Does the activity end up with the stored preferences, with rejected intents, lost listeners and late broadcasts? | 111 thousand | holds |

**Bounds, and why they are enough.**

- `Server = {s1, s2}`: every conflict here is between the server before and
  the one after.  `MaxStarts = 2` lets announcements of both be queued.
  `MaxRetries = 1` bounds the delayed messages that null answers add; the
  message of a null `service` is not bounded.  `MaxSurface = 2` is one change
  of surface at any moment.  `MaxLinks` bounds the re-announcements of a
  server the app already holds, each of which would add one more death
  recipient of the same kind; 0 still lets requests repeat an announcement.
  The session and reconnect runs have smaller bounds because liveness needs
  the whole graph without symmetry.
- Three fingers reach every branch of the count (one, two, three; four is a
  count without a button, and like a tap outside the image sends nothing).
  Two positions are "here" and "away"; one of them lies off the remote image.
  `MaxDelayed = 2` delayed taps exceed the one that a double tap meets.
- The touch screen is a 2×2 grid with no slop: two fingers can move alike,
  apart, or across each other, and the scalar product takes all its signs.
- The touchpad has two buttons, of which one is the button that taps press: a
  set that grows, shrinks, or changes both ways.  The mouse has that one, the
  pen and the on-screen buttons have all three.  `MaxPosted = 2` is a press
  posted while an older one is still in the queue.
- Four keys: one with text, one without that is also remapped, and the two
  modifiers.
- Three descriptors are the socket, a file of another thread, and one that is
  free, or none that is: descriptors run out, too.  `MaxRuns = 2` is a first
  process, one that finds what the first has left, and one after it.
- Four sent buffers and four images fill a list, release it and fill it again;
  six addresses are enough for handles, new buffers and copies to overlap.
- Times 0 to 4 with a window of 2: a moment before it, its two ends, the one
  between, and one after, with the clock set to any of them at any time.
- Three preferences, one of which needs the permission; `MaxQueue = 3` holds
  the announcements of an intent that changes them all.

`CHECK_DEADLOCK FALSE` is set where the system really stops: all servers are
dead and every message was handled, or a double free has ended the process
(`buffers_images`).  All other runs check for deadlock.

**Fairness** (`XConnection!Fairness`, for `conn_session` and
`conn_reconnect`).  Handlers of the looper have strong fairness: the looper
takes messages in order and is idle between two of them, so each is enabled
again and again, never for ever.  Threads that were started, and recipients of
a death, run (weak).  The server's timer fires and its port accepts (strong:
the bound on queued broadcasts disables them at times).  A server whose
`getXConnection` is called again and again in the end answers with a socket
(strong); nothing says that it does at the first call.  No fairness is assumed
of starts, deaths, lost ports or surface changes.

`PromptDeath = TRUE` in `conn_session` is an assumption about the
environment: a user starts the next server after the app has seen the last one
go.  `conn_reconnect` is the same system without it.

`Preferences!Spec` has weak fairness of `Deliver`: the main looper takes the
broadcasts that are queued for it.  Nothing else there need ever happen.

### What the violated runs show

1. **A late death recipient forgets the new server**
   (`XserverActivity.java:108`).  The recipient sets `service = null` whatever
   `service` names.  When it runs after the next server was connected or
   announced, and before that server's port is bound, the one request it makes
   is refused and never repeated, the server believes it has a client and no
   longer announces itself, and `tryConnect` repeats itself on a null service.
   Line 722 says that the connection should be recovered.
2. **The second cleanup closes another thread's file** (`co_device.cpp:100`).
   Line 99 says "close socket", but the number is set once, when the library
   loads, and kept after the first close; a file opened since then has it.

### What the passing runs leave out

The behaviours below are reachable in the code, and what a property says fails
in them.  Two are excluded by a constant, `CutDrags` and `PromptDeath`; all
others are steps of the models, and the property exempts what they cause, by a
history variable that names it.  For keys, touches, buttons and clips each cause
is needed: TLC finds a violation when any one of them is not recorded.

- *Drags* (`CutDrags = FALSE`).  A change of preferences, or an
  `ACTION_CANCEL`, during a drag loses the button
  (`TouchInputHandler.java:267`, `InputStrategyInterface.java:227`):
  `HeldMatchesRemote` and `LiftedMeansReleased` fail.
- A cancelled gesture leaves its first point to the next
  (`TapGestureDetector.java:140`); `PointIsKnown` says only that there is one.
- *Keys* (`astray`, in all three properties of `key_focus`).
  - `shutdown` forgets the keys the service holds (`KeyInterceptor.java:26`);
    if the window has lost the focus, nobody releases them.
  - The Windows-key filter drops the release of a key pressed before the
    Windows key, when the window has lost the focus
    (`XserverActivity.java:578`).
  - A change of `preferScancodes` with a typed key down leaves it in
    `mPressedTextKeys`, or sends its release as a key.
  - A key of `Remapped` is pressed under one code and released under another
    when a modifier or the preference has changed in between
    (`InputEventSender.java:163`), or when Android cancels it with other
    modifiers.
- *Touches* (`unseen`, `stuck`, in `TouchesAreFingers`).  The loop that ends
  stuck pointers skips those that have moved (`InputEventSender.java:116`); an
  `ACTION_CANCEL` with several fingers ends one touch only (119); a change of
  mode is not told to the fingers on the screen.
- *Buttons* (`abandoned`, in `PressedIsHeld`).  The pen's listener
  (`TouchInputHandler.java:594`) and the one of the on-screen buttons
  (`XserverActivity.java:384`) have no branch for `ACTION_CANCEL`.  The branch
  that "resets all states" of the touchpad neither releases the button its
  flags stand for nor removes a posted press (710), a drag may end before its
  posted press runs (678), and a tap that begins on a button state left by a
  cancelled gesture is not released when it ends.
- A hold is what the device's own record says: the saved button state of mouse
  or touchpad may be older than the buttons are.
- Two devices that hold the same button release it for each other: `contended`
  in `HeldIsPressed`.
- *Clips* (`excused`).  A clip of X11 is announced back to it if a manager sets
  it again after the 150 ms, or within them after the clock was set forward, or
  if the clock was set back between the two lines of `setClipboardText`
  (`MayComeBack`, `SetTimestamp`).  A text that the user copies is not announced
  if that is within 150 ms of a clip of X11, or between those two lines, or in
  the millisecond of the clip before it, or on a clock that was set back, until
  the clock has passed what it showed before by 150 ms (`MayBeMissed`).
  Nor is one before the focus is next gained, if synchronisation was switched
  on later: `steady`.
- *Preferences* (`untold`).  A screen that was loaded again changes them
  unannounced, and without asking for the permission.  A rejected intent may
  already have stopped the accessibility service.
- *The compositor.*  A second `release_buffers` frees the images of the first
  again: `FirstReleaseIsSafe` is about the first, and a behaviour ends there.
  Buffers that `allocateBuffer` writes over, or allocates for a copy, are never
  released: `dropped` in `OneOwner`.  `listen` that fails leaves the file of its
  socket: `errno` in `NoDeadName`.

## 4. Proofs

Checked by TLAPS, for any sets of servers, fingers, positions and keys, and any
bounds.  Each module proves an inductive invariant, one lemma per action or
per conjunct, and derives the properties from it.  Every invariant and action
property that a passing run checks is also a theorem; where one holds only
under a named condition on the environment (`PromptDeath`, `WholeDrags`), the
condition is given below, and what holds without it is proved without it.

**`XConnectionProofs`**: `TypeCorrect`, `NeverStranded` (`NoLostWakeup`),
`DeathIsNoticed` (`ConnectedIsWatched`), `OneServerAtATime`
(`ServiceMatchesConnection`), under the module's assumptions only: null is no
server, and the bounds are natural numbers; with or without `PromptDeath`.
`SurfaceIsSent` (`WindowIsCurrent`) likewise.  None of the five is inductive
as it stands.  What is added:

- `Wakeup` extends `NoLostWakeup` into the surface callback, where the looper
  is not idle yet and the death recipient may already have run.
- `HeldIsLinked`: past `linkToDeath` a live server in `service` has a
  recipient; `AttachedIsWatched` carries it to the server whose socket was
  attached, from the moment of `LorieView.connect`, before
  `mClientConnected` is set.
- `OrderInv`: at most one server lives, broadcasts are in the order of starts
  (`Fifo`), so once a live server is in `service` or connected nothing older is
  queued (`NothingOlder`), and no announcement of a dead server can replace it.
- `ContextMatches` ties `uiPc` to `after`.
- `ConnectedIsHeld` and `SurfaceSent`: a connected, live server that is not
  losing its connection is the one in `service`, and has the current surface
  unless the surface callback that will send it is running.

`SessionsEndByDeath` says how the server on the screen may change, however
late a death is handled: from none to one that was started, and back to none,
or to an app that has ended, only after a death; never from one to another.
`PostedByDeath` (whatever is posted to take a server off the screen was posted
by a recipient) and `LostToDeath` (a binder lost within the surface callback was
lost to a death) are the reasons.

`RefinesSession` is the safety of `XSession` (`XSession!Safety`, its `Spec`
without fairness) under `PromptDeath`: every step maps to a step or a stutter.
It rests on a second invariant, `RInv`: while a server lives, nothing of a dead
one is pending (`DeathsAreOver`, which needs `PromptDeath`), and on
`LostToDeath`.

**`GestureProofs`**, for any finite set of fingers.  First the detector by
itself (`Spec`): `TypeCorrect`, `ReportedOnce`, `ReportsAreTrue`,
`PointIsAlwaysKnown` (`PointIsKnown`), with or without `ACTION_CANCEL`.  `Eligible` says
what holds while a tap is still possible (no report, no finger strayed, each
finger's position stored) and `Armed` what holds while the message is queued
(no finger has left, so the count is the number of fingers).

Then the handler (`GestureSpec`) in any environment, drags cut by a change of
preferences or a cancel included: `GestureTypeCorrect`, `DetectorWithinHandler`
(the detector's properties as the handler drives it) and
`ReleasesFollowPresses`: no step releases a button that is up.  `HandlerInv`
carries the detector's invariant over and adds `HeldIsDown`: what the strategy
takes for held is down at the remote.  A cut drag loses the converse, not this:
it may leave a button down, and never releases one twice.

The converse needs `WholeDrags`, no drag is cut; TLC refutes
`HeldMatchesRemote` without it.  Under it: `StrategyKnowsButtons`
(`HeldMatchesRemote`), `LiftingReleases` (`LiftedMeansReleased`) and
`ButtonsAlternate` (`PressesAlternate`).  `GInv` adds `HoldInv`: a button is
held only while a finger is down and no delayed tap is queued, and a long press
meets one only in the drag of a double tap, to which it adds no press.
`WhatIsSent` lists the shapes a step's button events have, and the lemmas
`SentOneMore`, `SentDown`, `SentUp` and `SentThenClick` say what each leaves at
the remote, so that the step of each action only has to name its shape.

**`TouchScreenProofs`**: `TypeCorrect`, `FingersAreTouches`
(`TouchesAreFingers`), `PairIsItsOwn` (`FirstPairIsCurrent`) and
`SwipesAreOfThePair`, for any fingers, coordinates and slop, with or without
lost events, and with a mode that changes at any time.  The last says that a
step which begins a swipe is a move of the two fingers on the screen, each past
the slop and all one way since these two were first seen together.  `Untold`
says what is left of `unseen` and `stuck` when fingers leave, and
`GestureIsOfPair` bounds the fingers of a gesture: without it a lost event could
turn a gesture of three into one of two, with the positions of three.
`TouchOutcome` and `SwipeOutcome` say once what the two components make of an
event, so that no action's proof opens their cases.

**`KeyInputProofs`**: `TypeCorrect`, `KeysAreReleased` (`NoStuckKeys`),
`TypedKeysAreForgotten` (`TypedKeysAreHeld`) and `SomeoneReleases`
(`HeldKeysAreTracked`), with no condition on the environment.  A key is `Owed`
if it is down at the X server or remembered as typed, and not astray; the
invariant says that each such key is `Kept`: it is held on the keyboard, was sent
in one way, is down under the code an event would send now, and has someone who
will release it, the running interceptor or Android.  `StillOwed` says that a
key owed after a step was owed, or sent by it, and kept its code;
`UpsRelease` and `ReleaseKeeps` are the releases, of one key or of all that
Android cancels.

**`PointerDevicesProofs`**: `TypeCorrect`, `NoButtonIsStuck` (`PressedIsHeld`)
and `NoPressIsLost` (`HeldIsPressed`) for any buttons of the mouse and the
touchpad and any number of posted presses, whatever is cancelled.  `DexInv` ties
the flags and the saved buttons to the gesture: a posted press belongs to a drag
or to a left button that is abandoned, and an idle touchpad with a button saved,
or a click whose button is up again, has cleared `onTap`, or its end would
release a button of another device.  `ContentionSeen` gives `Alone`: without
contention a release concerns one device only, which is why it cannot cost
another its press.

**`CompositorProofs`**: all six invariants of `compositor_socket`, for any
set of descriptors and any number of processes.  `SocketInv` says which
descriptors are sockets at each step: the one in `createSocket`'s hands, then
the one that is offered, then, after the first cleanup, none.  `PathInv` says
whose name is at `sock_path`: not this process's before `bind`, nobody's right
before it if the directory can be written, this process's until the cleanup.
`NameIsNeverTaken` needs that `unlink` and `bind` succeed or fail together,
and `FirstCleanupIsSafe` that the socket is still open at its old number.

In the same module, for `HardwareBuffers`, any set of addresses and any
bounds: `BuffersTypeCorrect` (`BuffersTypeOK`), `BuffersHaveOneOwner`
(`OneOwner`), `OrderIsKept` (`ImagesInOrder`) and `OneReleaseIsSafe`
(`FirstReleaseIsSafe`).  `OrderInv` carries the order from the peer through the
channel into the list.  `OneReleaseIsSafe` follows from `OneOwner` while
nothing was released: every image in the list is fresh.

**`ClipboardProofs`**: `TypeCorrect`, `NothingComesBack` (`NoEcho`) and
`CopiesReachX` (`CopiesAreAnnounced`), for any length of the window and any
settings of the clock; what these excuse is in the properties.  `StampInv`: the
clip's stamp is a time the clock has shown, and an older one once time has
passed.  `TimestampInv`: within the window the timestamp is ahead of the clock by
what is left of it, at most, and at least unless the clock was set forward; after
the window it is a time the clock has shown.  `ClipInv`: an unexcused clip of
X11 is not newer than the timestamp, an unexcused and unannounced one of the user
is.  `SettingInv` says what holds between the two lines of
`setClipboardText`, where the latter two do not.

**`PreferencesProofs`**: `TypeCorrect`, `ActivityIsCurrent`
(`SettingsAreCurrent`) and `PermissionIsAsked` (`AutoNeedsGrant`), for any
finite set of preferences.  The two properties are inductive next to the types:
a commit never leaves the queue empty behind it, and the activity reads
everything whenever it reads.

**Only model-checked**: liveness (the fairness of `ImplementsSession`,
`Reconnects`, `ChangesArrive`), which is out of the prover's reach.

## 5. Not modelled

- Android: the looper, input dispatcher, `GestureDetector`, broadcasts and
  Binder are modelled by what the code relies on, and marked external.
- libXlorie, the native server and client, is a binary.  `getXConnection`
  gives a socket, null, or an exception; `connected()` is true from the socket
  on; `sendKeyEvent` handles every key.
- Connection: re-creation of the activity, `ACTION_STOP`, `closeConnection`.
- Keyboard: volume and back keys, autorepeat, four legacy keys, the AltGr
  release around a character, `ACTION_MULTIPLE`, Escape's release of capture.
- Pointer: cursor coordinates, scaling, scroll distances, the swipe callbacks
  (empty in this app), coordinates of direct touches.
- Pointer devices: cursor and wheel, and a physical button of the touchpad
  pressed within a tap.
- Compositor: the calls into Vulkan and the render loop.  `init` has them
  commented out, so in this commit no device is made, nothing accepts on the
  socket, and `image_buffers` stays empty; `HardwareBuffers` models the class by
  its interface, not by a caller that exists.
- Clipboard: `requestClipboard` only reads the clip.
- Preferences: values other than switches, listing them, and the system setting
  behind `showIMEWhileExternalConnected`.
- Shell: nothing in this commit executes a process.  `Init` only registers
  one, and no class makes a `WineContext`, so a model would check readers and
  joins that never run.
- Extraction: one sequential copy of an archive into files, and no state that a
  second actor changes.
- User interface, layout of overlays, the loader: no state of their own that
  outlives a call.

## 6. Plan

Done, in the order of importance: connection, tap detector, gestures,
keyboard, touch screen, hardware pointer devices, the compositor's socket and
images, clipboard, preferences.  What is left:

1. Two `TouchInputHandler`s, touchpad and touch screen, on one remote mouse.
2. `ShellProcess`, once something executes one: two reader threads, bounded
   pipes, `join` before `waitFor`; liveness of the caller.
3. Two activities across a re-creation, sharing the static instance and the
   server.
4. The compositor's clients, once its socket accepts and its loop draws.

Proofs to come: what the two handlers of item 1 guarantee together, once they
are modelled.  Liveness stays with TLC.
