# A TLA+ model of the intercom

This directory specifies, model-checks and proves properties of the door
intercom in `src/intercom`: a program that connects a door station (microphone,
speaker, buttons, bell) with SIP telephones, and that leaves its decisions to Lua
scripts. Each call runs a Lua script in a thread of its own; so does the door
station itself. Everything that makes the program hard lies between those
threads, the SIP stack's callbacks, a timer thread and the thread that shuts the
program down.

## Inventory

| Component (source) | State | Operations | Works with |
|---|---|---|---|
| Control-message queue (`pjs_utils.h`, `pjs_messages_queue.h`) | list, limit, lock, event flag | `push` at either end, `get_message`, `clear`, `wait` | every producer of messages; one script takes them |
| Script object (`pjs_intercom_script` and subclasses in `pjs_intercom.h/.cpp`) | thread handle, pool, exit and completed flags, Lua state pointer, queue | constructor, `stop`, destructor (`clean`), `script_thread_proc` | registry (owner), Lua, its queue and voice port |
| Registry (`pjs_intercom_system`) | `m_started`, `m_calls`, `m_scripts`, `m_scripts_id` | `create_call`, `create_thread`, `make_call`, `hangup_calls_by_tag`, `on_incoming_call`, `on_call_state`, `on_dtmf_digit`, `on_call_media_state`, `timer`, `check_calls_media`, `start`, `stop` | SIP stack, timer thread, main script, script objects |
| Voice response port (`pjs_vr`) | state, open file, terminators, timeouts, digit buffer, owed completion | `play_file`, `wait_input`, `on_input`, `get_frame`, `stop`, `fade_out`, `get_input`, `clear_input` | its script, the media clock, the SIP stack, the script's queue |
| Call audio routing (`pjs_call_script_interface`) | conference port, connection flags, tag | `set_call_port`, `set_vr_port`, `connect_main`, `disconnect_main`, `set_sound_connection_type`, `answer`, `get_state` | its script, SIP callbacks, the conference bridge, the other calls |
| Call script (`scripts/call.lua`) | where the dialogue is | PIN dialogue, confirmation, menu | voice port, queue, audio routing |
| Main script (`scripts/intercom.lua`, `user.lua`, `intercom_db.lua`) | bell, door and call timers | message handlers, call list | registry, two voice ports, controller, main queue |
| Lua binding (`pjs_lua*.h/.cpp`) | Lua state, shared globals | load, run, `terminate`, globals | script objects |
| Arduino controller (`pjs_arduino_controller`, `serial/`) | serial port, outputs, inputs, handshake | worker thread, `set_output`, `update_inputs`, packet parser | main queue, main script, firmware |
| Firmware (`src/Arduino`, `src/ESP32`) | parser, inputs, outputs, stand-alone mode | serial handlers | Arduino controller |
| Audio ports (`pjs_port`, `pjs_frame_processor`, `pjs_master_port`) | circular buffers, worker threads | `put_frame`, `get_frame`, the workers, `stop`, the destructors | sound device, conference bridge |
| Echo canceller, gain, audio monitor | latency list, delay buffer; a ZeroMQ socket | `playback`, `capture`, `put_frame`, `on_process_frame` | audio ports, the bridge's clock |
| Program start, configuration, `pjs_global` | configuration, timer thread | read, start, wait for a key | registry |
| Video server (`src/wapa_httpd`) | clients, frames, camera use count | HTTP requests, frame distribution | separate process |

Vendored and generated code (`3rdparty`, Lua, luasocket, libconfig, sqlite3,
crypto, serialib, the SWIG wrappers, mjpg-streamer, the web pages) is not modelled for
its own sake. What the components meet of `3rdparty/pjproject` (call slots, the locks
around callbacks, the bridge's ports and links, the delay buffer) is in their modules,
and mapped to its lines; outside the repository are only the visitor's button and the
serial line.

### What is hard, and what makes each component correct

- *Queue.* `wait` looks at the list under one lock and sleeps under another. No
  wakeup may be lost, the limit must hold, a quit request must be taken first.
- *Script object.* The thread, `stop()` and the destructor meet in every order:
  nothing may be used after it was released, a stopped script must end, and a
  call whose script has ended must not stay up.
- *Registry.* Critical sections are short and decisions are taken outside them:
  `is_started()` is read before the lock, calls are hung up and scripts deleted
  after it, the SIP stack reuses call identifiers. What can be looked up must
  exist, what runs must be found when its call ends, and the shutdown must end.
- *Voice port.* The media clock, digits, a stop and the next operation compete to
  end an operation; it must be reported once, to the right operation, and
  nothing may start after a stop.
- *Menu.* It is driven by completions alone, so one that is missing leaves the
  caller with a dead keypad.
- *Main script.* It is one thread, but what it decides on changes under it: calls
  are answered, connected and ended by others between a look and its use, and
  messages about that come later. No phone may ring on for a door that is not
  calling, none twice at once; the bell and the calling must end.
- *Controller link.* Values are stored without a lock and sent under one, the
  port is closed and reopened, the board restarts or serves itself. Both ends
  must agree again afterwards, and must find each other.
- *Audio routing.* The script's thread and the SIP side go through the same checks
  on the same fields with no lock, and use port numbers that the bridge gives out
  again. A call must hear what it asked for once they are done, and never a
  stranger.
- *Locks.* pjsua calls back with its own locks held, in its worker or in the thread
  that hung up, and the callbacks take `m_scripts_mutex`, under which other threads
  call pjsua. The order of these locks decides whether the program stands still.
- *Sound path.* Two device threads, two workers and the canceller hand frames to
  each other at different clocks, and `clean_system` takes all of it apart while it
  runs. No list may be read empty, no frame be slept on, nothing used after it.

`PROJECT.json` lists the hazards one by one, each at its line and with the
properties that cover it.

## Modules

| Module | Models |
|---|---|
| `BoundedDeque` | what a queue promises: atomic push (quit in front, room made by forgetting from the front), pop, clear |
| `MessageQueue` | `pjs_list` and `pjs_event`, step by step; implements `BoundedDeque` |
| `ScriptLife` | what a script's life looks like to others: new, running, completed, deleted |
| `ScriptThread` | one script object with its thread; implements `ScriptLife` |
| `ScriptProofs` | theorems about `MessageQueue` and `ScriptThread` |
| `IntercomSystem` | the registry among its threads; implements `ScriptLife` for each script |
| `IntercomSystemProofs` | theorems about `IntercomSystem` |
| `VoiceOps` | `pjs_vr`'s methods as operators on its state |
| `VoiceResponse` | one voice port among its threads |
| `VoiceResponseProofs` | theorems about `VoiceResponse` |
| `CallMenu` | `call_ivr` on a port (`VoiceOps`) and a queue (the deque of `BoundedDeque`) |
| `MainScript` | `intercom.lua` among the calls, the buttons and the sensor |
| `LuaScriptProofs` | theorems about `MainScript` and `CallMenu` |
| `ControllerLink` | `pjs_arduino_controller` and the ESP32 firmware on a serial line |
| `ControllerLinkProofs` | theorems about `ControllerLink` |
| `AudioRouting` | `pjs_call_script_interface` and `connect`/`disconnect` of the system on the conference bridge |
| `AudioRoutingProofs` | theorems about `AudioRouting` |
| `SipLocks` | the operations of the registry's threads as sequences of lock steps, pjsua's included |
| `SipLocksProofs` | theorems about `SipLocks` |
| `SoundPath` | `pjs_master_port`, `pjs_frame_processor`, `pjs_echo_canceller`, the audio monitor and their part of `clean_system` |
| `SoundPathProofs` | theorems about `SoundPath` |
| `MC*` | the instances TLC checks |

### How state and actions correspond to the code

**MessageQueue.** `list`, `lock` and `triggered` are `m_list`, `m_lock` and the
event's flag. `push` is four steps (lock; drop one message, repeated while the
list is full; insert; signal and unlock), because the lock and the event's mutex
are different. The consumer is the loop of `call.lua`: `GetMessage`, and when
there is none `WaitCheck` (list looked at under `m_lock`), `EventEnter` (flag
consumed, or blocked), then `EventReturn`, `EventTimeout` or `EventSpurious`.
`posting`, `unposted` and `dropped` describe the pushes themselves.

**ScriptThread.** `opc` is the thread that owns the object (constructor, then
`stop()`, then the destructor: the registry's mutex orders them), `tpc` is
`script_thread_proc`. Each flag the two share is a variable, and each access is a
step, in the order of the code. `prog` is what the Lua main function does next:
the shapes are those of `call.lua`. A hook set by `terminate()` ends Lua code at
its next instruction; it can only be set while `m_script` is not NULL.

**IntercomSystem.** One critical section under `m_scripts_mutex` is one step. A
call of `make_call`, `on_incoming_call`, `timer` or `clean_system` is several:
the test of `is_started()`, the critical sections, and what follows them
(hangups of collected calls, deletions). `sc` is the set of script objects, in
the phases of `ScriptThread`: `stop()` is one step here, and marks the script
`hooked` when it has a Lua state. `freed` counts deletions. pjsua is the
environment: `pj` is the state of each call slot, `pjno` numbers the calls that
occupy it, which the program cannot see; a slot is reused after its
DISCONNECTED callback. While `on_incoming_call` runs the stack holds the dialog,
so that call is not ended by others; a call of an account that the program does not
know stays without a script. Tags are left out: `hangup_calls_by_tag`
collects any set of active calls.

**VoiceOps, VoiceResponse.** The record holds `pjs_vr`'s fields. `InternalStop`
and `Completion` are `internal_stop()` and `async_completed()`; what happens
under `m_lock` is one step. A synchronous call goes on outside the lock
(`SyncCheck`, `SyncWait`, `SyncTake`). `get_frame` looks at `m_state` before it
takes the lock, hence `FrameLook` and two continuations. `SyncTake` empties the
string without the lock while `on_input` may append to it: `DigitRaces` is the
outcome in which the digit is lost. `op` and `posts` record which operation a
completion was for. `heard` says that the bridge has a listener for the port:
the bridge asks no other port for frames (`conference.c:1841`), and a call's voice
port has no listener while the call's media are down (`AudioRouting`'s `MediaDown`).
`Listener` changes it at any time.

**CallMenu.** One call from Lua into the program is one step. `vr` is the call's port, with the
operators of `VoiceOps`, and `mqueue` its message queue as `BoundedDeque` has it, of
which `MessageQueue` is shown to be an implementation.

**MainScript.** The script is one thread, so a handler is one step, `Handle`, except
for what it reads or does with the calls that others change: the connected count
is read when the message is taken (`TakeMessage`), and `check_calls()` looks at
one phone per step (`CheckPhone`, `Dial`). `Approach` and `Tick` are the two
halves of a turn without a message. The methods are operators on a record of the
script's fields, the calls and `outgoing_calls`; `dial` in it says that
`check_calls()` is to follow. A timestamp is "off" (nil), "on", or "due" when its
limit has passed; the limits are options, so any order is possible. The calls are
the environment: answered (`Confirm` takes the tag away), connected and
disconnected (`SwitchMain`), ended (`EndCall`), received; `post` says that the
thread that changed the call has not yet pushed IM_CONNECTED_CHANGED.

**ControllerLink.** `pc` has the place of each thread that calls `set_output()`
and of the controller's thread, which run the same `send_relay()`: `Build` copies
the value without a lock, `Send` takes `m_lock` and looks at the port, `Write`
writes and releases. One output stands for the three, one input for the three. A
stored value is known by its number (odd numbers switch the relay on), so that
"stored last" can be said. On the board the serial thread's loop is `Report`,
`Wake`, `TakePacket`, `HostTimeout` and `GoStandalone`; `ControllerTurn` is one
turn of the controller thread, which preempts it. `b` holds the board's variables.
`doubt`, `missed` and `early` are history: they record why the two ends may
disagree (a packet was lost, was overtaken by an older value, or the board has
forgotten), and the properties say that there is no other reason. The intercom is
started beside any board (`Boards`): one that was just switched on, one that has
served itself, or one that a former process of the intercom has left awake, with that
process's outputs and with inputs that were reported to it (`missed`).

**AudioRouting.** A check of `pjs_call_script_interface` is run by an activity: the
script of the call, or `Sip`, the one callback that holds `m_scripts_mutex`. `act`
is where it is: `Test` reads whether there is a port and how the call is to be
connected, `Route` takes the next other call, `Out` and `In` (dis)connect the two
directions, `ToMain` and `FromMain` the sound device; each of them reads
`m_call_port` again, as the code does. `Switch` is `connect()` and `disconnect()` of
the system, with the monitor's link. The bridge and pjsua's table of calls are those of
the vendored pjproject, as far as they are used: the lowest free number
is given to a new port, a removed port takes its links with it, and links to ports
that are not there are refused. `doubt` is history: it is raised when two activities
meet on one call, or when one uses a number that is another call's by now, and it is
lowered by a check that was alone. Not in the model: a `stop()` that sets
`m_call_port` to 0 while the script is between `Test` and `ToMain` makes the check
connect port 0 with itself (`pjs_intercom_script_interface.h:155`); the link is in
`links`, and the call is in `doubt`, but nothing is claimed about port 0 itself.

**SipLocks.** `todo` is the sequence of steps that a thread has before it; a
callback puts its steps in front, because it runs in the thread that caused it.
`owner` and `depth` are the locks; pjsua's are recursive, `m_scripts_mutex` is not.
What pjsua does with its locks is taken from the version the program is built with
(`acquire_call` tries both of its locks and gives up in the end; `on_incoming_call`
comes with PJSUA_LOCK held, the other callbacks with the dialog's); an incoming call
of an unknown account is not registered. `late` is
history: a call that make_call registered after its `on_call_state`.

**SoundPath.** A frame is its number, silence is 0. `Write`, `Test`, `TakeFrame`,
`TakeNothing`, `Wake` and `TimesOut` are the buffer and the loop that
`pjs_frame_processor` and the put thread of `pjs_master_port` have in common; `hand`
is the frame a thread works on. `lat`, `free`, `ready` and `delay` are the
canceller's lists, and `capture()` is two steps (`Capture`, `Refill`) because it
gives its lock back for the computation. A frame of the device goes to the canceller in
pieces (`echo_process_p`, `echo_process_c`): `Playback` and `Refill` may go on with a
next piece, and `PlayNothing` is the frame of which nothing gets there, because the
bridge has failed or given another size. `mode` says how the port was built: with a
put thread, without one, without a canceller. `stage` is where `clean_system` is;
each deletion and each join is a step.

## What the runs check

| Run | Instance | Shows |
|---|---|---|
| `message_queue` | 2 producers, 5 posts of which two are IM_QUIT, limit 2 | no lost wakeup; every message leaves the queue although no timeout is forced; refinement of `BoundedDeque`: the quit request goes to the front, room is made at the front |
| `script_thread` | both kinds of script, all program shapes | no use of a deleted Lua state; a call whose script ended is hung up; a stopped script ends; refinement of `ScriptLife`: the object outlives its thread |
| `registry` | 1 identifier, 2 calls or a call and a script thread, fairness | registered scripts exist; unstopped call scripts are found through `m_calls`; an incoming call's script does not outlive its call; `get_call`'s cast is right; refinement of `ScriptLife` for each script; `stop()` ends |
| `voice_response` | 3 operations, 2 digits, 2 kinds of digit, fairness | each operation is reported once and with its own parameters if it is a file; synchronous calls return, both provided that the port has a listener for good; silence after a stop |
| `call_menu` | 5 digits, queue of 2, fairness | the menu is never deaf, and every digit is taken, whether the media clock ticks or not |
| `main_script` | 2 phones, 2 identifiers, all buttons and the sensor, 2 events, 2 changes of calls, fairness | no phone rings for a door that is not calling, or twice; an answer ends the calling although the count it is judged by is old; the lights come back; bell and calling end |
| `controller_link` | 1 setter, any board and button at the start, 2 mishaps (a close, a loss, a restart or a timeout of the board), any presses, fairness | writes go to a live port; the board has the output stored last, the intercom the input, the relay follows, each with the exceptions the properties name; the two find each other again |
| `audio_routing` | 2 calls, 2 ports, 2 begins, 2 operations, 1 change of media, symmetric | after a race is over each call hears, and is heard by, what its script asked for; conferences are made both ways or not at all; a menu never plays to the other call |
| `sip_locks` | 2 calls, 4 threads, 4 operations, fairness | nobody waits for a dialog with a lock in its hands, or for the mutex it holds; the session that `check_calls_media` reads is not freed by the call's end; all operations end, but for one crossing of two locks |
| `sound_path` | buffers of 1, latency 1, delay 1, 2 captured and 3 played frames or pieces of frames, fairness | the latency list is never read empty; references are used in order and once; nothing is used after `clean_system` has deleted it; no worker sleeps on a frame; the clean-up ends |
| `shutdown_race`, `bell_repeats` | the smallest instances | violations, see below |

Why the bounds are enough. A queue of two is full after two pushes; five posts
by two producers overfill it while a third message is being taken and while a
quit request is behind, in front of, or dropped with the others. One identifier
and two calls are the smallest instance in which a late hangup or a late
`create_call` can hit the wrong call; scripts of different identifiers share only
the maps that the proofs treat for any number. Three operations on a port are one
more than needed for a stale look of the media clock to meet the next operation. In
`call_menu` five digits overfill a queue of two with completions. The actual limit of
a queue is 200. Two phones are dialled one after the other while the calls of the
first are answered or end; more phones and calls are proved. Two events are too few
for the sensor, which needs three readings, so in `main_script` no light is put out by
it and no bell rung by an approach: what `LightsComeBack` and the bell's end say of
these is shown by the theorems alone (`LightsAreBack`, `TimesRunOut`). Two mishaps on
the line combine in every pair and order, beside any board, with any number of
presses; the worker and one setter already overtake each other (two values, one
line). More of each is proved. Two calls are all that a link of the
bridge relates, two activities all that can meet on a call, and two ports with a
change of media make a number pass from one call to the other. Four operations of
four threads let each of them be in the middle of one; a circular wait of the three
kinds of lock needs three at most. The buffers of the sound path overflow with one
frame more than they hold, and a latency and a delay of one frame are what
`echo_canceller.cpp:49` calls the least. Both buffers hold one frame, so that the
second is refused while the first is still to be taken; the proofs hold for any
size, latency and delay.

The shutdown race. `clean_system` collects the scripts in one critical section
(`pjs_intercom.cpp:690`) and clears `m_scripts` in a second one (`:700`). A call
that `create_call` registers in between (it has read `is_started()` before it
waited for the mutex) is forgotten: it is neither stopped nor deleted, and its
thread goes on while the system is destroyed, after the code has logged
"All calls scripts deleted" (`:712`). Run `shutdown_race` is the counterexample.
For the same reason the timer, when it read `is_started()` in time, may delete a
script that the shutdown has collected too; the model contains this (`freed` may
become 2), and the properties about the registry hold in spite of it.

The bell that is not repeated. `stop_bell` (`intercom.lua:174`) stores the global
`now`, which nothing defines, as the time at which the bell stopped; so that time
is always nil, and the branch that logs "Repeat bell" (`:360`) is dead, as are
three of the options. Run `bell_repeats` shows a bell that has stopped with
repeats left and nothing from which to count to the next one.

### Observations without a run

- `on_ultrasonic_data` assigns `ultrasonic_triggered` only inside the test for a
  detection (`intercom.lua:235`), so the branch that logs "Ultrasonic empty" (`:251`)
  cannot run for a sensor that has triggered, and after the first visitor no other is
  detected. `MainScript` has it so (`triggered` never falls).
- `~pjs_audio_monitor` deletes its gain control before its port leaves the bridge
  (`pjs_audio_monitor.cpp:46`), while the play stream still runs; `UsedWhileAlive`
  names this as its only exception.
- `on_incoming_call` takes `m_scripts_mutex` with pjsua's lock held, and
  `on_call_media_state` asks pjsua with the mutex held; so does `make_call`'s callback
  when a call fails at once. `OperationsEnd` names this crossing (`Crossed`) as the
  only way in which an operation does not end.
- A re-INVITE makes a call's media session anew without asking for
  `m_scripts_mutex`; `check_calls_media` may be reading the old one
  (`SessionOutlivesReader` lets it be "renewed").
- A voice port without a listener stands still: while the call's media are down neither
  the end of a file nor a timeout is looked at, no completion is posted, and a
  synchronous `play_file` or `wait_input`, whose `internal_wait_completion(-1)`
  (`pjs_vr.cpp:264`) has no limit of its own, returns only at a digit that ends it or a
  stop. `AsyncIsReported` and `SyncReturns` therefore ask for a listener (`<>[]heard`);
  nothing in the program brings one back but new media. The first also excludes
  by name an operation that no longer ends by itself, because its script has taken
  back the fade of a looping file (`FadeTakenBack`).
- An intercom that is started again within the board's `HOST_TIMEOUT` (15 s) meets a board
  that has reported its inputs to the former process and does not repeat them. The
  `update_inputs()` at `intercom.lua:301`, which would ask for them, is dropped by
  `send_buffer` (`pjs_arduino_controller.cpp:366`) until the handshake is over, and nothing
  asks again: an active door contact stays unknown until it changes or the board has
  served itself. `InputIsKnown` names this as an exception (`missed`), like the
  report that is lost on the line.
- `stop()` clears `m_call_port` between two looks of a check, see `AudioRouting`.

### Fairness

Threads of the program are scheduled, so an enabled step of a push, of a script's
thread, of the timer or of `stop()` is taken (weak fairness). Strong fairness is
assumed where a thread competes: the queue's consumer for `m_lock`, the shutdown
for the main script's return, and the media clock of `VoiceResponse` for the end of an
operation that it finds possible again and again (files are finite, timeouts elapse).
That clock is only bound to ask for a frame while the port has a listener, and nothing
is bound to give it one; in `CallMenu` nothing at all is assumed of the clock. The
SIP stack delivers the end of every call. The main script runs, timestamps become
due, a call that was told to hang up ends and its callback posts. The messages to
it are finitely many in `main_script`: its timeouts are looked at only when
the queue is empty, so a stream of messages that never lets it get empty would put
them off for ever, in the code as in the model. The threads of the intercom on the
serial line run, the version request is repeated until it is answered and the board's
serial thread takes the packets it gets; nobody has to set an output or press the
button, and closes, losses and restarts are finitely many. In
`SipLocks` a thread that can go on does, and the operations are finitely many, so
that weak fairness lets each of those that wait for a lock have it once the others
are through. In `SoundPath` the threads go on with what they have begun and
`clean_system` goes on once it has been entered; the device need not deliver or ask
for a frame, and `NoFrameSleeps` and `TakenApart` do without the one-second
timeout. Nothing forces a call to arrive, to be
answered or to end, a digit to be pressed, Lua code to return, or anyone to call
`stop()`. Lua code is only bound to end by its hook. `StoppedScriptEnds` and
`ShutdownEnds` therefore exclude, by name (`OutOfReach`, `Missed`), the gap
between `is_ready()` and the creation of the Lua state (`pjs_intercom.cpp:1781`),
in which a stop sets no hook: there only the quit request can end the script, and
a script that does not read its queue is waited for without end.

## What is proved

The modules named `*Proofs` are checked by TLAPS. Their theorems hold for every
value of the constants under the assumptions `QueueAssumption` (there is a post,
quit posts are posts, the limit is a natural number, `NoThread` is no producer),
`SystemAssumption` (finitely many call identifiers, bounds are natural numbers),
`VoiceAssumption` (bounds are natural numbers), `MainScriptAssumption` (the same, at
least one ring, and the kinds of buttons and readings there are),
`ControllerLinkAssumption` (the worker and the free lock are no setters, bounds are
natural numbers), `AudioRoutingAssumption` (`Sip` is no call, there is a port),
`SoundPathAssumption` (buffers, latency and delay hold at least one frame),
`MenuAssumption` (the keys that beep are digits, the queue has room for a message,
the bound is natural) and `SipLocksAssumption` (the two locks differ and are no
call's dialog, `NoThread` is no thread, the bound is natural). `ScriptThread` has no
constants.

*MessageQueue.* The inductive invariant adds to the properties: the lock is held
exactly by the one producer inside `push`; a push in progress has dropped at most
one message and only before its insert; and, for the lost wakeup, that a message
in the list while the consumer is at `enter` means the event's flag is set or a
producer is about to set it. `NoLostWakeup` alone is not inductive, because it
says nothing of the moment between the look and the sleep. `QuitGoesFirst` rests
on three lemmas about sequences (in front, behind, tail). `QueueImplementsDeque`
maps the state to the list preceded by what the push in progress has dropped;
dropping is then a stutter, and the insert is the deque's push.

*IntercomSystem.* The inductive invariant consists of
- `CountInv`: calls that were counted suffice for the scripts still to be created,
  so that ids never run out (needed for type correctness);
- `IdsInv`: every id ever used is at most `nextSid`, so a new script's id is fresh;
- `BatchInv`: what the timer is about to delete has completed and has left
  `m_scripts`, and the shutdown has emptied `m_scripts` before it deletes;
- `FreedInv`: a deleted script has completed or never started;
- `CallInv`: a call's script names a call identifier;
- `Safe`: the three safety properties themselves.

`RegisteredNotFreed` follows from `BatchInv`: the two deleters only delete what
can no longer be looked up. `CallsResolveToOwnCall` follows from fresh ids.
`OnlyCompletedLeave` and `ScriptsLiveAsPromised` are about steps; they use the
invariant in the state before the step. `NoOrphanIncoming` needs `OriginInv` on top:
the call that an inbound script was made for is in its slot while nobody has stopped
the script. It follows from `UnstoppedCallIsMapped`, because the end of the call
then finds the script, and from `CountInv`, because a call is live while
`on_incoming_call` holds it.

*MainScript.* The invariant is stated of the record that the methods work on
(`GoodWorld`), so each method has a lemma of its own and a handler's proof cites
those of the methods it calls. It says that a ringing bell has its time, that a
call rings only for a script that is calling and is the one its phone's row names,
and that only such a script dials; `LoopInv` adds that `check_calls()` runs only
while it is calling. `RingingIsWatched` is not inductive alone: that a phone which
is dialled had no ringing call is a fact about the row, its call and the calling.
`GoodState` also says that `bell_stop` is always off, which is the finding about
the bell, and the reason why `repeats` never exceeds the option.

The news about a connection are a third part: `NewsInv` says that while somebody is
connected and the script calls, a message about that waits, is owed by the call that
connected, or is in hand with a count that is not zero. `ConnectedEndsCalling` looks
only at the moments when no message is left, so it says nothing of how one gets there.
`LightsInv` does the same for the lights: the last message of a button, in the queue
or in hand, tells whether it is down; where no message is left, a light that is out
belongs to a button that is down or, the main light, to a triggered sensor.

*ControllerLink.* `WritesOnLivePort` rests on `LockInv`: a thread that writes holds
`m_lock`, and opening and closing the port need it. `LineInv` says what packets can
be on the line; with it, `TypeCorrect` shows that the intercom never takes the
board's 0xFF ("not reported yet") for an input. The other three follow a value along
the line. `RelayInv`: the relay shows the output applied last, and the board forgets
which that was before it serves itself. `Reported`: the last report on the line, or the
one in the worker's hands, or else what the worker knows, is the board's input.
`DeliveredInv`: the value stored last is applied, or some thread, packet or handshake
still to come carries it; `NumbersInv` orders the values, so that nothing on its way is
newer than what was stored.

*ScriptThread.* `HandleInv` ties the place of the owner to the handle and the
thread: the owner is past `clean` only without a handle, and then the thread has
never run or has exited. `ImplementsScriptLife` follows from it: `Release`, which is
`ScriptLife`'s deletion, is reached only there. `LuaInv` says in which places of the
thread `m_script` may be set, `HangupInv` that the thread is past its hangup, and
`QuitInv` that a quit request which was posted is there, or was taken, or thrown
away by the script itself.

*VoiceResponse.* `OwedInv` says that a completion which is owed (`m_async`) belongs
to an operation that no report names yet, and that nothing later has been reported;
`ReportedOnce` alone says nothing of what is still to come. The parameters of a
playing file are its own (`param = op`) because `play_file` sets both under the
lock. `DigitsEndIt` and `SilentAfterStop` are inductive with the types: every method
of `VoiceOps` has a lemma (`PlayResult`, `WaitResult`...) about the record it returns.

*AudioRouting.* `MenuIsPrivate` needs that two calls never share a port
(`SlotsDiffer`) and that a call whose media was announced has one (`MediaInv`); with
these a number that passes to another call has left every menu before. `CallsInv`
says of one call that two activities on it know of each other (`RaceInv`), that the
script's port is the one of now, and that a check which is alone has put right what it
has passed. `LinksInv` says the same of two calls: `Owes` is what a check has still to
switch, and a link of which both calls are sure is as one of them wants it. Neither
follows from the properties alone, which look only at calls between their checks; the
history `doubt` is what lets the proof say when they are right.

*SoundPath.* `PlaceInv` keeps each thread in its own code, so that only one of the
two possible threads ever cancels; `EchoInv` counts the frames of the canceller
(`Latency` in all, in `lat_free`, `lat_buf`, or in use), from which `capture()`
finds a head in the list; `StageInv` says what `clean_system` has done at each
stage. `OrderInv` is proved on top of these: the two lists, one behind the other,
are in the order of playing. `NoFrameSleeps` is inductive with the places, because
both workers look at the buffer before they wait and the event stays set.

*CallMenu.* `MenuListens` speaks of the menu asleep; `DrivenInv` says the same of the
moment before, when the queue is about to be read, and for that `BusyOwes` is needed:
a port that is busy owes a completion, so that whatever ends its operation posts
one. A message is only taken out when the menu goes on to handle it, and each handler
ends with an operation of the port that owes or has posted. A prompt that does not
open posts its own completion, a queue that is too small forgets from the front and
keeps the last one. `ToldInv` says that the flag is set before IM_QUIT is posted.

*SipLocks.* A thread's state is the sequence of steps before it, so the invariant has
to say which sequences there can be. `SipLocksProofs` gives each step a type: a
*standing* says how often the thread has taken each lock and what it has still to do
with the calls (erase one, give one up, look at some), and `Effect` says from which
standing to which a step leads. The order of the locks is in `Effect`: m_scripts_mutex is
only taken by one who does not have it, a dialog only by one who has nothing, and
what may hang up only comes without the mutex. `Legal(h, s, k)` says that the sequence
leads from `h` to `k`; each operation and callback has a lemma that it leads from the
standing in which it is called to the one in which it returns. `IInv` says that every
thread's sequence leads from its standing to `Idle`, and `Fits` that the standing is
true of the locks, of the calls and of `m_calls`. `LockOrder` follows from the step at
the head of a sequence. `SessionOutlivesReader` follows because the one who gives a
call up has to erase it first, needs the mutex for it, and the reader has it.
`SomebodyGoesOn` follows the chain of those who wait: a thread that waits for a dialog has
nothing, so that whoever waits for somebody waits for one of the two other locks; the
chain ends in a thread that can go on, or in the crossing that `Crossed` names.

*What the liveness properties rest on.* A liveness property says that something
happens in the end; the prover does not do fairness, but it can show all the rest: that there is
always somebody who can go on, that his steps lead nearer to the end and nobody
else's lead away from it. Such action properties and invariants are proved for
- the messages (`MovesUp`: nothing overtakes a message but a new quit request, and the
  script is awake, or finds the flag, or is about to be woken);
- a script that was stopped (`NearerToItsEnd`: its thread has a step until it has exited,
  and a number falls with each);
- the shutdown (`NearerToDown`: each step of `stop()` or of the script that is waited for
  leads on; `AwaitedHasHeard`: that script was told, and its hook is set, unless the
  stop fell into the gap that `Missed` names);
- the completions of a port (`OwedUntilReported`: an operation that owes one stays and can
  be ended until it is reported, unless the script takes a fade back) and the digits of
  the menu (`MenuAttends`: while nothing drives the menu no digit waits, and its port is
  busy with what the next digit ends);
- the times of the bell and of the calling (`NotPostponed`: no press, visitor or answer
  puts them off, and the turn of the loop that finds them over ends both);
- the clean-up of the sound path (`NearerToJoin`: a worker that is joined never sits in a wait
  that has to time out, and each of its steps leads nearer to its end or to the end of
  the frame it has begun);
- the operations that take locks (`OnlyDeadlockIsCrossed`, above).

`WithinLimit`, `QuitGoesFirst`, `LeavesCompleted`, `QuitWaitsForScript`,
`DigitsEndIt`, `BellIsTimed` and the type invariants are stated in the modules, and
`LeftWhenTold` (the menu is left only when the script was told to exit),
`QueueKeepsLimit` (of the menu's queue), `OnlyDeadlockIsCrossed` and the properties
of the last paragraph in the modules of the proofs. They are left to the proofs, no
run checks them.

Every safety property and every refinement that a run checks is proved. Only
model-checked are the liveness properties themselves, that is the step from what is
proved of them to "in the end" by fairness, which is out of the prover's reach (as is
`ENABLED`), and the two properties that do not hold. No module uses recursion.

## Not modelled

The components that `PROJECT.json` marks `not_modelled`, for the reasons given
there: the emulator controller and the audio client are tools for development; the
configuration and the start of the program are read once, in one thread; the video
server is a program of its own, whose camera thread and clients would need a model
of their own (its use count, `wapa_http_server.cpp:1225`, is the first thing to look
at); generated and vendored code. Within the modelled ones: formatting, logging,
sound samples and clocks (a timeout that is set may elapse at any time); the
initialisation stages of `start()` and its error paths (a thread that cannot be
started leaves a call script that nobody reaps, `pjs_intercom.cpp:1599`: the models
contain it, the code promises nothing); in the registry the tags of calls and the
connected count, which `MainScript` has; the dialogues of `call.lua` before the menu;
of the main script the sounds, the hook of `user.lua` and the queries that fill its
options and its list of phones; of the controller the temperature for the fan, the
distance readings, the bytes of a packet (`serial/comm_prot_parser.h`), the scripts
of the lights and the older Arduino sketch; `pjs_audio_combine` and
`pjs_media_sync`, which the program does not use.

## What is left

1. What `LinkComesBack` and `SyncReturns` ask of the code without the fairness, as it
   is proved for the other liveness properties; for `OperationsEnd` a measure of the steps
   that a thread has before it.
2. `CommParser`, a pure function checked against a reference parser over all short
   byte strings.
3. `CameraSharing` of the video server.
