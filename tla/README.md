# TrainboardFw: specification, model checking and proofs

TrainboardFw is the firmware of an ESP32 board that shows the positions of the
Swiss trains with about 300 LEDs. It fetches a history of 45 frames from a
server, then one frame a minute, fades from frame to frame, plays the history
back on a push of the button, and shows built-in fake data when there is no
network.

This directory models the firmware in TLA+. TLC checks the models on small
instances, TLAPS proves the theorems of the `...Proofs` modules for all values of
the constants. `PROJECT.json` maps every definition to the lines it stands for.
Paths below are relative to the repository.

## The system

| component | state | operations | talks to |
|---|---|---|---|
| main loop, `src/main.cpp`, `src/Application.cpp` | `last_time_stamp`, the event queue (16 places) | `loop`: push TICK when the queue is empty and 20 ms have passed; hand the front to the four dispatchers in turn; pop it | everybody, by calls; the queue comes back |
| connection listener, `src/Connectivity/ConnectionListener.cpp` | WifiNok / ServerNok / ServerOk, one tick counter | `Dispatch` on TICK | pushes NETWORK_UP, CONNECTED, DISCONNECTED, NETWORK_DOWN; pings the server |
| state machine, `src/StateMachine/`, `lib/fsm/` | the state, counters of failed polls and conversions, delegates of Polling | `ProcessEvent` of nine states, `Enter`, `Exit`, four transitions with an action | timers, data manager, LED manager, network; pushes signals to itself |
| push button, `src/Periphery/PushButton.cpp` | debounce counter | `Dispatch` on TICK | pushes SHORT_PUSH |
| network, `src/Connectivity/*_Blocking.cpp` | link, server, credentials | connect, disconnect, reset, ping, get data, OTA; all block | WiFi task and server, which change on their own |
| data manager, `src/Database/DataManager.cpp` | ring of 45 frames, reader and writer mode, index of the history reader | save a history, save a frame, read the newest, read the next | Polling writes, Transitioning reads |
| data converter, `src/Led/DataConverter.cpp` | none | validity of a frame and of a history, conversion to LEDs | Polling, Transitioning |
| LED manager, `src/Led/LedManager_Trainboard.h` | the LEDs that are on, fading in, fading out, swapping; counter and flag of the cross-fade | status colour, test pattern, new frame, clear, refresh | the states; writes the strips |
| timers, `src/Util/Timer.cpp`, `TimerTicker.cpp`, `Mutex.*` | state, counter and duration of each timer | start, stop, reset, halt, continue, restart; tick by a thread of its own | the states; the ticker thread |
| ticker, `src/Util/TimerTicker.cpp` | a vector of timers | start the thread, register a timer; the thread ticks all every 20 ms | `setup()` registers while the thread runs |
| light sensor, `src/Periphery/LightSensorLtr303.cpp` | the filtered brightness, a counter | look for the chip, sample it every sixth TICK | the I2C bus; gives the LEDs their brightness |
| start, `src/main.cpp`, `src/Application.cpp`, `BoardConfiguration.cpp` | the version of the board, a count of restarts | `setup`, `Application_Init` | everybody, once, in an order that matters |
| fake data, `src/Database/FakeData.cpp` | 45 constant frames | read by the reader of the data manager | |
| OS wrapper, LED drivers | the colours on the strips and their brightness | output | FreeRTOS, FastLED |

### What is hard about it

* Three parties act between any two steps of the main loop: the WiFi task, the
  ticker thread, the user. Within one loop turn the listener may see another
  network than the state machine a moment later.
* One queue serves commands and notifications. The listener's event is queued in
  front of the answer of the state to the same tick, so a state can be left before
  its own signal arrives, and the next state could take it for its own. Nobody
  asks whether the queue is full.
* CONNECTED and DISCONNECTED are edges: a state that ignores one never hears of
  it again.
* The modes of the data manager are global and written by handlers and
  transitions in several places; delegates, store and LEDs have to agree with them.
* Most operations of timers and LEDs refuse silently in some states, and their
  results are ignored: `Stop` on an expired timer, `StartOneShot` on one that is
  not stopped, `SetStatusLed` during a cross-fade, `SaveData`.
* Frames have a variable length that is parsed in three places. They may name a
  LED twice, as every frame of the fake data does.
* `millis()` has 32 bits, and so has the sum of a time stamp and a period. Calls of
  several seconds block the loop.
* `setup()` registers timers in a vector that the ticker thread already iterates.

### What makes each component correct

* Main loop and queue: never overflows; every signal finds the state it is meant for.
* Listener: announces every change once, alternating, one at a time; converges.
* State machine: modes, delegates, store, LEDs and timers fit the state; polling
  gives up; no state but Connecting keeps the board forever.
* Timers: an operation is one step whatever the ticker does; a run has its length
  and ends; `Exit` leaves its timer stopped.
* Data: only well-formed data enters, all of it is stored, the readers see the
  newest frame or the next one.
* LEDs: at the end of a cross-fade they show the frame and nothing else; on the
  way they move towards it.
* Clock: TICKs go on, at a distance and in time, also after 49.7 days.
* Start: the loop finds everything it relies on; no timer is left out.
* Brightness: follows the light, without jumps, whatever the bus does.

## The modules

The core is one state machine composed from a module for each part. Timer,
Database, LedManager and Device each show in detail what the core takes for granted.

| module | models | notes |
|---|---|---|
| `EventQueue` | `StateMachine/Signals.h` | `queue`; `Post` is `queue.push` |
| `Connectivity` | `WifiProvisioning_Blocking.cpp`, `ServerCommunication_Blocking.cpp` | `wifi`, `server`, `creds`; each blocking call by its result and effect, the rest of the world by `NetworkChanges` |
| `ConnectionListener` | `ConnectionListener.cpp` | one operator for each state function, the tick counter shared as in the code |
| `ConnectionStatus` | abstract | what the listener promises; only the way back to Starting is a restart |
| `PushButton` | `PushButton.cpp` | the pin is free in every tick |
| `Display` | the LED manager as the core sees it | a record and pure operators |
| `Trainboard` | the nine states, their transitions, `Fsm.cpp`, timers, data modes | an operator for each `ProcessEvent`; `Execute` runs Exit, action and Enter in the code's order |
| `Firmware` | `main.cpp`, `Application.cpp` | composes the above; `pc` says who sees the front event next |
| `BoardProofs` | | proofs about Firmware: types and the length of the queue; modes, store, LEDs and timers fit the state; the order of signals, and with it that Polling gives up, that the listener implements ConnectionStatus and that a push resets in Starting |
| `OneShotTimer` | abstract | what a timer promises |
| `Timer` | `Timer.cpp`, `TimerTicker.cpp`, `Mutex` | one timer, the mutex, the main loop's sequences of calls, the ticker's three steps |
| `TimerProofs` | | proofs: Timer implements OneShotTimer |
| `DataParameters` | `FwConfig.h` | sizes |
| `DataConverter` | `DataConverter.cpp` and both writers' parsing | one message from reception to the store, byte by byte |
| `ConverterProofs` | | proofs: what is asked for is accepted, what is accepted is stored whole and fits |
| `FrameStore` | abstract | what was received last and whether it is stored; the list: the frames of the last history and the live frames since |
| `DataStore` | `DataManager.cpp`, `FakeData.cpp` | the ring, its writers and readers; the ring around the fake data |
| `StoreProofs` | | proofs: DataStore implements FrameStore |
| `Database` | `StatePolling`, `StateTransitioning` at these two | composes DataConverter and DataStore; `Received` is the message as frames, told from how a history is built and not from how it is cut |
| `DatabaseProofs` | | proofs: Database implements FrameStore |
| `LedManager` | `LedManager_Trainboard.h`, `FastLedStrip.h`, `FastLedPresenter.h`, `Led.h` | every LED, as written (`strip`) and as shown (`latched`); frames are lists as the server sends them; carries the `Display` record along to compare |
| `LedProofs` | | proofs: the LEDs show what Display says, and do not flicker on the way |
| `MainLoop` | `loop()` of `main.cpp` | the clock, the time stamp, and how long the loop has slept |
| `LightSensor` | `LightSensorLtr303.cpp` | the filter and its counter; light and bus change on their own |
| `TimerTicker` | `TimerTicker.cpp` | the vector, `push_back` in two writes, and the thread that reads it |
| `Boot` | `setup()`, `Application_Init`, `BoardConfiguration.cpp` | `pc` walks through `InitSequence`; composes TimerTicker and LightSensor |
| `Device` | what is around the state machine | composes MainLoop and Boot; a TICK is one dispatch that takes some time |
| `DeviceProofs` | | proofs: when TICKs come, the filter stays in range and moves slowly, the loop finds everything, a round ticks each timer once, types of Device |
| `NumberLemmas` | | lemmas: least and greatest numbers, induction, recursion, division |

Correspondence of the core's state: `fsm` is `Fsm::actual_state_`; `reader`,
`writer` are `_data_reader_mode`, `_data_writer_mode`; `store` is the fill level of
`_real_data` ("short" after a save that left fewer than all frames); `delegate` is
the mode whose functions Polling holds; `fail_cnt`, `conversion_fail_cnt`,
`debounce_cnt`, `cnt` are the counters of these names; `timer` the state of the
five registered timers; `led` the LED manager.

Operators with "Mutant:" in their comment are wrong on purpose: each is put in the
place of the definition below it to see that a property notices.

## Abstractions

* Frames: the core keeps only where the picture came from, LedManager the
  colours, Database the bytes.
* Time: the core lets a running timer expire at any moment, which includes the
  real one, and a TICK come whenever the queue is empty. Timer counts ticks.
  MainLoop has the clock in milliseconds; `wraps`, `since` and `waited` are there to
  state properties, and stop at the smallest value that is long enough.
* Device leaves the state machine to the core: a TICK, with all that is sent in answer
  before the queue is empty again, is one dispatch of 0 to `MaxBlock` milliseconds.
  The time of `setup()` is left out of the clock, and the signals a button or a
  listener adds only make a dispatch longer.
* The race of `RegisterTimer` with the ticker thread is undefined behaviour in C++.
  The model takes each of the two writes of `push_back`, slot and size, to be atomic,
  in either order, and the thread to read the size once when a round begins (the
  range-for of `Tick`) and the slots one by one. `etl` is a library outside of the
  repository.
* Counters that are only compared with a limit stop at it: `transition_cnt` at
  `TransitionTicks`, the debounce counter one above the shortest push.
* Blocking calls are one step. The rest of the system does not run meanwhile in
  the code either, except for the WiFi task and the ticker, whose steps come before
  or after in the model; a result is therefore as old as in the code.
* A restart after an update resets every variable but the world outside.
* Timer takes the mutex timeout of 10 ms not to pass; the mutex is held for a few
  instructions (`Mutex.cpp` 32-36 would go on without the mutex).
* `strip` is what the LED manager wrote, `latched` what the LEDs show since the last
  `Show()`. `SetTestLeds` and the clearing in `SetLeds` do not show what they write;
  `SetBrightness` shows everything when the brightness changes, which LedManager lets
  happen at any time. `Display` keeps the test pattern as what was asked for.
* Colours are a few values; the scaling of a LED is the code's, 0 to 255.

## Runs

| run | module, cfg | shows | states |
|---|---|---|---|
| firmware_safety | MCFirmware | 12 invariants and action properties, and the listener refines ConnectionStatus, under every interleaving | 2.5 million |
| firmware_liveness | MCFirmwareLive | states are left, the listener converges | 0.8 million |
| timer | MCTimer | Timer refines OneShotTimer; `Exit` stops; runs end | 1 758 |
| database | MCDatabase | what is asked for is accepted, what is accepted is stored whole; the rings hold what was received, as FrameStore says | 572 808 |
| led_manager | MCLedManager | the LEDs show what Display says; no flicker | 250 570 |
| device | MCDevice | the board boots; TICKs around the wrap of the clock; timers registered under the ticker; the brightness settles | 456 096 |
| connection_loss, reconnect | MCFirmware | two disagreements with the state chart and a comment | |
| full_store | MCDatabase | a disagreement about lengths | |
| ghost_leds | MCLedManager | a cross-fade cut short | |
| last_named | MCLedManager | a LED named twice | |
| restarts | MCDevice | a count that a restart clears | |

### Bounds, and why they are enough

* `QueueSize = 4`: four pending signals are reached, three would overflow
  (QueueBounded fails for it); the theorem covers every size from 4.
* `RecheckTicks = 1`, `CheckTicks = 0`, `ShortPushTicks = 0`, `TransitionTicks = 2`,
  `MaxFails = 2`, `MaxConversions = 2`: each is the smallest value at which both
  "not yet" and "now" occur where the property needs both; the counters of the code
  differ only in how often they are "not yet". The liveness and violation runs use
  smaller ones still, for the size of the behaviour graph.
* Timer: `TickPeriod = 2`, durations 0 (expires at once), 1 and 2 (refused), 3, 5
  and 7 (one, two and three ticks), `CounterSize = 5`, so that the wrap of the
  counter is reached, as it is in the code only by a restart that never had a duration.
* Database: a byte has 2 values, an LED 1 byte, a frame at most 1 LED, a history 2
  frames, and every message up to two full buffers is tried. Counts beyond
  `MaxLedsOn` occur. `MaxLedsOn < ByteValues`, unlike 312 and 256 in the code: the
  passing run is about frames of at most 255 LEDs, `full_store` about the others, and the
  theorems about all. DataConverter by itself was checked once with up to 2 LEDs and
  histories of 3 frames, where counts need both bytes.
* Database, fake data: two frames that differ, so that their order shows.
* LedManager: one strip of two LEDs (the status LED and another), and two names that no
  strip has, one past the end of the strip and one of a missing strip; three colours, so
  that an old, a new and a repeated one can differ; every list of up to two entries,
  which is what it takes to name a LED twice; 6 ticks, so that both halves have
  several steps. One LED with lists of three entries was checked once, too.
* Device: a clock of 7 ms with a period of 2, so that it wraps every few TICKs and
  each position of a time stamp before the wrap occurs; `MaxBlock = 4` is longer than
  a period and a millisecond, without which the stall would not occur. A byte has 4
  values, the weight is 4: the filter has 16 values and takes as many steps to settle
  as it may. Light is dark or brightest, which are the farthest apart. Two timers and
  room for three, pins of no version and of one, restarts up to 2. The exceptions in
  `TicksComeInTime`, `TicksAreSpaced` and `TicksGoOn` are all reached: without any of
  them TLC finds a counterexample.

### Fairness

`Firmware!FairSpec` has weak fairness of `MainLoop` (`loop()` is called for ever
and every blocking call has a timeout) and of each `TimerThread(id)`: a running
timer expires, or is stopped. The latter is what `Timer` shows as `RunsEnd`, from
strong fairness of the ticker's lock (FreeRTOS hands a mutex to the waiting task
of higher or equal priority, and the main loop sleeps in between) and weak
fairness of the code it runs with it. Nothing is assumed of the network, the
server or the user.

`Device!FairSpec` has weak fairness of the main thread, for the
same reason, and strong fairness of a sample by a working sensor: the chip measures
every 100 ms and is asked every 120, so it does not say for ever that there is nothing
new. Nothing is assumed of the ticker thread there.

`StatesAreLeft` leaves out Connecting, which
waits for credentials, and playback of the history, which is meant to go on.

### What the properties say, by hazard

* Queue and signals: `QueueBounded`, `SignalsReachTheirState`.
* Stale modes: `DelegatesMatchWriter`, `PictureMatchesMode`, `LiveShowsLiveData`,
  `StoreReadAfterSave`.
* Refusals nobody looks at: `StatusLedShown`, `TimersFollowState`,
  `MinuteStartsOnEntry`, `ExitStops`, `StoredWhole`.
* Counters: `PollingGivesUp`, `TimerIsOneShot`, `StoreKeepsLastFrames`,
  `AcceptsWhatIsAsked`.
* Edges: `StatusAnnounced`, `ListenerConverges` (with an interval of 0, so that its counter
  plays no part), `StatesAreLeft`.
* Two inputs in one tick: `PushWhileStartingResets`.
* LEDs: `ShowsPicture`, `UnchangedStayLit`, `NoFlicker`.
* The wrap of the clock: `TicksComeInTime`, `TicksAreSpaced`, `TicksGoOn`.
* Starting up: `LoopFindsEverything`, `RoundTicksEach`.
* Fixed-point arithmetic and a failing bus: `NoJump`, `BrightnessSettles`.
* Fake data read from a ring that is empty: `StoreKeepsLastFrames`.

## Disagreements between code and documentation

1. *connection_loss*: losing the network during a cross-fade enters Offline without
   fake mode.
2. *reconnect*: CONNECTED is ignored outside of Offline; when it falls into the
   cross-fade of the offline refresh, the board stays offline with the server
   reachable.
3. *full_store*: the history writer reads one byte of a two-byte count.
4. *ghost_leds*: `SetLeds` during a cross-fade forgets what is half way; LEDs stay
   dark or lit. (1) is how the board comes to call it.
5. *last_named*: of two entries for one LED the last should be taken
   (`test_SmoothTransition.cpp` 325). An entry that is on already does not fade in, so
   that the other one stays.
6. *restarts*: `restart_cnt` in `setup()` is in RAM and never reaches 3, so that a board
   whose version cannot be read restarts for ever, and the message of `main.cpp` 46,
   "restarted 3 times. Now just waiting for power cycle", is never sent.

Seen while modelling, without a run of their own. The exceptions that properties name
are all reached.

* `StateConnecting` sends FAKE when it cannot connect (line 70) and has no branch for it;
  the state chart has an edge (`SoftwareArchitecture.drawio` 405, 413). The board asks for
  credentials again and again.
* The state chart sets live mode on a successful ping (430), `StatePinging.cpp` 65 does
  not: a board that was offline loads the history and shows fake data.
* Polling gives up at the fifth failure (`StatePolling.cpp` 131-134), in the state chart
  when "poll_cnt > 5" (442). `PollingGivesUp` holds of both.
* DISCONNECTED may be queued before the FAKE of Polling's last failure; Transitioning
  takes that FAKE for its own and begins the cross-fade again (`StateTransitioning.cpp`
  59, `SignalsReachTheirState`).
* The result of `SaveData` is ignored (`StatePolling.cpp` 121), where the state chart has
  "Failure: FAKE" under "Save Data" (442).
* `SetTestLeds` (`LedManager_Trainboard.h` 62) does not show the pattern it writes;
  `test_StatusLeds.cpp` 127 and 154 and the state chart, "All Leds white", expect it.
* A history whose last frame has no LEDs is refused (`AcceptsWhatIsAsked`), although
  `DataConverter.h` 58 makes nothing but the frames and their number a condition. Such
  frames come at night.
* Every 49.7 days (`TicksComeInTime`, `TicksAreSpaced`, `TicksGoOn`): if `millis()`
  wraps during the dispatch of a TICK that came more than a period before the wrap,
  the loop sleeps until the clock has gone round; in the last period before the wrap
  every turn of the loop is a TICK; and if `last_time_stamp + 20` is 2^32 - 1 no TICK
  ever comes again.

## Proofs

All theorems hold for every value of the constants that the named assumptions
allow: intervals natural and `CheckTicks <= RecheckTicks`, limits and
`TransitionTicks` at least 1, `QueueSize` at least 4; for Timer, a duration in ticks
below the width of the counter; for the data, a byte, a LED, a frame and a history of
any size, and as many built-in frames as a history has; for the LEDs, any strips,
any names and colours; for Device, a period shorter than the clock, a byte that the
weight of the filter divides, and timers that differ and have room in the vector.

Every safety property that a passing run checks is proved: invariants, action
properties and refinements.

**`BoardProofs`**, in three parts.

* `TypeCorrect` (`TypeOK`) and `QueueNeverOverflows` (`QueueBounded`), from the
  inductive invariant `IInv == TypeOK /\ QueueInv`. `QueueBounded` alone is not
  inductive, since nothing in it says why a handler finds room. `QueueInv` says how
  long the queue may be at each `pc`: what was there when the front came up, and at
  most one signal from each dispatcher before. The next turn begins with one signal
  less, and a TICK is only added to an empty queue; every other event is answered by
  no more than it takes away. `TypeOK` needs `QueueInv` in turn: `Tail` of an empty
  queue would not be a queue.
* `DelegatesMatch`, `ReadAfterSave`, `LiveIsLive`, `PicturesMatch`,
  `StatusColourShown`, `TimersFollow`, `WholeMinutes`, all from one invariant,
  `BoardIInv`. The properties need each other: that live data is shown in Live rests on
  the cross-fade to a live frame in Transitioning (`FadeInv`), which rests on there
  being a frame to convert (`StoreReadAfterSave`), which rests on DATA_OK being sent
  after the data was saved (`DataOkInv`). `FitsState` is what a transition must be
  given and `ExecuteBoard` shows that Exit, action and Enter then leave what fits;
  `BoardStep` goes through the handlers. `WholeMinutes` is the step from it.
* `SignalsReach`, `PollingEnds`, `ListenerImplementsStatus`, from `SignalInv`. Its core
  is `OrderInv`: the listener answers a TICK before the state, the button after it, so
  that only the listener's signals stand before a command (a signal a state sends to
  itself), and at most one of them. Those leave every sender of a command where it is,
  but for Polling (`KeepsSender`). FAKE is the command that another state takes for its
  own: `FakeInv` says what a FAKE on its way finds, and `FailsInv`, with the last part of
  `OrderInv`, that the failures counted and the FAKE that follows them belong to one visit
  of Polling. `UnseenAfterBoard` and its siblings say what a turn
  does to the signals not seen yet. `PushResets` is a step of its own: whatever else
  was queued, a push that Starting sees leads to Resetting.

**`TimerProofs`**: `TimerTypeCorrect`, `TimerImplementsOneShot`, `ExitLeavesStopped`.
Half a tick (counted, not yet compared) has not happened for the abstract timer;
`MutexInv` keeps the client out of it and `CountInv` says that a run has not counted
past its end and that a stopped timer starts from zero, although `StartOneShot` does
not clear the counter.

**`LedProofs`**: `LedTypeCorrect` (`TypeOK`), `LedsShowPicture` (`ShowsPicture`),
`LedsStayLit` (`UnchangedStayLit`), `LedsDoNotFlicker` (`NoFlicker`), from `LedInv`. The
last three are about `PatientSpec`, in which no cross-fade is cut short: without that
they are false (*ghost_leds*). `ShowsPicture` speaks of the end of a cross-fade, so
`FadeInv` says for every LED and every tick before the end how far it is, and
`PictureInv` what the three lists hold: what is new, what is gone and what changes its
colour, computed from the frame before. `EndInv` is that a cross-fade that is over was
counted to its end. The lists are made by loops (`Only`), whose members `OnlyIs` gives; of
which entry for a LED is the last, `LastFor`, only what its definition says is used.
`NoFlicker` rests on the order that division keeps, and needs two ticks (the code has
100): with a single one a LED that changes its colour would jump.

**`ConverterProofs`**: `StoredFits` (`TypeOK`), `AskedIsAccepted` (`AcceptsWhatIsAsked`),
`ValidIsStoredWhole` (`StoredWhole`), from `ConverterInv`, which says that a message went
where the validator sent it and what the writer made of it. The work is in the loop that
cuts a message. `CutRecursion` unrolls it into rounds. `LoopCuts`: what was cut off is the
message so far, in frames as long as they state. `HistoryLoop` and `AcceptsHistory`: of a
concatenation of frames each round cuts the next one, the condition for the last
being that it has LEDs. `FullLoop` and `WriterAgrees`: if the validator's loop came to
all its frames and the first bytes of their headers are zero, the writer's loop goes the
same way. `StoredFits` needs both cases: if a byte counts no further than a frame may
have LEDs, the writer's frames fit by themselves; if it does, valid counts have a zero first
byte and the writer's frames are the validator's. With 256 and 312 it is the first, so
a misread history is cut wrongly (*full_store*), but never past the end of a slot. `OneHistory`: as each frame says how long it is, no
message is the concatenation of two histories.

**`StoreProofs`**: `RingImplementsList`. `StoreInv` says that the ring is empty or
full, so the slot a live frame is written to is the free one and the oldest frame
falls out, while the running index stays inside; and what the list becomes is what was
received (`HistoryStep`, `LiveStep`). `FakeStep` is the reader of the fake
data, whose index never comes to the slot behind the last frame.

**`DatabaseProofs`**: `DatabaseTypeCorrect` (`TypeOK`) and `DatabaseImplementsList`
(`StoreKeepsLastFrames`), `DatabaseAccepts` and `DatabaseStoresWhole` put the two together.
A behaviour of Database is one of the converter (`StepOfConverter`), and one of the store
(`StepOfStore`): what the writers store are frames whose concatenation is the message
(`FramesAreStored`), and so the history that was received, of which there is but one
(`ReceivedHistory`, by `OneHistory`); then the theorems about the parts apply. The first two have the condition `[]ValidCountsFit`, that no frame of a history to be
stored has 256 LEDs or more, without which *full_store* happens. `SmallFramesAreKept`: with
`MaxLedsOn < ByteValues`, as in the run `database`, the condition is met.

**`DeviceProofs`**, in three parts.

* `LoopWakesInTime`, `TicksKeepDistance`, from `ClockInv`, which says what the clock
  and the time stamp are to each other before and after the wrap: before, their
  difference is the time that has passed; after, it is known only that it is enough,
  unless the sum wraps, too. `ElapseTime` and `TickDueTime` get rid of the remainders
  first.
* `BrightnessMovesSlowly`, from `SensorInv`: the filter is within two bytes, so that the
  mask cuts nothing, and the brightness is its upper byte. `FilterMoves` is the
  arithmetic, by multiplying out instead of dividing.
* `LoopIsPrepared`, `TimersTickOnce`, `DeviceTypeOK`. `VectorInv` says that the vector
  holds the first timers of the board in their order and nothing else, in each of the
  three states of `push_back`; `AfterSteps` is the order of `Application_Init`, from
  which it follows that no registration is refused (`Accepted`). `RoundInv` finds each
  timer that was ticked at an index the round has passed, and each that is due at one
  before its end; as no timer stands in two slots, none is ticked twice.

**`NumberLemmas`**: the theorems of the library about induction and recursion take
operators, which the provers cannot instantiate. Here an induction is over a set
(`SetInduction`, `UptoInduction`, from the well-foundedness of the naturals), and the step of
a recursion is a function (`RecursionDefines`), so that loops over lists and messages can be
reasoned about. The loops of the models are therefore recursive functions of one number.

Only model-checked: everything about liveness (`StatesAreLeft`, `ListenerConverges`,
`RunsEnd`, `TicksGoOn`, `BrightnessSettles`), which is out of the
prover's reach, and the six disagreements, which are counterexamples.

## Not modelled

* Halting, internal transitions and re-entrancy of `Fsm`: not used.
* `DataMgr_Reset`, called by tests only.
* The colours and positions of the fake frames: data.
* A mutex that is not had within its timeout (`Mutex.cpp` 32-36).
* HTTP, TLS, the configuration portal, the OTA library, FastLED's output, FreeRTOS,
  logging, the names of versions and signals, pins.

## Plan

Done, in this order: the core and its runs; its types and queue proved; Timer;
Database; LedManager; the proofs of the core's other invariants, of Timer and of the
store; frames that name LEDs twice; the fake data; the clock, the light sensor, the
registration of timers and the start, put together in Device, with their proofs; the
proofs about the LEDs, the converter and the database.

Next:

1. The core's `Display` as an abstraction of LedManager, proved operation by operation,
   so that `StatusLedShown` and `PictureMatchesMode` are about LEDs.
2. A mutex that times out, with both threads in Timer going on without it.
