# octo_tachymeter: specifications, model checking and proofs

octo_tachymeter measures the speed of up to eight brushless motors with hall
sensors on an STM32F4 board that runs ChibiOS, and streams it over a serial
line. This directory holds TLA+ specifications of its control logic, the TLC
configurations that check them, and theorems that TLAPS proves about them.
`PROJECT.json` lists runs, theorems, findings and hazards, and maps every
definition to the lines of code it models.

    tlc -workers 2 -config MCStreamControl.cfg MCStreamControl.tla
    tlapm StreamControl_proofs.tla

## 1. The system

### Components

| component | state it keeps | operations |
|---|---|---|
| streaming life cycle, `rpmMsg.cpp` | `streamerThd`, the working area `waStreamer`, `psa[8]` | `rpmStartStreaming()`, `rpmStopStreaming()`, the thread `sensorStreamer()` |
| calculated parameters, `userParameters.cpp` | `calcParam`: divider, `widthOneRpmHall`, ... | `CalculatedParam::cache()` |
| user parameters, `userParameters.*` | `userParam`: `runningState`, `nbMotors`, magnets, rpm bounds, sensor type, message rate, filter sizes, baud rate; its record in the EEPROM emulation | setters, `storeConfToEEprom()`, `readConfFromEEprom()` |
| period sensing, `periodSense.*` | per input: `icup`, `config`, `widthOneRpm`; static: `indexer`, `winAvg[]`, `winErr[]`, `totalErrorCount[]` | `setIcu()`, `stopIcu()`, `resetIcu()`, `setDivider()`, `getRPM()`, and the capture interrupts `period_cb`, `overflow_cb` |
| message handlers, `messageImplChibios.hpp` | none of their own | `runOnRecept()` of MessPerSecond, StartStopMeasure, MotorParameters, GetTachoStates, FilterParam, Eeprom |
| main thread, `main.cpp` | where it is | load the configuration, start the line, start streaming, wait for USB, start the console, wait for unplug, reset |
| console, `ttyConsole.cpp` | the shell thread, the line editor, the ticks of the last `threads` | `conf` with its table of 15 entries, `threads`, `restart`, and debugging commands |
| led, `led_blink.*` | the flash counts | one thread that blinks for ever, `setFlashes()` |
| inputs: `ICU_TIMER` of `rpmMsg.cpp`, `mcuconf.h` | none: tables | which timer captures which input, and the clock it counts |
| host programs, `TEST_STREAM/`, `linux/` | the parser's state, the GUI's fields | parse frames, send commands |
| libraries not in this repository | frame reception, UART, EEPROM emulation, window averages, ChibiOS | |

### How they interact

Four threads share `userParam`, `calcParam`, `streamerThd` and `psa[]` with no
lock: `main()`, the receive thread (it runs each handler to its end before it
takes the next frame), the shell, and the streaming thread. The capture
interrupts write the windows the streaming thread and the shell read.

`runningState` says whether the board *should* stream, `streamerThd` whether a
thread *is known*, and the thread itself whether it *does*. The handlers of
StartStopMeasure and MotorParameters decide on the first,
`rpmStartStreaming()`/`rpmStopStreaming()` on the second, the interrupts on the
third. Nearly everything that can go wrong is these three falling apart.

    main: readConf -> messageInit -> start if Run ... USB: runningState = Stop -> shell -> reset
    receive thread: Run -> start;  Stop -> chThdTerminate, chThdWait;  MotorParameters if Stop;  Eeprom
    streaming thread: cache, setIcu for each motor, { Rpms, sometimes Errors, sleep }*, stopIcu, exit

### Scheduling facts the models rest on

- Every thread has priority NORMALPRIO and `chconf.h` sets
  `CH_CFG_TIME_QUANTUM` to 0: a thread keeps the CPU until it blocks. It blocks
  in a send (the UART transfer), in `chThdWait()`, in a sleep. So one action of
  `StreamControl` is one run of one thread from a blocking point to the next.
  Sends do block, and `cache()` and `setIcu()` send: that is where the
  interleavings come from.
- Interrupts preempt every thread, so in `ErrorWindow` an action of the thread
  reads one window. `mcuconf.h` gives all capture interrupts one priority, so a
  callback is one step.
- The kernel's tick is the core's SysTick (`CH_CFG_ST_TIMEDELTA` is 0), at
  10 000 per second; no timer of an input is used for it.
- The default build has `EXECMODE = OPT_SPEED`: `TRACE` is not defined,
  `osalDbgAssert` is empty, `OPTOCOUPLER_ON_BOARD` is 0, `UPDATE_TOTAL_ERRORS`
  is 1.
- Division by zero yields 0 on the Cortex-M4 (no trap is enabled); a timer
  input clock is 84 MHz (`TIMER_FREQ_IN`) or twice that.

### What is hard, and what makes each part correct

| component | hard behaviour | correct when |
|---|---|---|
| life cycle | guard read before a call that blocks; Stop waiting for a thread that has not run yet; two threads on one working area | `streamerThd` tells the truth, one thread at most, a Stop ends and is honoured, a start streams or ends |
| configuration under a living thread | `nbMotors` is re-read by every loop of the thread | it does not change while the thread lives; no null `icup` is read, no array overrun |
| captures | the static `indexer` must go back to 0 | the drivers that capture are those of the motors in use, each with its own window |
| calculated parameters | unsigned truncation, 24-bit float, 16-bit registers and messages, two clocks, a second `cache()` whose verdict is ignored | the period at `smin` fits the counter, the prescaler is the divider, the speed is right within the promised resolution |
| error windows | interrupts between sum and copy; a check per 64 messages of a window of 64 measures | bad sensors are reported, losses are bounded |
| settings and the host's panel | Run is five messages, each of which may be refused; a rate becomes a period and a rate again; a filter size is corrected by the library; a load is not asked about | the panel shows what the board uses, no refusal goes unnoticed, a Run that should change nothing changes nothing |
| speeds | static windows and time stamps that an earlier spin, session or noise has filled; a standstill is the absence of an event | a speed is of this spin, a motor that stands is told to |
| inputs | timers on two buses, a table and a clock tree in two files | the inputs tick alike |
| USB | level read before the edge is armed, twice | `main()` waits for an edge that can come, a plug gets a shell |
| led | the counts change in the middle of a sequence | dark between sequences, an undisturbed round shows the counts |
| `conf` | ranges in two files; getters that write; a state that `store` keeps | what it takes starts, what it showed is kept, a stored board is silent |
| `threads` | ticks kept by place in a registry that changes between two commands and between two lines | a line has the ticks of the thread it names |
| host parser | a lost byte shifts the length; a callback that dies leaves the state behind | it finds the frames again at a bounded cost, and gives out nothing that was not sent |

`PROJECT.json` "hazards" lists these at their lines, with the properties that
cover each, or the reason none does. Some properties hold only with an
exception, a history variable of the model that says when the hazard has struck:
`Disturbed`, `missed`, `moved`, `unasked`. They delimit the hazard (it does no
harm but there) and say nothing inside the exception; sections 2 and 3 name it
for each.

## 2. Modules

| module | models | role |
|---|---|---|
| `StreamControl` | the life cycle: four threads, `userParam`, `streamerThd`, `psa[]`, EEPROM as one record | core |
| `StaticThread` | the contract of ChibiOS for a thread on a static working area | abstract specification, implemented by `StreamControl` |
| `MCStreamControl` | constants of the small board | for TLC |
| `StreamControl_proofs` | seven theorems | TLAPS |
| `CalcArith` | the arithmetic of `cache()`: operators, no state | used by `CalcParam` and `ConfConsole` |
| `CalcParam` | what a session programs and measures with it | component |
| `IcuTimers` | `CalcParam` with the eight inputs: timers and clocks | composition |
| `MCCalcParam` | the clock, stored and received configurations | for TLC |
| `CalcParam_proofs` | five theorems, about `CalcParam` and `IcuTimers` | TLAPS |
| `SpeedSense` | one input: sensor, callbacks, window, time stamp, totals, speed | component |
| `SpeedSense_proofs` | two theorems | TLAPS |
| `ErrorWindow` | error windows, interrupts, the summing and copying thread | component |
| `ErrorWindow_proofs` | two theorems | TLAPS |
| `HostPanel` | the panel of `octoCmd.pl`, the two lines, the six message handlers, the settings, the EEPROM record, power cuts | composition of host and board |
| `HostPanel_proofs` | seven theorems, about `HostPanel` and `HostLink` | TLAPS |
| `HostLink` | frames, a line that loses bytes, the host's parser | component |
| `MCHostLink` | its payloads | for TLC |
| `UsbWatch` | `main()` step by step against the cable and the USB host | component |
| `LedBlink` | the thread of the flash LED, `setFlashes()` | component |
| `Board` | `UsbWatch` and `LedBlink`: `main()` tells the LED its counts | composition |
| `Board_proofs` | five theorems | TLAPS |
| `ConfConsole` | `conf`: table, abbreviations, settings, record, boot | component |
| `MCConfConsole` | words, numbers, records at the bounds of the ranges | for TLC |
| `ConfConsole_proofs` | five theorems | TLAPS |
| `ThreadLoad` | `threads` against the registry of the kernel | component |
| `MCThreadLoad` | its threads | for TLC |
| `ThreadLoad_proofs` | five theorems | TLAPS |

### StreamControl and the code

- `up` is `userParam`: `runningState`, `nbMotors`, `sensorType`, and `fit`.
  `fit` stands for magnets and rpm bounds, which control sees only through the
  verdict of `cache()`: `"ok"`, `"warn"` (accepted after a message, so the
  caller blocks) or `"bad"`. `CalcParam` models the numbers behind it. `rom` is
  the EEPROM record.
- `streamerThd`, `terminate`, `strm`, `slot` are the pointer, the request of
  `chThdTerminate()`, where the thread is, and the motor whose `setIcu()` is
  held in an error message. `icup`, `index`, `indexer` are those of `PeriodSense`.
- `recv` and `main` are where the receive thread and `main()` are.
- Actions: `MainBoot` (reset to the wait for VBUS), `MainStartResume`,
  `MainUsb`, `MainShell`, `Reset`; `RecvRun`, `RecvStartResume`, `RecvStop`,
  `RecvStopDone`, `RecvError`, `RecvMotorParameters`; `StoreConf`, `EraseConf`,
  `LoadConf` (from either side); `ShellSet`, `ShellErrors`; `StreamerCache`,
  `StreamerSetup`, `StreamerSetupResume`, `StreamerAfterRpms`,
  `StreamerAfterErrs`, `StreamerWake`. A name in *Resume* or *Done* is the rest
  of a function after the point where it blocked.
- Undefined behaviour (null `icup`, array overrun, `waStreamer` used twice) sets
  `fault`; only a reset follows. Nothing is claimed about what comes after.
- `loaded` is a history variable: a configuration different from the one in use
  has been loaded since boot. `Disturbed` is that, or USB having been plugged
  (which sets `runningState` and opens the console). Console and load change
  `userParam` under a living thread by design of the code: `StopHonoured`,
  `CaptureSet`, `NoFaultInNormalUse` and `ConfigFrozen` end where `Disturbed`
  begins, and hold of starts, stops, MotorParameters and resets. What USB does
  to them is the run `usb_parameters`.
- `EarlyCommands` says whether serial commands are handled while `main()` is held
  inside its own start at boot. The code allows it (the receive thread exists
  before the start); FALSE is the host that waits for the first message.

### CalcParam and the code

`up` are the four numbers of a MotorParameters message, `calc` the two fields of
`calcParam` a session reads, `psc` the prescaler register per clock ratio,
`width` the `widthOneRpm` of the sensors. `Cached` is what `cache()` leaves
behind, field by field, refusals included; `Accepts` is its verdict. `ToFloat`
is the conversion of a `uint32_t` to binary32; `ceilf` of a quotient by 2^16 is
then exact. `logf(8)/logf(2)` is exactly 3 in binary32, so `bitResolution < 3`
is `LowResolution`. `WidthOneRpmHall` is written so that no intermediate value
exceeds TLC's 32-bit integers; it equals `F * 60 / div / magnets`, which fits
the `uint32_t`. `calcParam` fields nothing in this build reads are left out.
These operators are in `CalcArith`, where the console finds `Accepts` too.

`IcuTimers` adds the tables: `IcuTimer` is the order of `ICU_TIMER`, `Hclk`,
`Ppre` and `TimerClock` the clock tree. Its property is about a session, with the
prescaler each timer got.

### SpeedSense and the code

An entry of `winAvg` is not a number but its origin: `"zero"` as at reset, the
`"true"` period of this spin, an `"old"` one, a `"ghost"` that is the period of
nothing. `icu` is the driver, whose first edge after a start or an overflow
measures nothing. `ownStart` says whether the edge (or, of the optocoupler, the
time stamp) that the next period is measured from is one of this spin: the driver
may still be active from a spin or noise less than a counter round ago. `HallPeriod` and `OptoPeriod` are `period_cb` of the two
sensors, with the ratio test and the two silences on the code's numbers;
`OverflowCb`, `Start`, `StopIcu`, `Report` are `overflow_cb`, the set-up of a
session, `stopIcu()`, and `getRPM()` with the copy to the message. `Move` is the
motor: it turns, stands, or stands with noise on its wire. `spin` is a history
variable, the measures since the motor, the session or the noise last changed.
The optocoupler is not in the default build (`OPTOCOUPLER_ON_BOARD` is 0); it is
modelled because the code is there and the default is one line of the Makefile.
A mean of the window is only modelled as 0 or not.

### ErrorWindow and the code

`winErr[m]` is a window, oldest entry first. The code stores 0 and 1; the model
tells a bad measure that an Errors message has counted (`"told"`) from one that
it has not (`"bad"`). `Push` is the interrupt's push into `winErr`. The thread
is `RpmsSent` (decide whether the check is due), `SumOne` and `CopyOne` per
motor, `ErrorsSent`, `Wake`. `made` and `Rate` bound the measures per message:
the code has no such bound, a motor has (its speed and the message rate), so
`Rate` is a parameter. `lost` is a history variable. `cnt` is kept modulo the
window size, which is all the code uses of it. Speeds and totals are
`SpeedSense`'s.

### HostPanel and the code

`panel` is `%varDataOut`, `err` whether `$tachoErrMsg` has a text, `toBoard` and
`toHost` the frames on the two lines. `up` is `userParam`, `lib` the size the
filter windows really have, `session` the parameters of the streaming thread,
`rom` the EEPROM record. The host's actions are the callbacks of the GUI
(`Hello`, `Edit`, `ClickStop`, `ClickRun`, `ClickEeprom`) and `octoMessageCB`
(`HostRecv`); the board's are `Boot`, `PowerLost` and one per handler (`Recv...`).

- The five MotorParameters are one value: the zeros of a panel no answer has
  filled, one that `cache()` refuses, one that it accepts. The two filter sizes
  are one number, which the library may correct; its code is not in the
  repository, so a size it cannot have leaves any size it can. The message rate
  is a number and goes through the divisions of the code.
- `octoMessageCB` dies on a report with `rpmMin` 0 (a division, line 515):
  `skip` says that the parser will drop the next frame (`HostSkip`,
  `HostSkipRpms`). `HostLink` shows why it is one frame.
- A command to a board that is off is lost, and what was on the line when the
  power went. An error of `readConfFromEEprom()` at boot goes nowhere: the line
  is set up after it.
- `fresh`, `unasked`, `wanted`, `echo` are history variables that say when a
  claim can be made: the panel holds an answer nobody edited since; a load or a
  reset was not asked about; the motor parameters and the rate on the panel when
  Run was clicked, the last of the buttons; the settings when Run was clicked on a
  panel that showed them.
- A session here is a value: `StreamControl` has the threads, and `main()`'s own
  start is finished in `Boot`.

### HostLink and the code

`state`, `sync`, `len`, `buffer`, `sum` are the `state` variables of `serialCb`;
an action is one call, which blocks until its bytes are there. `Frame` and
`Fletcher16` are the real ones. `SendFrame` puts a frame on the line, whole or
without one of its bytes. The last byte of a payload is the number of its
frame: it tells frames apart, as no message of the code does, and is only looked
at by the property. The names of the specification (`LinkInit`, `LinkNext`, `LinkSpec`)
differ from those of `HostPanel`, so that `HostPanel_proofs` can extend both.
`SelfDelimiting` is what finding the frames again needs of a message: its frame
holds FE ED only at its start, and these are not the checksum of a payload the
callback dies on. One of the payloads of the run is not of this kind.

### Board, UsbWatch, LedBlink and the code

`main` is where `main()` is; the steps between a look at VBUS and the wait for
its edge are actions of their own, because the cable moves between them. `event`
is the line event that is enabled: an edge that nobody waits for is forgotten.
`usb` is what the polls of `consoleLaunch()` see of the USB stack; the stack
finds out later than `main()` that the cable is gone. `missed` is a history
variable: the cable moved last while `main()` counted on it and did not listen.

`blink` is where the LED thread sleeps, `i` the loop counter, `seqs` the two
counts of toggles as bytes; `lit`, `given`, `whole` are history: the flashes of
this round, what `setFlashes()` was told, whether it came within the round. An
action is one run of the thread from a sleep to the next. In `Board` it runs
where `main()` is blocked (`Blocked`), its actions interleave with those of the
cable, and `Boot` calls `SetFlashes` with the settings the EEPROM held.

### ConfConsole and the code

`up` are the settings by the name of their entry in `map2`, `lib` the sizes the
filter library has made of two of them, `rom` the record. `Matches` is the
search for the entries a word abbreviates, cut to the six letters of
`commandStr_t`. Each branch of `cmd_conf` is an action (`ConfSet`,
`ConfSetErrors`, `ConfGet`, `ConfShow`, `ConfStore`, `ConfLoad`, `ConfErase`;
`ConfNothing` the lines that change nothing). `Refreshed` is the writing back of
the two getters; `ReadConf` is `readConfFromEEprom()`, with a wipe and a first
store that may fail. `Boot`, `OpenConsole`, `HostRun`, `Restart` are what
happens around it. The board is one that only its console configures. `shown`,
`promised`, `heard`, `quiet` are history: what `show` showed and `store` kept
since, and whether a Run or a load came in between.

### ThreadLoad and the code

`registry` is the kernel's list of threads, `time` their ticks, `info` and `cpu`
the static `ThreadCpuInfo`, by place. `CmdThreads` is the command up to its
first line (the stamp does not block), `NextLine` the rest, one line each: the
print blocks, so the streaming thread starts (`StreamerStarts`) and is collected
(`StreamerCollected`) in between. The walk holds a reference to the thread it
stands on (`ended`: collected but still registered); `Unlinked` is the registry
without the streaming thread, the places behind it one less. This is the build with
`CHDEBUG_ENABLE`; the default one has no such command. `run`, `own`, `moved`,
`found` are history.

## 3. What is checked

| run | instance | shows |
|---|---|---|
| `control` | 2 inputs; 1, 2 or 3 motors; hall and foreign sensors; fits ok and warn | `TypeOK`, `HandleTracksThread`, `StopHonoured`, `CaptureSet`, `NoFaultInNormalUse`, `ConfigFrozen`, `UsesAreaProperly`, `StopCompletes`, `StartCompletes` |
| `calc` | 84 MHz; every `minRpm` 9..10001 with five magnet counts stored, and messages at the bounds; eight inputs | `DividerProgrammed`, `MinRpmFits`, `MeasureFaithful`, `InputsTickAlike` |
| `speeds` | a window of 3, a filter that drops one value at each end; both sensors | `SpeedIsItsOwn`, `StandstillTold` |
| `errors` | 2 motors, window 3, at most 2 measures per message | `LossBounded`, `BadSensorReported` |
| `panel` | 10 000 ticks per second; rates 3000 and 66; three motor parameters; sizes 0 and 16, of which the library has 16 | `TypeOK`, `ShownIsTrue`, `RefusalTold`, `EchoHarmless` |
| `link` | 5 frames of 4 kinds, 2 lost bytes, at most 8 bytes on the line when a frame comes | `GivenWasSent`, `ResyncBounded`, `LosslessInOrder` |
| `board` | 0, 1, 3 or 128 motors; 9600 or 230400 baud | `TypeOK`, `WaitsForWhatCanCome`, `UsbLedTells`, `LedDarkBetween`, `RoundShowsCounts`, `PlugGetsShell` |
| `console` | 18 words, 20 numbers, 36 records, all at the bounds of the ranges; one setting changed; the library has two sizes of each filter | `ConsoleConfStarts`, `ShownInRange`, `ShownIsKept`, `StoredBoardIsSilent` |
| `threads` | an idle thread and a shell beside the streaming thread; at most 3 ticks in the registry | `SharesAreTheirs`, `EarlierTicksAreTheirs`, `AreaGivenBack`, `SharesAddUp` |

- `HandleTracksThread`: `streamerThd` is non-null exactly from a thread's
  creation until its end was collected; `waStreamer` never carries two.
- `StopHonoured`: until `Disturbed`, a thread that lives in the Stop state is one
  that a Stop is waiting for.
- `CaptureSet`, until `Disturbed`: capturing inputs = motors in use, input i fills window i, and
  between sessions nothing captures and `indexer` is 0.
- `NoFaultInNormalUse`: until `Disturbed`, starts, stops, MotorParameters and
  resets in any order cause no overrun, and no null `icup` but by way of a sensor
  type this build does not know.
- `ConfigFrozen` (a step property): until `Disturbed`, nothing but `runningState`
  changes while a thread lives. After the plug of USB it can
  (`MotorParametersIgnoredWhenRunning` below).
- `UsesAreaProperly`: refinement of `StaticThread`: the area is free, live or
  ended; a thread ends only after a request and is collected before the next.
- `StopCompletes`, `StartCompletes`: a Stop does not wait for ever; a created
  thread sends a Rpms message or ends.
- `DividerProgrammed`, `MinRpmFits`, `MeasureFaithful`: section 1's three
  promises of the arithmetic. `MeasureFaithful` is at most an eighth too high,
  never too low, at `smin` and `smax`: the accepted 3 bits are just enough.
- `InputsTickAlike`: with the prescalers of a session, the eight timers count at
  one rate.
- `SpeedIsItsOwn`: of the measures since a spin, a session or the noise began or
  an overflow came, all but the first are this spin's own. The first may be measured
  from an edge, or a stamp of the optocoupler, from before the spin; once the window
  is full of measures of this spin it is the one entry the median filter must drop,
  and one measure later it is gone. Before that nothing is promised, and the code
  does report speeds of a spin long over.
- `StandstillTold`: a motor that stands without noise is told to stand in the end,
  and its old speed does not come back. On a line with noise it may
  (`periodSense.cpp:40`), which the property leaves out.
- `LossBounded`: at most `(Rate-1)*W + Rate` bad measures of a motor leave its
  window untold between two checks. `BadSensorReported`: a sensor that is bad
  from some time on is reported again and again, or the session ends.
- `ShownIsTrue`: when nothing is on the lines, a panel with an untouched answer
  shows the board's settings: each Stop and Run asks last. It does not hold after
  a load or a reset, about which the panel does not ask (`unasked`).
- `RefusalTold`: after a click on Run, when nothing is on the lines, the board
  streams with the motor parameters that were on the panel at the click, at the rate
  that was on it, and holds these as its settings, or the panel has an error. So a
  start, parameters or a rate that the board refuses is told. (A filter size is not
  refused: the library corrects it.)
- `EchoHarmless`: clicking Run on a panel that shows the settings changes no
  setting, at any point of the five messages.
- `GivenWasSent`: with the payloads of the run, `octoMessageCB` gets frames that
  were sent, in order, none twice, also when bytes are lost. It is not true of all
  payloads: the Rpms frame FE ED 04 01 01 02 03 and its checksum, without the 04, is
  read as length 1, payload 01 and the checksum 02 03, which fits.
- `ResyncBounded`: when every frame sent is `SelfDelimiting`, a lost byte costs the
  frame it was in and at most the next one, a callback that died the next one.
- `LosslessInOrder`: until a byte is lost or the callback dies, the parser hands on
  every frame, in order and once, sync bytes in its payload or not. This is what
  `HostPanel` takes its line to the host for: a queue.
- `WaitsForWhatCanCome`: `main()` waits for a plug only when the cable is out, for a
  pull only when it is in, unless the move fell into the moments before the wait
  (`missed`). There are two such gaps: from the level to the first wait, and from
  the start of the USB stack to the second; the second makes `main()` wait with a
  shell in the Stop state until the next plug and pull.
- `UsbLedTells`: the USB led is on only with a shell and a cable, with the same
  exception; and with a shell and a cable it is on, but for the 100 ms before the
  reset that a pull has decided: a cable that is back by then does not light it.
  `PlugGetsShell`: a plugged cable leads to a shell unless the plug was
  missed or the host does not open the port.
- `LedDarkBetween`: the led is dark in the gap and the pause, even if a count
  shrank in the middle of a sequence. `RoundShowsCounts`: a round that no
  `setFlashes()` fell into shows both counts, up to 127; 128 motors would make a
  byte of 0.
- `ConsoleConfStarts`: what `conf` takes starts streaming, except 2 magnets or an
  `smin` not below `smax`. `ShownInRange`: every value `show` tells is in the range
  it tells with it, after the divisions of the rate and the library's corrections.
- `ShownIsKept`: what was shown, then stored, is what the next boot has.
  `StoredBoardIsSilent`: `store` keeps the Stop state the console works in, so that
  boot does not stream.
- `SharesAreTheirs`: while no thread comes or goes, each line of `threads` has the
  ticks of its thread since the last command, and the total.
  `EarlierTicksAreTheirs`: the threads older than the streaming thread always have
  theirs. `SharesAddUp`: a command that finds as many threads as the last has
  shares that add up, even if they are other threads. `AreaGivenBack`: the command
  holds `waStreamer` only while it prints the streaming thread's line.

**Bounds.** With two inputs there is an input in use, one not in use, and a
count too large (3) that `cache()` refuses or that overruns when it arrives under
a thread; the loops treat motors alike, so a third input adds no new order of
steps. Nothing in `StreamControl` counts, so its state space is finite without a
constraint, and TLC visits all of it. In `CalcParam` the numbers are the real
ones. In `ErrorWindow` the window of 64 becomes 3: the two things that matter,
an entry leaving between two checks and between sum and copy, happen from size
1 on when `Rate` is at least the ratio of measures to messages.

`HostPanel` is bounded by what a click may find on the line to the board
(`MaxPending`, one message, so up to six are on it), by the answers on the way to
the host (`MaxAnswers`, one), and by one edited field between two answers. More
messages on a line delay them without a new order: each line is a queue with one
reader, and a handler is a step. One edit reaches each field with each value; a
second edited field is a second refusal of the same kind. The rate 3000 is a rate
whose period (3 ticks) stands for another rate (3333), which the default 10
does not. In `HostLink`, two losses let the second fall into the frame the first
one already cost, and five frames leave good ones after both; lengths stay below
the bytes that follow, as they do on a line that goes on. One of its payloads holds
FE ED, one kills the callback, and no two windows of their bytes have the same
checksum: real ones may, and then a 16-bit checksum is what stands between the
two. It only loses bytes; one
that is corrupted in the length costs more frames (up to 255 bytes).

In `SpeedSense` the window of 3 is the least that a filter of 1 leaves something
of: every entry can be the oldest, the newest, or dropped. In `Board` the LED
thread starts with one flash, and the record then says as many (1), more (3), none
(0, so the sequence shrinks under the thread) or a number whose toggles wrap to
none (128); the baud rates give no second sequence, and one of two flashes.
In `ConfConsole` each range has both bounds and their neighbours among the
numbers, and the records combine the bounds that `cache()` compares, so that one
edit (`MaxEdits`) reaches every verdict; more edits only change more fields, and
fields do not depend on each other but for the two speeds. `LibWindows` and
`LibMedians` have two sizes each: one that is asked for and one that is not. In
`ThreadLoad` one thread before and one after the streaming thread are what a
place can belong to; three ticks are one for each.

The deadlock check is disabled in `MCHostLink.cfg` only: after the bounded number
of frames the parser waits for ever. Nothing else stops.

**Fairness.** `StreamControl` assumes weak fairness of the streaming thread, of
the rest of a start held in a warning, and of the return of `chThdWait()`: sends
are UART transfers that end, sleeps end, and no thread of higher priority or
endless computation exists. Since a thread runs until it blocks, each of them
gets the CPU when it is ready. Nothing is assumed of messages, USB or user.
`ErrorWindow` assumes the streaming thread runs; motors may do anything.
`SpeedSense` assumes that a counter no edge resets overflows (the timer counts)
and that the thread sends; nothing of the motor, the wire and the host. `Board`
assumes that `main()` goes on where nothing but itself holds it: between two waits
it computes or sleeps for a fixed time, and the LED thread sleeps between toggles.
The other modules state no fairness.

### Disagreements the checks show

These runs expect a violation; each `findings` entry quotes what is contradicted.

| run | property | what happens |
|---|---|---|
| `early_handle` | `HandleTracksThread` | the guard of `rpmStartStreaming()` is read before `cache()` blocks in its warning. While `main()` is held there, Stop and Run from the host start a thread; then `main()` starts another one on the same area |
| `usb_parameters` | `MotorParametersIgnoredWhenRunning` | plugging USB sets `runningState` to Stop but the thread streams on; MotorParameters are then applied under it |
| `calc_smax` | `MaxRpmReported` | speeds are sent in 16 bits, `smax` goes to 100 000: a fast motor is reported as a slow one. Even with `smax` at 65535 the rounding up can wrap |

The models also reach these, for which there is no run of their own:

- `rpmMsg.cpp:134` checks the errors once per 64 messages, the window turns over
  per 64 measures: errors leave untold. `LossBounded` says how many.
- After a start that was refused, or after loading a record saved in the Run state,
  `runningState` is Run and nothing streams; MotorParameters are then ignored with
  "ignoring MotorParameters when running" (`messageImplChibios.hpp:74`) until a Stop.
- `conf errors 0` passes the test for entries without value (`errors` has a getter),
  is in the range 0 to 0 that an entry without bounds has, and calls a `set_f` that is
  null (`ttyConsole.cpp:280`, `ConfSetErrors` of `ConfConsole`).
- `conf errors` reads through a null `icup` on a board that booted in the Stop
  state, a command the README of the program offers without condition (`ShellErrors` in
  `StreamControl`).
- A streaming thread that ended and started between two `threads` shifts every
  later line to the ticks of another thread (`SharesAreTheirs` has to exclude it).
- `periodSense.cpp:32` ("increment errors only when motor is running") is what the
  guard of line 33 does only while the window holds zeros: once a spin, or noise
  that passes for periods, has filled it, implausible periods are counted whether
  the motor turns or not (`HallPeriod` of `SpeedSense`).
- The comment of `rpmMsg.cpp:23` gives 168 MHz for the timer of input 8; it is on
  the slow bus, at 84 MHz. The code reads the clock from the driver, so
  `InputsTickAlike` holds.

## 4. What is proved

TLAPS proves for every value of the constants:

`StreamControl_proofs` (any number of inputs, any set of motor counts, sensors
and verdicts that satisfies `StreamControlAssumption`):

- `TypeCorrect`: `Spec => []TypeOK`.
- `HandleSafe`, `StopSafe`, `FrozenSafe`, `AreaSafe`, `CaptureSafe`, `FaultSafe`:
  `Spec /\ HostWaits => P` with P `[]HandleTracksThread`, `[]StopHonoured`,
  `ConfigFrozen`, `UsesAreaProperly`, `[]CaptureSet`, `[]NoFaultInNormalUse`.

`HostWaits` is a condition on the behaviour: no Run, Stop, Error or MotorParameters
is handled while `main()` is held in the start it makes at boot. The theorems are
of the code as it is (`EarlyCommands` may be TRUE), for hosts that wait and for
boards that are not held there: ones that boot in the Stop state, or whose
stored configuration gives no low resolution warning. The code does not guarantee
it, and without it the run `early_handle` violates the first of them. Four of
the properties end at `Disturbed` (section 3): no theorem says that serial commands
leave a living thread alone once USB is plugged or another configuration loaded,
and the run `usb_parameters` shows that they do not.

The argument has three inductive invariants. `HandleInv` strengthens
`HandleTracksThread`: it adds where each actor is when the handle is null or not
(a start held in a warning means no thread yet; the receive thread waits only
while the thread lives with its request set; a thread waited for is the only one).
Without these parts an arbitrary state could have a resumed start meet a living
thread. `StopInv` adds to `StopHonoured` that, outside `Disturbed`, a start held in
a warning has `runningState` Run: the thread it is about to create cannot break the
property. `ConfigFrozen` and the
refinement follow step by step from them: the only action that takes parameters
needs the Stop state, where `StopInv` says there is no living thread unless the
receive thread is busy waiting, and then it takes no message. For the
refinement, each action is mapped to `Create`, `Terminate`, `Exit`, `Collect`,
`PowerCycle` or a stutter.

`CaptureInv` is about the inputs. Outside `Disturbed`, a thread past its set-up has
exactly the drivers 1..`nbMotors` capturing, each with its own window and `indexer`
at `nbMotors` (`AllCapture`); otherwise none captures and `indexer` is 0
(`NoneCaptures`). It needs that a living thread, or a start held in a warning, has
a `nbMotors` that `cache()` accepted, and for that `StopInv`: the settings do not
change under it. The set-up loop then stays in the array, the stop loop undoes what
the set-up loop did, and only a sensor type that the set-up skips leaves a null
`icup` to read.

`CalcParam_proofs` (any parameters a message may carry, any timer input below
2^27 Hz unless the board's clock is mentioned):

- `CalcTypeCorrect`: `Spec => []TypeOK`.
- `DividerSafe`: `Spec => []DividerProgrammed`. `TimDividerBound` shows that no
  configuration calls for a divider above 2048 (the quotient of numbers below
  2^27 by 2^16, rounded to float and up), so neither the `uint16_t` parameter nor
  the doubled value in the register can overflow; `CachedType` that an accepted
  configuration has a divider of at least 1, so the decrement does not wrap. The
  invariant `CalcInv` adds that a created thread finds the parameters that were
  accepted: that is why the verdict of the thread's own `cache()` may be ignored.
- `MeasureSafe`: `Spec => []MeasureFaithful`. `SessionInv` says that a session has
  accepted parameters and the divider and width that `cache()` computes from them.
  The speed read back is width div (width div n). It is never below n
  (`TwoQuotients`), and it is at most n + n div 8 once the width holds 8 ticks of
  maxRpm: `EightTicks` gets those from the 3 bits that `Accepts` asks for.
- `MinRpmSafe`: `Spec => []MinRpmFits`, with the board's clock. It rests on two
  facts of 84 MHz: no quotient of it by a whole frequency is rounded when it becomes
  a float (`TickExact`: the only ones above 2^24 are those by 1 to 5), and none is a
  multiple of 65536 without a remainder (`DividerRoom`: 84 000 000 leaves 48384 over 1281 * 65536).
  So 65536 times the divider exceeds the quotient, and the period at minRpm is below
  65536: that `FreqAtMinRpm` cuts off a fraction only shortens it. With a clock that
  has such a quotient the property is false: at 6 553 600 Hz, 1000 rpm and 6 magnets
  have a period of 65536.
- `InputsAlikeSafe`: `Spec => []InputsTickAlike`, from `CalcInv` and the ratio of each
  timer's clock to `TIMER_FREQ_IN`.

`SpeedSense_proofs` (any window and any median filter that leaves a value of it):

- `SpeedTypeCorrect`: `Spec => []TypeOK`; the window keeps its size.
- `SpeedSafe`: `Spec => []SpeedIsItsOwn`. `SpinInv` says that the newest `spin`
  entries are of this spin, all but the first of them, and that after a measure of
  this spin the next period is measured from an edge of this spin: without that,
  every measure could be another ghost.

`ErrorWindow_proofs` (any positive number of motors, window size W and measures per
message):

- `WindowTypeCorrect`: `Spec => []TypeOK`.
- `LossSafe`: `Spec => []LossBounded`. `LossInv` accounts for each motor's measures
  since its last check: q left between its sum and its copy, and p came after. The
  untold bad ones of the p are among the newest p entries (`Recent`), so only p - W
  of them can have left (`Gone`). p + q is at most `Rate` per message since the
  check (`MessagesSince`, which the counter tells) and what the current message has
  made. While a motor waits for its copy, its losses are at most the measures of
  this message; and if no sum finds anything, its window had no bad measure, so the
  copy is not missed (`Clean`).

`Board_proofs` (any motor counts and baud rates that are natural numbers):

- `WaitsSafe`, `UsbLedSafe`: `[]WaitsForWhatCanCome`, `[]UsbLedTells`. `UsbInv`
  says at each place of `main()` what level it counts on, which edge is enabled, and
  that from the open port to the pull there is a shell and the led is on.
- `LedDarkSafe`, `RoundSafe`: `[]LedDarkBetween`, `[]RoundShowsCounts`. `LedInv`
  ties the line to the parity of the loop counter and the flashes to its half, and
  the counts to twice what `setFlashes()` was told, modulo 256. The loop test
  `n < seqs` and the clearing of the line are what the dark gap rests on, not the
  evenness of the counts: these may change in between.
- `BoardTypeCorrect`: `[]TypeOK`, from both: the loop counter fits its byte.

`ConfConsole_proofs` (any words and numbers typed, any earlier records, sizes of the
library and tick frequency that satisfy `ConfConsoleAssumption`):

- `ConsoleTypeCorrect`: `Spec => []TypeOK`.
- `SilentSafe`: `Spec => []StoredBoardIsSilent`. `SilentInv`: in a console that heard
  no Run, `runningState` is Stop; a quiet record says Stop.
- `KeptSafe`: `Spec => []ShownIsKept`. `KeptInv`: what was shown is what the settings
  say, with sizes the library has (the getters wrote them back), and what was
  promised is what the record says. A record with other sizes could come back as
  anything the library makes of them.
- `ShownRangeSafe`: `Spec => []ShownInRange`. `RangeInv`: settings and record are ones
  a console can leave (`FromConsole`), each in its range, the rate as a period of 1
  to `Freq` ticks. `RateFits` takes such a period back to a rate in the range.
- `ConsoleStarts`: `Spec => []ConsoleConfStarts`, for any clock of 1 MHz or more.
  `ConsoleAccepts` says what `cache()` makes of settings in their ranges: it refuses two
  magnets and speeds that are not in order, and nothing else. With f the frequency
  at `smin`, 60f >= smin * magnets - 59, so 4 * magnets <= 3f from three magnets on
  (`FreqBounds`); the divider times 65536 is at most the tick and 65539
  (`ClockCovers`: the float moves the tick by 4 at most, the rounding up by 65535).
  Together the width is at least 8 * 100 000, that is 8 ticks at the greatest
  `smax` (`EightTicksOfWidth`), which is the resolution `cache()` asks for.

`HostPanel_proofs` (any settings, rates, sizes, tick frequency and bounds that
satisfy `HostPanelAssumption`):

- `EchoKeepsRate`: for a rate r of 1 to `Freq` with period t = `Freq \div r`, the
  reported rate `Freq \div t` is valid and has the period t again. The argument:
  r * t <= Freq gives Freq div t >= r, so its period is at most t, and
  (Freq div t) * t <= Freq makes it at least t.
- `HostTypeCorrect`: `Spec => []TypeOK`.
- `EchoSafe`: `Spec => []EchoHarmless`. `PeriodInv` says that the period in RAM and
  the one in the record are periods of a rate: an arbitrary period, say 6000 of
  10 000 ticks, would come back as another. `EchoInv` says that while the claim is
  made the board is on and each message still on its line asks for the setting it
  already has; it needs no word about the panel, which may be edited meanwhile.
- `ShownSafe`: `Spec => []ShownIsTrue`. `TellInv` is about the order of messages:
  after every command on the line that changes a setting there is a question
  (`Asked`), and when no question is on the line, the last report on its way says
  what the board has, or none is on its way and the panel is right (`Told`). So an
  old answer may still come, but never last.
- `RefusalSafe`: `Spec => []RefusalTold`. `ClickInv`: since a click on Run, an error
  is shown or on its way (`Complaint`), or the board is at one of four places: motor
  parameters, rate and start still to come, in this order (`Coming`); the parameters
  taken (`Halfway`); the rate too (`Starting`); the session runs with both
  (`Started`). Each handler moves one of these into the next, and a refusal can only
  move it into the first.

and of the link, for any payloads of bytes that `HostLinkAssumption` admits, any
number of frames and any bound of the bytes on the line:

- `LinkTypeCorrect`: `LinkSpec => []LinkTypeOK`, whatever the line loses.
- `LinkQueueSafe`: `LinkSpec => []LosslessInOrder`, for any payloads: sync bytes in a
  payload do no harm to a parser that is in step. The inductive invariant is
  `LinkInv`. While nothing is lost (`Whole`), the line is the end of the frames sent,
  one after the other (`Carries`, with the offset `e[k]` at which each begins, negative
  when it has been read), and the parser stands at one place of one frame c, with what
  it has read of it in its variables (`Standing`), and has handed on those before
  (`Delivered`).

`ThreadLoad_proofs` (any sequence of distinct permanent threads, any record with two
places more than there are of these, any number of ticks):

- `AreaSafe`: `Spec => []AreaGivenBack`, which is inductive as it stands.
- `EarlierSafe`: `Spec => []EarlierTicksAreTheirs`. `WalkInv` is about places: the
  threads before the streaming one keep theirs in every registry (`Registry`), so the
  walk is at such a thread exactly with its number. `TicksInv` then says of these
  places that the ticks since the stamp are the difference of the counter and the
  record.
- `SharesSafe`: `Spec => []SharesAreTheirs`. `LineInv` is about the ticks of every line,
  the streaming thread's included, and needs both parts of `moved`: the record has the
  registry's order as long as no thread came or went since the stamp, and the lines
  are those of the threads if none did in the interval before either. `TotalInv` is
  about what they are a share of: with the registry as it was at the stamp, the ticks
  of all threads less those since are `totalTicks`.
- `AddUpSafe`: `Spec => SharesAddUp`. `RecordInv`: `totalTicks` is the sum of the record
  over the places the last command found in use. It holds whoever has these
  places now, so as many threads as last time are enough.
- `LoadTypeCorrect`: `Spec => []TypeOK`. What is not obvious of it is that the number of
  the line stays a place of the record. `NumberInv`: the walk may pass the streaming
  thread before the last permanent one, and again behind it when it was collected and
  started anew meanwhile, but not a third time: the number reaches two more than
  the permanent threads, and no more. `TickBounds` is about the bound of the model: the ticks
  of a thread are a part of those of all.

The sums of these theorems are `SumFunctionOnSet` of the community modules, a recursive
function chosen by its equation. `SumRule` to `SumPlaces` say what it does: take an
element off, change one, subtract two sums, sum over places instead of threads. They
are proved without an induction theorem: of the subsets for which a lemma fails there
is a smallest (`SmallestSubset`, from the library's well-founded order of finite sets),
it is not empty, and without one of its elements it is smaller.

The constants' assumptions are named (`StreamControlAssumption`,
`CalcParamAssumption`, `SpeedSenseAssumption`, `ErrorWindowAssumption`,
`HostPanelAssumption`, `HostLinkAssumption`, `BoardAssumption`,
`IcuTimersAssumption`, `ConsoleClockAssumption`, `ConfConsoleAssumption`,
`ThreadLoadAssumption`) and TLC evaluates them in every run. What the code says of
them: `IcuTimersAssumption` is the definition of `TIMER_FREQ_IN`, half of the clock that
`mcuconf.h` configures; `ConsoleClockAssumption` leaves that clock anything from 1 MHz
to 2^27 Hz; `ConfConsoleAssumption` wants 10 to 10 000 ticks per second (the kernel has
10 000, and the range of `rate` ends there), filter sizes within the ranges of the table,
and a record that an earlier console stored; `ThreadLoadAssumption` a kernel whose threads
are distinct and at least two fewer than `MAX_CPU_INFO_ENTRIES`.

**Types.** The type invariant of every component is proved: `TypeOK` of
`StreamControl`, `CalcParam`, `SpeedSense`, `ErrorWindow`, `HostPanel`, `Board`,
`ConfConsole` and `ThreadLoad`, `LinkTypeOK` of `HostLink`. The runs `control`, `panel`
and `board` check it too.

**Only model-checked.**

- `GivenWasSent` and `ResyncBounded` of `HostLink`. What the parser does after a lost
  byte rests on the checksum, and that no window of bytes passes for a frame is a fact
  about the payloads of the instance, not about all (section 3).
- All liveness, since TLAPS does not handle fairness and ENABLED: `StopCompletes`,
  `StartCompletes`, `BadSensorReported`, `StandstillTold`, `PlugGetsShell`.

## 5. Not modelled

- The numbers in the averaging and median windows, whose code is in a library:
  `SpeedSense` says what of a window the speed must not depend on. The quotient of
  a mean with `widthOneRpmOpto` is either above the limit or not.
- A torn sum: `winErr` has no lock, and what the library's sum makes of a push in
  the middle is not known here. The initialiser of `winAvg` that gives the first
  window another filter than the rest: the default is the library's.
- Time: the sleep of the streaming thread that is shorter than its send, the pace of
  the LED, the 10 ms polls.
- The framing, UART, and EEPROM libraries: what the firmware needs of them is an
  assumption of the models (a send blocks and ends; frames are handled one at a
  time; a failed store or erase leaves the record, a wipe keeps it).
- The text of messages, the shell's line editor, and the commands `mem`, `uid` and
  `param`, which print what they find.
- `chconf.h`, `halconf.h`, `mcuconf.h`, `board.c` apart from the settings a property
  rests on (`IcuTimers`, `ThreadLoad`): the rest is constants of drivers this program
  does not use, and a pin table made by a generator.
- The log and speed display of the host, the linux program, testStream.pl apart
  from its parser, which is that of `HostLink`.
- The steps inside a store or load: a wipe compresses the record store and keeps
  its data (the console says so, `ttyConsole.cpp:241`), so a reset between wipe
  and store leaves the old record, as a failed store does in the models.
- What undefined behaviour does after `fault`.

## 6. Plan

Order: what most decides whether the board works comes first. All are done but the end of item 12.

1. `StaticThread`, `StreamControl`, its runs.
2. `StreamControl_proofs`: types, handle, stop, frozen configuration, refinement,
   captures, faults.
3. `CalcArith`, `CalcParam`, `CalcParam_proofs`.
4. `ErrorWindow`, `ErrorWindow_proofs`.
5. `HostPanel`, `HostPanel_proofs`: settings and handlers against the panel.
6. `HostLink`: the host's parser against a line that loses bytes.
7. `UsbWatch`, `LedBlink`, `Board`, `Board_proofs`: VBUS in `main()`; the led thread.
8. `ConfConsole`, `ConfConsole_proofs`: the `conf` table, ranges and getters. `ThreadLoad`: the command `threads`.
9. `SpeedSense`, `SpeedSense_proofs`: stale windows, edges and time stamps;
   `IcuTimers`: the timers of the inputs.
10. A link of `HostPanel` and `HostLink`: the queue of frames as what the lossless
    line promises (`LosslessInOrder`, `LinkQueueSafe`).
11. Proofs of the other invariants: `ShownIsTrue` and `RefusalTold` from the order of
    the messages on the lines, the promises of the arithmetic, the ranges of `conf`,
    `ThreadLoad_proofs`.
12. The totals of `threads`. Still open: the parser after a lost byte, for payloads of
    which no window of bytes has the checksum of a frame.
