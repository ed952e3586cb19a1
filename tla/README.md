# RedClock: models, checks and proofs

RedClock is the firmware of an ESP32 wall clock with four red seven-segment
digits. It takes the time from a GPS receiver, from SNTP or from the `Date:`
header of a web server, the time zone from a map in flash, and is set up through
its own web pages. This directory holds TLA+ models of its core logic, the TLC
runs that check them, and machine-checked proofs (TLAPS) of what matters most.
All source paths below are relative to `src/esp/RedClock/main/`.

## 1. Inventory

The ESP32 has two cores. Core 1 runs the display interrupt, `timer_clock_task` and,
during the first ten seconds, the task that watches for a magnet
(`clockMain.c:319`); core 0 runs everything else: the GPS task `rx_task` (highest
priority), the PPS interrupt, the event task (WiFi), the HTTP server's task,
`scan_task`, `time_from_headers_task` and lwIP. Almost everything is shared through one global struct,
`sClockState`, and a few globals; there is **no lock**: the one semaphore that was
meant to guard the satellite table is commented out. What makes the program work
is therefore order, timing and idempotence, which is what the models are about.

| component | state | operations | meets | what makes it correct |
|---|---|---|---|---|
| GPS time discipline (`clockMain.c:99`, `clockGps.c:330`, `clock7seg.c:314`) | `sPPS`, `gGPStime_t`, `gGPStimeMessageReceived`, system clock | pulse interrupt; RMC completed; GPS block of the display loop | interrupt, `rx_task` and loop, two cores | the second set is the one after what the receiver said last; nothing is added to the receiver's own error; a fresh pulse is not missed |
| Time sources (`clock7seg.c:238, 361`, `clockSntp.c`, `clockConnect.c:399`) | `tickSecondOfDefinitiveTime`, `gHTTPtime_t`, settings | SNTP callback, header task, loop | loop, lwIP, header task | headers yield to better sources, but set a clock nothing else sets; the alarm tells the truth |
| Display multiplexer (`clock7seg.c:88-184, 401`) | four register words per digit, `idig`, `displayIsOn` | timer interrupt; `say4` | interrupt and writer | one digit lit, with its own segments; never dark for good |
| NMEA parser (`clockGps.c:145`) | static field buffers, `state`, rolling buffer | one character | serial line | no overflow; exactly the intact sentences are recognised |
| Satellite table (`clockGps.c:285`, `clockServer.c:533`) | local and published tables | GPGSV; status page | parser and page | a published table is one cycle, a page moves forward |
| Settings (`clockServer.c:2001-2133, 2761-2813`, `clockMain.c:107`) | default, RAM text, NVS override per key | boot, save, reset, reboot, magnet | `app_main`, server, magnet task, power | RAM, flash and the user's wishes agree over any failure |
| Setup page and login (`clockServer.c:103-277, 1439-1777, 2729`) | the settings; the page in a browser | open, type, save, reset, cancel | browsers, server, the settings' readers | what is typed in ASCII is saved, what is not touched stays, but for what the page cannot show |
| Response buffer (`clockHtml.c`) | one static buffer | emit text, file, end | all page handlers | pages arrive whole, in order, and end once |
| WiFi neighbourhood (`clockConnect.c:165`, `clockServer.c:944`) | MRU table of 256 access points | scan done; recent_wifi.json | event task, server | no duplicates, oldest dropped, no quiet row missed |
| WiFi connection (`clockConnect.c:79-153, 319-376, 503-913`) | two semaphores, address, disconnects | start, stop, reconnect, scan | event task, `scan_task`, `app_main`, driver, restarts | nobody waits for ever; the address comes back |
| Uploads, OTA, rollback (`clockServer.c:2258-2603`, `clockMain.c:235-671`) | partitions, boot entries, files | upload, delete, mark valid | server, boot loader, power | a broken upload never leaves a clock that does not boot |
| Time zone map (`clockTZ.c`) | mapped partition, its build date | start, lookup, upload | `app_main`, `rx_task`, server | the map in use is whole; the walk finds the zone of the column |
| Brightness (`clock7seg.c:252-307`) | on and off delays | once per pass | loop, multiplexer | delays above the interrupt's cost and below flicker |
| Magnet detector (`clockMain.c:107-191`) | filter, counter | sample | settings | four slow transitions, no fewer |

The rest (the other pages' rendering, the GPS's start-up commands, the BME280 sensor,
vendored drivers, the drawing and map tools) has no state of its own worth a model;
`PROJECT.json` lists each with its reason. The hard behaviours (interleavings without
locks, lost characters and sentences, power loss between two writes, the 64-bit
arithmetic of ages, waits without a timeout, events that outlive what they are about)
are its `hazards`.

## 2. Plan

The order in which this directory was built, and what could follow.

1. `PulseTime`, then `TimeSources` which takes its GPS block as one step;
   `Multiplexer`; `NmeaParser` and `SatTable` (the parser, and what its two kinds of
   sentences feed); `ConfigStore`; `RespBuffer`, which refines the abstract
   `ResponseStream`.
2. `ScanRecords`, the table and the page that walks it; `WifiConnect`, which extends
   it with every task that takes part in joining, scanning and restarting.
3. `Firmware` (boot loader and `app_main`) and `TzMap` (the map), composed by
   `Upload`, which refines the abstract `TrialBoot`.
4. `SetupPage`, above `ConfigStore`: a request is one step there.
5. Proofs in seven `*Proof` modules, four of them for two components, and in
   `DataInduction`, the induction that two of them share.
6. Open: the brightness rule and the magnet's filter as algorithms, TZ shared by three
   tasks.

Modules that are proved about use no recursive operators; constants carry named
assumptions; each operation of the code is one action.

## 3. Modules and code

**PulseTime.** Time is `sec` and `off` (ticks into the second, `TPS` of them); `Now`
is both true time and `esp_timer_get_time()`. The receiver raises the pulse at
offset 0 and begins the sentence of second `sec` at an offset in
`MinOffset .. MaxOffset`. What it says is off by a member of `Offsets`: after a cold
start the receiver is two seconds ahead for minutes (`clockGps.c:37-43`), and the code
looks neither at the sentence's status nor at its checksum (`clockGps.c:330-342`).
`saidSec` and `saidBy` are history variables: the second in which a time was last
stored, and what it was off by. `RxTime` and `RxStamp` are the two assignments of
`clockGps.c:341-342`; no time passes between them, because `rx_task` has the highest
priority of its core, but the other core may run. The loop's GPS block is taken apart
at each shared access: `TestPulse`, `CheckAge`, `AddSecond`, `SetClock`, `ClearTime`,
`MarkDefinitive`, `LoadPPS`, `StorePPS`, `Rest`. `error` is the system clock minus
true time. `lag` bounds a pass of the loop by `LoopTime`. `abs()` is modelled with
its cut to 32 bits (`Int32`; `IntMod` is 2^32 ms).

**TimeSources.** One unit is one second of uptime. The GPS is `none`, `prompt` (each
pulse sets the clock) or `late` (a pulse may find a time that is refused, which moves
the tick all the same). SNTP sets the clock and calls back in two steps.
`time_from_headers_task` tests the setting and asks (`AskHttpTime`); the answer is
posted (`PostHttpTime`) whatever has become of the setting since. Ages are computed mod
`Mod64` and `Mod32`, as in the code.

**Multiplexer.** Segments, lit digits, the interrupt's next store and `say4`'s next
store. Words are sets of segments; `Packed` is `makegpio`. A timer alarm fires only if
its value is ahead of the counter when it is written (`armed`). `shown` records which
glyphs the words held while the interrupt loaded them.

**NmeaParser.** A character is itself; a text is a sequence. `Dollar` includes the end
of the rolling buffer (four zeros from `iroll-1` on). `rolled` is the set of places of
that buffer the last step wrote, so that its bound is checked. Names have one letter in
the model; lengths are those of the run.

**SatTable.** A row (the four records of one sentence) holds the cycle it was received
in. `lossy` is chosen at the start. `emitsats` looks for a row (`FoundRow`) and then
reads its four texts one by one (`ReadText`); `rx_task` may publish between any two of
these five reads, so that a row that was found may be gone when it is read.

**ConfigStore.** For each key the default, RAM (`cfg`) and flash (`nvs`).
`download_get_handler` walks the keys: `SkipKey`, or `ChangeRam` and then `SetStr` or
`EraseKey`; their failures abort and restart. `resetRequestDetector_task` checks and
erases key by key from another task. `Restart` is power loss, `abort` and
`esp_restart` alike. `expected` is the set of values a setting may have after a
restart.

**RespBuffer / ResponseStream.** A text is a value with a size; a chunk with no
characters ends the response for the client. `ResponseStream` is what page handlers
may assume; the refinement maps `received` to what the client got.

**ScanRecords.** `SortFound` is the handler up to `qsort`, whose order is any (the
signals are any); `StoreNext` is one round of its loop, `Store` the `memmove` and the
new record at the front. The page reads a row's name (`ShowName`) and later its values
(`ShowRest`); it moves only between two scans, since the event task has the higher
priority on their core. `page.missing` is a history variable: what was in the table
since the page began, was not seen again and has not been shown.

**WifiConnect** extends `ScanRecords`. `my_connect` is six steps, cut where another
task can tell: the handlers are registered (`StartStation`), the access point is
started (`StartAccessPoint`), the station joins (`Join`), and only then the semaphore
of the addresses exists (`CreateSemaphore`). The event task has a queue and is in one
handler at a time; `myon_wifi_disconnect` is in two steps, with its sleep between them,
during which events queue up. A scan is `StartScan` or a refusal, `ScanEnds` in the
driver, `ScanDone`, the records, and `GiveScan`. `mystop` runs in the task that
restarts the clock; unregistering a handler waits for the handler in progress, as the
event library does. The handler of scans is not unregistered, and its first call of the
driver is checked: after `esp_wifi_stop` `ScanDone` aborts. An `ESP_ERROR_CHECK` or an
assertion that fails is `Abort`. The driver may refuse a call of the start up to the
first `esp_wifi_connect` (`StartFails`: no memory, no network's name), fail a join or
lose the network at any time, `MaxFaults` times.

**Firmware.** `BootLoader` is ESP-IDF's with rollback enabled: a pending image is given
up, a new one goes on trial. `app_main` goes through `Stages`; `ReadOtaState` leaves in
`otaState` whatever was on the stack if the running slot has no entry. An image outside
`Working` stops somewhere before the end (`Crash`); the power may fail anywhere
(`Reset`).

**TzMap.** The partition as parts, each of a map or erased. `timezoneInit` looks at the
first part (erased, or of a map with another number of rows than 16000, `OtherSize`,
which is not used: `clockTZ.c:53`) and the last (the build date). A map stands for one of its rows: `WriteRow`
is the compression of `geojsonToBitmap10.jsl:408-440`, `timezoneGet` the walk of
`clockTZ.c:98-114` (`Walk`: where its loop is after each run), with the 16-bit `short` it
goes through, in a `Byte` of any size.

**Upload** extends both. One request at a time, since the server has one task: a map is
erased part by part and written from the front, an executable goes to the slot that is
not running, a file to SPIFFS. Each failing call of the handler is an action of its
own: the reception (`ReceiveFails`), the three ways to write (`WriteMapFails`,
`WriteExecutableFails`, `WriteFileFails`), `esp_ota_end` (`RejectImage`), and
`esp_ota_set_boot_partition`, whose result the code ignores (in `InstallImage`). A
restart may come at any time. `installed` is a history variable, the image that the
boot loader was told of and has not started yet. **TrialBoot** is what it promises: an image is kept, and only one that has worked
on trial replaces it. The refinement maps `kept` to the slot whose entry is valid (or
was never written) and `trial` to the other.

**SetupPage.** `Shown` is what the page puts in each control: nothing of a password but
the sign for a hidden one, no checked button if no button has the setting's value, a
text as a browser reads it from `value='...'`, where nothing is escaped (`Attribute`):
up to its first apostrophe, with references such as `&#39;` replaced by what they refer
to. `Form` is what a browser sends of that, without disabled boxes, and `EncodedText`
how; `urldecode2` and `Setting` are what the server makes of it. The form's charset is
`ASCII` (`clockServer.c:1607`), which browsers take for Windows-1252, and the page is in
UTF-8: a character of Windows-1252 (`Latin`) is sent and stored as one byte, which the
page then shows as U+FFFD, and any other (`Foreign`) is sent and stored as a reference.
`Entries` is what a box can hold, `Settings` what can be stored. `touched` and `fresh`
are history variables.

`MC_*` modules give constants their small values; the definitions named
`X_Something` before a definition `X` are mistakes that the properties are known
to catch: with `X` replaced by one of them, TLC reports the property.

## 4. Runs

| run | checks | bounds, and why they are enough |
|---|---|---|
| `PulseTime` | `TypeOK`, `UsedTimeIsTheReceivers`, `FreshPulseSetsClock`, `ClockFollowsReceiver` | 8 ticks a second, 5 seconds: a pulse, its sentence, the next pulse, a loss and a recovery; sentences that begin on both sides of the age window and are right, two seconds ahead or one behind; the clock starts right, slow or fast |
| `TimeSources` | `HttpYieldsToDefinitive`, `AlarmWhenStale`, `HttpSetsUnsetClock`, `FreshTimeClearsAlarm` | ages 2 < 4 < 6 stand for 5, 8 and 24 hours; uptime 6 passes all of them |
| `Multiplexer` | `OneDigitLit`, `ShowsItsGlyph`, `ChangesInTheDark`, `EveryDigitIsLit`, `SettlesOnText` | two digits, a segment in each GPIO bank, three texts through which each segment makes every change |
| `ConfigStore` | `RamMatchesFlash`, `EraseFindsItsKey`, `SavedStaysSaved`, `ResetIsComplete` | two keys (one done, one to do), three values; unbounded behaviours |
| `NmeaParser` | `TypeOK`, `RecognisesSentences`, `FieldsAreItsOwn` | all streams, up to 8 characters from each `$` on; two kinds, of two and three fields; rolling buffer of 8, so that it fills |
| `SatTable` | `WholeCycleIsPublished`, `NoRowOlderThanFirst`, `PageMovesForward` | 3 rows, up to 4 sentences (one too many) a cycle, 4 cycles: grow, shrink, lose, while a page is read |
| `RespBuffer` | `TypeOK`, `ImplementsStream` | buffer of 4, texts of 0 to 4 characters (empty, sharing, filling, too large), pages of 5 texts, any number of pages |
| `ScanRecords` | `NoDuplicates`, `QuietRowsAreShown`, `OldestGoesFirst` | 4 access points for 3 slots, 3 scans, while pages are read: fill, shift, drop, come back |
| `WifiConnect` | `ShowsTheAddress`, `ResultsBeforeNextScan`, `OnlyTwoWaysToAbort`, `NobodyWaitsForEver`, `AddressComesBack` | both addresses, two faults, one restart asked for (and those of aborts), two scans: a second disconnect during the first one's sleep, a restart in either, with a scan's event behind it; the table is small because `ScanRecords` has its own run |
| `Upload` | `MapInUseIsWhole`, `LookupFindsTheZone`, `ImplementsTrialBoot`, `InstalledIsTried`, `ClockComesUp` | two working images and a bad one, two maps of six columns with codes and runs of one byte and of two (a byte of 3 bits) and one of another size, maps of 3 parts and bodies of 2, two uploads, three resets: an update over an update that was not confirmed, each cut anywhere |
| `SetupPage` | `UntouchedStays`, `TypedIsSaved` | four of the seventeen settings, of every kind (text, password, radio; in a panel of three and of one); texts that need encoding, one that looks encoded, apostrophes, references, and characters beyond ASCII of both kinds; passwords with and without one; unbounded behaviours |
| `NmeaVoidFix` | `RuleUntilPosition` (violated) | as `NmeaParser` |

`CHECK_DEADLOCK FALSE` only in `Upload`, where the bounds on uploads and resets leave
nothing to do in the end.

`NmeaVoidFix` finds what the code does against its own tooltip: the first RMC sentence
without a fix sets the time zone of 0 N, 0 E (`clockGps.c:347-353`), where
`clockServer.c:172` says that the user's rule is used until there is a position.

What else came up, none of it contradicted by a comment strictly read:

- A receiver that is wrong makes the clock wrong: a cold start's two seconds
  (`clockGps.c:37-43`) replace even a right time of SNTP's, since a GPS time is taken
  whatever its status flag says (`clockGps.c:330-342`). `ClockFollowsReceiver` says that
  the clock is then off by that and nothing else, and `FreshPulseSetsClock` that the
  next pulse that finds a right, fresh sentence ends it.
- The definitive tick moves when the time has been refused (`clock7seg.c:354-357`).
  With a receiver whose sentences begin more than half a second after the pulse, the
  clock stays wrong, no alarm shows, and `Date:` headers are ignored, which is why
  `HttpSetsUnsetClock` excludes a late GPS.
- A reset from the page beside a magnet reset aborts on a key already erased
  (`clockServer.c:2114`), which is why `EraseFindsItsKey` excludes a magnet at work. The
  abort restarts the clock before the magnet's sweep is through.
- An address that arrives before `mystart` has created its semaphore aborts
  (`clockConnect.c:353`, `:99`): the handler is registered, and the station told to
  join, before it. And a restart aborts if the event of a scan is handled after
  `esp_wifi_stop` (`clockConnect.c:167`, `:904`): its handler stays registered.
  `OnlyTwoWaysToAbort` says that a clock that has started its WiFi knows no other.
- A setting with an apostrophe is cut off by the page that shows it, one with a
  character reference is changed, and saved so when its panel is saved
  (`clockServer.c:1632`): exceptions in `UntouchedStays`. What is typed beyond ASCII is
  stored as a byte of Windows-1252, which the next save of the panel makes
  `&#65533;`, or as a reference (`clockServer.c:1607`): the exceptions of `TypedIsSaved`
  and, again, `UntouchedStays`.
- If the boot entry of an uploaded image cannot be written, the browser is still told
  that it is installed (`clockServer.c:2526-2534`); the clock goes on with the image it
  has.
- The satellite table "should always be consistent" (`clockGps.c:299`) when no sentence
  of the cycle was lost (`WholeCycleIsPublished`).

## 5. Fairness

- `Multiplexer!MuxFairSpec`: an armed hardware timer interrupts, and an interrupt handler
  runs to its end; nothing is assumed of `say4`.
- `TimeSources!FairSpec`: the display loop keeps running (its core has no other task
  that holds it); while the setting is `open`, `time_from_headers_task` asks (weak fairness of
  `AskHttpTime`: it tests every two seconds, and after an answer every hour,
  `clockConnect.c:497-499`), and of the requests it sends for ever some are answered
  with a `Date:` (strong fairness of `PostHttpTime`), which is an assumption on the
  network.
- `WifiConnect!Fairness`: each of the clock's tasks gets its turn (they all block or
  sleep in each round), a restart goes on, and the driver answers: a join that may
  succeed does in the end, as faults are bounded, DHCP gives an address, a scan ends.
  Nothing is assumed of faults, restarts, the page or IPv6.
- `Upload!Fairness`: the boot loader and `app_main` go on, and an image that does not
  work does not stay for ever: it aborts, or somebody switches the clock off. Nothing is
  assumed of uploads or clients, so a stalled one may stay; `ClockComesUp` holds beside
  it.

## 6. Proofs

| module | of | theorems | hypotheses | argument |
|---|---|---|---|---|
| `Clock7segProof` | `PulseTime` | `TypeCorrect`, `GpsSetsWhatReceiverSaid`, `GpsAddsNoError`, `FreshPulseIsUsed` | `Prompt`: two passes of the loop fit between the pulse and the earliest sentence; the last also `Noticed` | `IInv` ties the stored time to its stamp (a stamp lies in the second in which its time was said, or between the two assignments the old pair is stale), and the loop's progress to the time since the pulse; the age window then leaves only the second before the pulse (`AgeNamesSecond`). `PInv` adds what a fresh pulse may rely on: it is counted down only by the block that sets the clock, and its sentence stays fresh for two passes more (`OwedInv`, `Stored`) |
| | `Multiplexer` | `NeverTwoDigits`, `LitDigitShowsItsGlyph`, `SegmentsChangeInTheDark` | | `MuxInv` says which words are old and which new at each step of `say4`, and for each store of the interrupt already made that its segments agree with some glyph of `shown` |
| `TimeSourcesProof` | `TimeSources` | `HttpYields`, `AlarmIsRight` | | neither is an invariant of one step: the loop decides with an age it read before. `TickInv`: the tick is the boot age's or since boot; `SourceInv`: a definitive source has moved it, or is on its way to; `TakeInv`: what the loop decided on still stands, unless SNTP was heard since. The lemmas `Ages` and `IntAges` give the subtraction mod `Mod64`, cut mod `Mod32`, its meaning |
| `GpsProof` | `NmeaParser` | `BuffersNeverOverflow`, `SentencesAreRecognised`, `SentencesHaveTheirFields` | | `NInv`: `state`, `name` and `words` are what the text since the last `$` has before, between and after its separators (`NameInv`, `FieldInv`). The properties speak of the n-th separator of a text; the lemmas on `Ends`, `Count` and `Nth` say what one more character does to them (`Countable` is there for `Nth`, a `CHOOSE`). Exactly then is a sentence recognised, which is why the invariant needs both directions of `Begun` |
| | `SatTable` | `FirstRowIsOldest`, `CycleIsWhole`, `PageGoesForward` | | `LocalInv`: what is collected is never older below than in its first row, and without a missed sentence it is exactly the rows so far of the cycle that is coming in. `PageInv`: without a loss the published table is of one cycle (`Uniform`), and all a page has read is of no later one; `HoleInv`: after a hole, a page that has read of the published cycle finds nothing more in it |
| `ConfigStoreProof` | `ConfigStore` | `WorkingCopyMatchesFlash`, `ResetNeverAborts`, `SettingsSurvive`, `ResetErasesEverything` | | `RamMatchesFlash` is not inductive: boot is loaded key by key (`BootInv`), a key is between its two writes (`StoredInv`), and a magnet reset takes overrides away under the server (`Agrees`: equal, or erased by the magnet); `ExpectedInv` carries what was asked. `ResetInv`: behind an undisturbed sweep there is no override |
| `WebPagesProof` | `RespBuffer` | `BufferNeverOverflows`, `PageIsWhole`, `BufferImplementsStream` | | sent plus buffered is the page; each emit is a `Write`, beginning and ending map to `Begin` and `Finish` |
| | `SetupPage` | `DecodingGivesBack`, `SaveTouchesNothingElse`, `SaveStoresWhatIsTyped` | | `PageInv`: an untouched box of a fresh page is what `Shown` makes of the setting; a request on its way holds what the boxes still hold; a setting is of its kind, or a radio's has no button. `Setting` undoes `Shown` on such a box if the text has none of what the page cannot show (`PlainTextIsShown`, an induction over its characters). `DecodingGivesBack` is an induction from the end of a text to its beginning: what is decoded from where a character of the form begins is the text from that character on (`DecodeStep`, `DecodesNext`) |
| `WifiConnectProof` | `ScanRecords` | `OneRecordEach`, `QuietRows`, `OldestIsDropped` | the access points are finitely many | `PageInv`: what the page still has to show is at its row or below it, and at its row only with the name already shown. A record that is not seen again only moves down (`Store`), and with one record of each no other can take its place; `NoDuplicates` is needed for that. `AgeInv`: the rows are in the order of their times, none after now |
| | `WifiConnect` | `AddressIsShown`, `ScansDoNotOverlap`, `TwoWaysToAbort`, `TableInTheClock`, `TableOfTheClock` | | `StatusInv`: the last word on the link is in the queue, or has been handled; `ScanInv`: a scan is at one place, with the driver, in the queue, in its handler or in the semaphore, and only while `scan_task` waits; `StopInv`: what `mystop` has still to do is the end of its list, so that no reconnect meets a driver that is gone, and only the event of a scan does; `BeginInv`, `OffInv`, `OnInv` say when the driver can speak at all. `TableInTheClock` is a refinement: every step of the clock is one of the table or a stutter of it, so that the table's theorems carry over |
| `UploadProof` | `Upload` | `TypeCorrect`, `MapIsWhole`, `LookupIsRight`, `UpdateImplementsTrial`, `InstalledImageStarts` | | `SlotsInv`: the slot that is kept holds a working image, and the running one is it or is on trial; `RequestInv`: an executable is received only while the kept slot runs (`esp_ota_begin` refuses otherwise), so that what is erased is never what is kept; `MapInv`: the partition holds a stretch of one map, whose first part comes first and is erased first, so that header and build date together mean all of it; `InstalledInv`: the image that is still to be started is whole in the slot that is not running, whose entry is new and comes first. `LookupIsRight` is an induction over the runs of the loop: until the column is passed, it stands where a run of the row begins, at least a byte further than before (`RunIsRead`, `WalkReaches`), so it stops, and the run it has read holds the column (`ZoneIsFound`) |
| `DataInduction` | | | | what the two inductions share: a set of numbers that is not empty has a least one (`LeastNumber`, from the well-foundedness of `<`), so induction up and down to a bound over a set of numbers (`Upward`, `Downward`); a function put together from its last piece to its first exists (`PiecesAreJoined`); where three texts lie in their concatenation (`ThreeTexts`) |

Every theorem also assumes the named assumptions of its constants, and nothing else. A
proof module treats two components where they meet (`Clock7segProof` the two halves of
`clock7seg.c`; `GpsProof` the parser and what its sentences feed; `WifiConnectProof` the
connection and the table it fills; `WebPagesProof` a page and the buffer it goes
through); `Multiplexer`, `SatTable` and `SetupPage` name their specifications `MuxSpec`,
`SatSpec` and `SetupSpec` for that.

TLC has checked each of these invariants, and the hypotheses, on the constants of the
component's run (a module that extends the proof module and the `MC_` module, with the
invariant under `INVARIANT`), before it was proved.

The hypotheses:

- `Prompt` is not a fact of the code: a pass takes about ten milliseconds
  (`vTaskDelay(1)` at 100 Hz) and receivers answer 50 to 300 ms after the pulse, but
  nothing enforces it. Without it the clock can be set a second fast (the sentence after
  the pulse is taken for the one before).
- `Noticed` is `abs()` of an `int` (`clock7seg.c:345`): an error whose milliseconds are a
  multiple of 2^32 would not be seen. `SmallErrorsNoticed` proves it for errors below
  2^31 ms (24 days); the run has it for its own errors.
- `EntriesAssumption`: a text is a sequence of characters; what the page shows of a
  setting is something a box can hold, and what the server makes of a box is something a
  setting can be. Other characters of ASCII that a browser escapes go the way of `%`
  and `'`; those beyond it go that of `Latin` or of `Foreign`, and no theorem says that
  they survive.
- `RowsAssumption`: a code and a length fit in a short. The map's maker throws at a code
  over 426 and at a length over 30000 (`geojsonToBitmap10.jsl:423-424`).
- The widths of `TimeSources`: `Mod32` is even and divides `Mod64`, and the boot age and
  the uptime together stay below half of it, 68 years of seconds.

Only model-checked:

- All liveness (`EveryDigitIsLit`, `SettlesOnText`, `HttpSetsUnsetClock`,
  `FreshTimeClearsAlarm`, `NobodyWaitsForEver`, `AddressComesBack`, `ClockComesUp`): it
  depends on fairness and so on `ENABLED`, which the prover does not handle.

## 7. Not modelled

- The brightness rule (`clock7seg.c:252-307`): floating-point interpolation of a noisy
  sensor or of the hour; `Multiplexer` takes any delays it may choose.
- The filter of the magnet's samples (`clockMain.c:107-178`); `ConfigStore` begins where
  four transitions have been counted.
- A body that is no map at all, uploaded as one: `timezoneInit` follows its header's
  offsets unchecked (`clockTZ.c:44-70`), and what it then reads is up to the flash.
- The text of the status, directory and JSON pages, the glyphs, calendar arithmetic
  (`mktime`), the scaling of a position to a cell of the map, and TZ as shared by tasks.
- The lifetime of the settings' strings (hazard at `clockServer.c:2100`), sends that
  fail (`clockHtml.c:45`), allocations that fail, and checksums of NMEA sentences, which
  the code does not look at either.
- A lookup that is under way in `rx_task` when an upload marks the map as bad
  (`clockTZ.c:94`, `clockServer.c:2335`): `timezoneBuildDate` is tested once, and what
  the walk then reads in an erased partition depends on the row.
- The commands to the receiver, the BME280 and the bus drivers (vendored), and the
  off-line tools but for the compression of a row.

## 8. Running

    tlc -config PulseTime.cfg MC_PulseTime.tla
    tlc -config WifiConnect.cfg WifiConnect.tla
    tlapm UploadProof.tla

and likewise for the other rows; the violation run ends with a counterexample.
