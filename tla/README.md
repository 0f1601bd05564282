# Red Monkey MPG: formal verification

TLA+ models, TLC runs and TLAPS proofs for the Red Monkey MPG firmware, which
turns a wireless hand controller (an 8BitDo Lite 2 gamepad, or an iPhone app)
into a USB keyboard that jogs a CNC machine. A key that stays down moves the
machine, so what matters is when a key may go down, and that it comes up again.

Paths below are relative to the repository; `live_bridge` stands for
`firmware/diagnostics/live_bridge_bench.cpp` and `mobile` for
`firmware/diagnostics/mobile_ble_bench.cpp`.

## The system

Two receiver images run on a Pico W, each as one main loop that polls Bluetooth,
runs TinyUSB, and calls its service functions in a fixed order. Callbacks run
inside the poll, never in parallel with the loop; except in the bench and
commissioning images of the gamepad receiver, where they run from a background
interrupt, between any two statements of the loop.

| Component | State | Operations | Hard part | Correct when |
|---|---|---|---|---|
| `ControlMapper` (`control_mapper.cpp`) | locked axis, awaiting-centre flag, two button latches, next step | `update(sample, now)`; an update with a disconnected sample resets | long legal sequences of samples through seven early returns | one axis until the sticks are centred; nothing moves after a cancel; one command per press |
| CNC keyboard profile (`masso_keyboard.cpp`) | none | `masso_g3_keyboard_report` | none | table |
| USB keyboard (`service_usb_keyboard()` in both receivers, `usb_keyboard_device.c`) | desired and sent report, last mount state, re-arm flag; TinyUSB's mount, suspend, endpoint; the host | publish, service, bus events, host poll | endpoint busy, enqueue fails, bus goes away in between | no key turns into another; keys do not survive an outage; releases arrive |
| `MobileInputSession` (`mobile_protocol.cpp`) | last sequence and event number | `reset`, `consume` | frames lost, repeated, late; both numbers wrap | no replay, no lockout, an event acts once and in order |
| iPhone receiver (`mobile`) | session, timestamps, direction, resolution, error, mapper, neutral requirement, USB keyboard | BLE callbacks, USB service, timeout | all orders of the above | motion only after neutral; silence releases; the phone is told what moves |
| Lite 2 parser, button mapping (`lite2_report.cpp`, `production_config.cpp`) | none | normalise, validate, apply | none | input of the bridge |
| Gamepad receiver (`live_bridge`) | link, descriptor, timestamps, mapper, mapping, setup flags, USB keyboard | HID events, reports, setup session, stale timeout, USB service | all orders of the above, mapping changed under held buttons | as the iPhone receiver; setup holds motion off |
| Connecting and pairing (`live_bridge`) | address sought, reconnect and scan timers, candidate, chord; BTstack's link and link keys | connect, scan, select, confirm, cancel, session end | links that close late, timers, power loss | only the committed controller moves the machine; no key of a rejected one stays |
| `PersistentConfig` (`persistent_config.cpp`) | two flash tags, sequence number, tag in use, configuration | `load`, `store`, `store_controller_address` | power loss at any access, failing read-back, number wrap | a restart brings back what was stored |
| `ConfigService` (`config_service.cpp`) | session, input line, transmit queue, mapping in use | `service`, commands, events | queue full, partial writes, overlong line, reconnect in the middle of a line | lines out whole and in order; every line answered once, for what it says; only a whole request stores |
| Profile registry, descriptor hash, platform stub, bring-up tools, descriptors, site | none or trivial | | | |

The receivers own a `ControlMapper` and a USB keyboard; `mobile` adds a
`MobileInputSession`, `live_bridge` the parser, the mapping, `PersistentConfig`
and `ConfigService`. They interact by direct calls in the main loop, and by
three shared variables: the desired report, the re-arm flag and the time of the
last valid report.

`PROJECT.json` lists the hazards found in the code, each at its line, with the
properties aimed at it.

## Modules

    Integers
     ├─ ControlMapper ── MapperMachine ── MapperProofs EXTENDS also KeyboardProofs
     │    ├─ MassoKeyboard
     │    ├─ MobileProtocol ── MobileLink ── LinkProofs
     │    ├─ ProductionConfig
     │    └─ Lite2Report
     ├─ UsbKeyboard (INSTANCE HostKeys)
     │    └─ KeyboardProofs     EXTENDS UsbKeyboard, MassoKeyboard
     ├─ MobileReceiver  EXTENDS MobileProtocol, MassoKeyboard, UsbKeyboard
     │    └─ MobileProofs       EXTENDS also KeyboardProofs
     ├─ GamepadBridge   EXTENDS ProductionConfig, Lite2Report, MassoKeyboard, UsbKeyboard
     │    └─ BridgeStatements
     │         └─ BridgeProofs  EXTENDS also KeyboardProofs
     ├─ GamepadPairing ── PairingProofs
     ├─ SetupService ── SetupProofs
     └─ PersistentConfig ── ConfigProofs

- **ControlMapper** is `update()` as an operator from the members and a sample
  to the members and the output frame. Time enters only as the sample's age.
- **MapperMachine** feeds it any samples, and keeps the history the properties
  speak of: the axis driven and a cancel since the sticks were last centred
  or the controller was lost, whether the dead-man was released since, and for
  each button whether this press was answered.
- **MassoKeyboard**, **ProductionConfig**, **Lite2Report** are the pure
  functions around it. Sticks are numbers of the code's own range where the
  receivers are checked, and any integers in the proofs.
- **UsbKeyboard** is `service_usb_keyboard()` (identical in both receivers but
  for bookkeeping), the part of TinyUSB it reads, and the host. `Publish` stands
  for every other writer of the desired report, under the one rule both
  receivers are then shown to obey: a step that locks releases, and a step that
  starts locked publishes no motion. `SteadySpec` is its specification on a bus
  that is never suspended, `UsbSpec` on any. **HostKeys** is the abstract specification:
  what the machine behind the cable may see.
- **MobileProtocol** is one `consume()`; **MobileLink** puts an app with
  unbounded counters before it and a link that loses, repeats and reorders.
- **MobileReceiver** and **GamepadBridge** are the two images (the iPhone image
  built with the keyboard; the configurable gamepad image, which polls). `pc`
  is the position in the main loop; between two of its stages nothing else
  runs but the host, which may take the queued report at any moment.
- **BridgeStatements** takes the gamepad receiver's loop apart where a callback
  can do harm: `service_stale_input()` into its two reads, its test and the three
  statements of its lock, `service_usb_keyboard()` into the mount check, the copy
  of the desired report and the send. `polled`, fixed at the start, chooses the
  image: with it the handlers (those of GamepadBridge) run in the poll only,
  without it between any two statements, and then there is no setup port and
  the mapping is the parser's own. The difference of times is unsigned, so a
  report that arrives after `now_ms` was read looks very old. Here `pc` names
  the next statement, and time passes anywhere, at most `LoopTime` in a pass.
- **SetupService** is `ConfigService` as the host sees it: `service()` a byte at
  a time, the line buffer, the fields of a line counted as `find_once()` counts
  them, every command, the transmit queue with its partial writes, rewinding and
  compaction, events in between, and a host that pipelines lines, closes the
  port or suspends the bus. A byte stands for the part of a line the parser
  tells apart, a queued line is two units. GamepadBridge and GamepadPairing have
  the effects of its commands.
- **GamepadPairing** is the other half of `live_bridge`: which controller is
  sought, and the pairing transaction. GamepadBridge has its result as a
  nondeterministic flag (`pairing_candidate_selected`), GamepadPairing has the
  reports only as the confirmation chord.
- **MCParts** puts MCMapper, MobileLink, PersistentConfig and MCPairing, which
  share no state, into one run: a behaviour is one of one of them, chosen at the
  start. **MCUsbOutage** adds a history of suspends to UsbKeyboard.
- **PersistentConfig** has one action per flash access, so power may fail
  between any two; a write may be torn or fail, and a read-back may fail.
- **KeyboardProofs** has, besides the theorems on the keyboard, what `update()`
  and the profile's table give: lemmas that the proofs of the mapper and of both
  receivers use.

Two representations recur. The time since the last accepted report is `silence`,
counted in units that saturate just above every bound; `stamped` is whether the
code's timestamp is non-zero, its value for "none". `rearm_required` is the name
of `mobile`'s `neutral_required` too.

In several modules a definition stands right before another of the same
parameters and is a faulty variant of it (`AxisReselected` before `AxisInUse`).
They are used nowhere: with the variant in place of the right one, the property
named with it in `PROJECT.json` under `mutants` fails.

## Runs

| Run | What it asks | Result | Distinct states |
|---|---|---|---|
| MCParts | the mapper for any samples (1 830 states); replay, lockout and events across wrapping numbers (19 833); power loss and failures during stores (4 074); pairing over late links and power loss (27 748) | holds | 53 485 |
| MCMobile | iPhone receiver: safety, refinement of UsbKeyboard, liveness | holds | 151 416 |
| MCBridge | gamepad receiver: safety, refinement of UsbKeyboard | holds | 2.7 million |
| MCStatements | the same loop by statements, polled or interrupted anywhere: locks, timeout, tracking, refinement of HostKeys, liveness | holds | 104 893 |
| MCSetup | setup protocol: framing, order, answers, splicing, stored mappings, progress | holds | 359 747 |
| MCMapperCentre | sticks centred before another axis, or after a cancel (CONTROL_MAPPING.md:18, 42-44) | **violated** | |
| MCUsbSuspend | a suspend releases the keys (ARCHITECTURE.md:33-36) | **violated** | |
| MCUsbOutage | no key of before a suspend is sent after it (usb_keyboard_device.c:5-7) | **violated** | |
| MCMobileReversal | neutral before an axis is reversed (IPHONE_END_USER_GUIDE.md:50-51, 74) | **violated** | |
| MCBridgeClock | the timeout always fires (LIVE_BRIDGE_BENCH_TEST.md:48-49) | **violated** | |
| MCPairingRestore | closing setup restores the controller (CONFIGURATION_PROTOCOL.md:72-74) | **violated** | |
| MCPairingCandidate | a candidate that is not committed never moves the machine (CONFIGURATION_PROTOCOL.md:72) | **violated** | |

MCParts does not check deadlock: the app of MobileLink stops at `MaxFrames`, with
nothing left on its link.

### What the properties say

- `AxisKeptWhileHeld`, `CancelHolds`: the axis driven, or the cancel, holds until
  all sticks are centred or the controller is lost, as long as the dead-man is
  not released in between. `RecentreBeforeMotion` is what the documents say, without
  that condition, and is violated. `HeldButtonNeverRepeats`: one command a press.
- `HostIsTracked`: without suspends, `sent_report` is enough to know what the
  host holds. `UsbImplementsHostKeys`: all keys are up between two different
  reports. `QueuedKeyIsArmed`: a key is queued only while a service has seen the
  bus mounted and nothing is locked since, with suspends too. A suspend and
  resume between two services is not seen, and a key of before such an outage is
  queued after it: `SuspendDropsKeys` says otherwise, and is violated.
- `CopiedKeyIsArmed`: whatever a callback does between the statements of a lock,
  a key copied to be sent was asked for after a neutral report. `KeyRunsOut`: a
  key is asked for at most the timeout and two passes, wherever reports land
  among the statements of the stale check; no report that overtakes the reading
  of the clock makes a key last. The two are what is left of `MotionNeedsNeutral`
  and `QueuedKeyIsArmed` at this grain: a callback that locks between the copy
  and the send lets one late key out. `HostIsTracked` says that this key is
  known, and `ReleaseReachesHost` that it is taken back.
- `NeverBackwards`, `FreshFrameAccepted`: the session accepts exactly what is
  newer, in both directions. `EventsActOnceInOrder`, `AcceptedEventActs`: the
  same for button events.
- `MotionNeedsNeutral`: after any loss, bad report, silence, setup session,
  mount change or failed send, no motion before a neutral report. The history
  variable records neutral reports on its own, not through the code's flag.
- `NeutralBeforeSwitch`: the phone is told of motion along another axis only
  after a frame without motion (no direction, or the dead-man up). The history
  is of the last direction moved since such a frame, so that a moving frame on
  which nothing was reported does not count as one.
  `NeutralBeforeReversal` says the same of the sign, and is violated.
- `SilenceReleases`: a key is asked for at most the timeout plus one loop pass.
- `StepNeedsNewPress`: also when setup maps a held button to a step.
- `MobileImplementsUsb`, `BridgeImplementsUsb`: the receivers are refinements
  of the keyboard (by identity on its variables): the iPhone image, checked
  without suspends, of `SteadySpec`, the gamepad image, checked with them, of
  `UsbSpec`. The theorems on these two then hold of the receivers.
- `RestartBringsBack`: a restart brings back, mapping and address together,
  what was last reported stored; only a store cut short may go either way, and
  a store reported failed never shows up.
- `MotionOnlyFromCommitted`: outside setup, the reports that are mapped from a
  link the receiver still holds are the committed controller's. It leaves out
  the two cases in which `UncommittedNeverMoves`, of any link, is violated: a
  rejected candidate's link that still closes, and a controller bonded while it
  was rejected when none is stored. `BondsAreCommitted`, `CommitNeedsFreshBond`,
  `CandidateIsSought`: the pairing transaction commits whole or leaves nothing.
- `TxIsFramed`: what TinyUSB is given is whole lines, over partial writes, a full
  queue and lost sessions. `AnswersInOrder`: at most one answer a line, in the
  order of the lines. `AnsweredAsAsked`: it is the answer to what the line says,
  unless its beginning was lost or it continues an unfinished line of an earlier
  session. `OnlyOneLineStores`: even such a splice stores no mapping but that of
  a line whose fields all arrived, with no other line's among them, unless two
  losses of the session fell into it.
  `RequestsAreAnswered`: an answer is dropped only in a pass that got a line too
  short for a request. `HostKnowsMapping`: the answer read last tells the mapping
  in use, through failed stores, lost sessions and restarts of the session.
- Liveness: `ReleaseReachesHost`, `SilentPadReleasesHost`, `SetupReleasesHost`
  (at the statement grain, both kinds of image), `SilentPhoneReleasesHost`, and
  `LinesAreAnswered`.

### Bounds, and why they are enough

- *Mapper*: deadzone 1, sticks from {-3..3} with values at, inside and outside
  it, so that either of X and Y may be larger and Z may win; age below, at and
  above the timeout. The code compares magnitudes only. The proofs need no bound.
- *USB* (MCUsbSuspend, MCUsbOutage): two motion and two step reports. One of each
  is needed
  to tell them apart, two to see one become another.
- *MobileLink*: numbers modulo 8 and 2, 11 frames and 4 events, so both wrap.
  A late copy is at most half the number space old and fewer frames than that
  are lost in a row (`MaxLag`, `MaxLost`): at 16 bits and the app's rate this
  is minutes. Events wrap at 256 in the code; at most 255 may be unanswered.
- *Receivers*: timeout 1 or 2 units and one unit per loop pass, so that reports
  arrive before, at and after it. MCMobile: X both ways and Y, with a step and a
  cancel; MCBridge: centred and X out, no button, either mapping's dead-man, and
  A, which cycles in one mapping and selects in the other; a bad frame. Which
  axis is chosen is the mapper's own run. MCStatements and MCBridgeClock have only
  the dead-man and a stick, in MCStatements both ways so that one key may follow
  another: where a callback lands does not depend on more.
- *Setup*: every kind of line before a request, and more lines where they
  matter: two stores and a query, requests that fill the queue, short lines
  behind one. One event and one loss of the session, each at any moment between
  two passes. The line buffer holds three bytes, which every request but the
  overlong one fits; TinyUSB has room for half a line. The queue holds four
  lines and a pass takes at most seven bytes: requests, events included, always
  fit and short lines do not. This is `RoomAssumption` at these sizes, and it
  stands for the code's own: 256 bytes of a pass hold the ends of at most eight
  requests (the shortest has over thirty bytes, and of the first only the LF may
  be left), each answered, its event included, with less than 400 bytes, and the
  queue has 4096.
- *Configuration*: two mappings, two addresses, numbers modulo 5: the order of
  two neighbouring records across the wrap is what counts, and the proof is for
  every modulus above 2.
- *Pairing*: two controllers, so that a candidate may be the stored one or not.

A suspended bus is in MCBridge, MCSetup, MCUsbSuspend and MCUsbOutage; the runs
with tracking
or liveness of the keys have none, since with suspends these fail (see
*Disagreements*).

All type invariants are theorems. They are not repeated in the runs but for
MCSetup, where it is a property of its own: the bounds of the buffers.

### Fairness

The main loop never blocks, so each of its stages is weakly fair, with the
exception of events that come from outside: reports, bus events and the user.
In BridgeStatements this is weak fairness of "the loop executes its next
statement", whatever interrupts it. The host polls an interrupt endpoint (weak
fairness of `HostTakesReport` and `HostTakes`). An enqueue that is tried again and again
succeeds at last (strong fairness of `UsbSend` in MobileReceiver and of
`SendSucceeds` in BridgeStatements): a TinyUSB that refuses for ever while it
says it is ready has no remedy in the code. Nothing makes a controller report,
and nothing makes a bus come back.

In SetupService the loop is weakly fair, the host goes on reading, and it ends a
line that it began. The last two are strong, because `tud_task()` runs between
two passes of `service()` and not within one. That the host begins a line, opens
the port or resumes the bus is not assumed: `LinesAreAnswered` is about a session
that is not lost again.

## Proofs

Eight modules hold theorems for every value of the constants.

- **MapperProofs**: `TypeOK` and `HistoryInMapper` are inductive together.
  `HistoryInMapper` is needed because the three guarantees speak of the past: it
  says that what the history remembers is still in the mapper's latches (an axis
  driven is still locked or centring is awaited, as long as the dead-man was not
  released, and so on). What is proved of the axis and of a cancel is what the
  code gives, not the documents' `RecentreBeforeMotion`. Each guarantee is
  then a fact about one `update()`. Assumed: the deadzone is a natural number,
  samples have the types of the code, sticks are any integers.
- **KeyboardProofs**: `UsbTypeOK`; `HostIsTracked` of `SteadySpec`, inductive with
  the types and with "never suspended"; from it the refinement of HostKeys; and
  `QueuedKeyIsArmed` of `UsbSpec`, suspends included, by the invariant that a
  locked keyboard asks for nothing. It says nothing of a suspend and resume that
  no service saw (MCUsbOutage).
- **MobileProofs** and **BridgeProofs** show that every step of a receiver is a
  step of the keyboard or leaves it alone, for any frames, reports, mappings,
  timeout and pass length, so that the theorems of KeyboardProofs hold of the
  receivers. MobileProofs assumes a bus without suspends, as `SteadySpec` does.
  - `MotionNeedsNeutral` needs `UnlockedByNeutral`: when nothing is locked, a
    neutral report was seen. In MobileReceiver it goes together with the
    reported direction (`MotionInv`: a direction that is active is the axis the
    mapper holds, or output is locked), since which axis may follow which is
    decided by the two. `NeutralBeforeSwitch` needs `AxisIsKept` besides: after a
    jog the mapper holds its axis or awaits centring, or output is locked, until a
    frame without motion. That only such a frame frees it is a lemma on `update()` for the
    inputs a frame becomes (`MovingKeepsAxis`).
  - `SilenceReleases` needs `KeyIsTimed`: a key has a time, and how old it may be
    depends on whether the check of this pass is still to come. Assumed:
    `~ClockWraps`, that is, no report in the millisecond in which the clock
    reads zero. MCBridgeClock shows that it fails without.
  - `StepNeedsNewPress` needs `LatchesFollow`: the mapper's latches are what the
    last mapped report held, also through re-arming and a change of mapping.
  - At the statement grain: `KeyRunsOut` by `KeyHasTime` (a key keeps its time
    until the release that follows, and is past it by no more than what was
    spent of this pass, and of the one before until the check), again under
    `~ClockWraps`; `CopiedKeyIsArmed` by `KeyIsArmed` (under a lock no key is
    asked for, but between the lock's first statement and its last); and, on a
    bus without suspends, `HostIsTracked` and the refinement of HostKeys by
    `SentOnCheckedBus` (a copy is sent on the bus it was copied for).
- **LinkProofs**: for number fields of any width, any number of frames and any
  loss, repetition and reordering the fields suffice for (`NumbersSuffice`, an
  assumption on the constants: frames lost in a row fit into half of the
  sequence space and a copy's lag into the rest; the app's unanswered events fit
  into the event space). The invariant relates
  the session's numbers to the app's unbounded counts (`SessionFollows`,
  `EventsFollow`); the lemmas on `%` say that within such a window the wrapped
  comparison is the comparison of the counts.
- **PairingProofs**: for any set of controllers. The four properties (not the
  violated `UncommittedNeverMoves`) are proved
  of one invariant, `PairingInv`: the links in use are with the controller
  sought, a selection ends the scan, a candidate's link key is of its own
  selection, and without a selection the committed controller is sought.
- **ConfigProofs**: `InUseIsNewest` says where every record is at each point of
  a store and what `load()` would find if power failed there. It rests on
  lemmas on numbers modulo any `RecordModulus > 2`: a successor is newer than
  its predecessor and not the other way round. `RestartBringsBack` follows.

- **SetupProofs**: for any sizes of the buffers, any scripts, events and losses
  of the session. `SizesAssumption` says that a buffer holds something, that a
  line fits into the queue and the fields of a request into `input_`. The state
  is sequences; what is known of them is said of each place, so that no proof
  needs induction over their length.
  - `TxIsFramed` is inductive for `begun \o Pending`: what TinyUSB still has to
    get, behind the half it got last. Each operator of the queue keeps it, as
    lemmas state (`ServiceTxFrames`, `CompactedFacts`, `WriteLineFacts`).
  - `AnswersInOrder` and `HostKnowsMapping` rest on `FlowSound` (what the host
    wrote and was not read yet is of lines begun, in the order it was written)
    and `AnswersSound` (an answer on its way is to an earlier line than any byte
    still to be handled, and reports the mapping in use unless a later line
    changed it). So the answer to the line that ends now comes last.
  - `AnsweredAsAsked` needs `LinesSound`: bytes follow each other as written but
    for cut lines, the next line is cut if an unfinished one is in front of it,
    and the bytes of a line that is not cut, up to the one read next, are all
    the line buffer has (`LineIsFed`).
  - `OnlyOneLineStores` needs to know the buffer of a line that was cut too
    (`InputsSound`): its bytes are in order, none is missing between two of them
    unless the line is refused, and a loss of the session leaves at most one
    line without its end (`LossesCut`). With one such line in the buffer, the
    "protocol" and "command" counted once are of one line.
  - `RequestsAreAnswered` needs `PassIsPaid`: in a pass without short lines,
    every answer queued is paid for by the bytes its line took, an event
    by one more. Assumed: `RoomAssumption`, that so many answers fit (see
    *Bounds*).

Only model-checked: the liveness properties (ENABLED and fairness are out of
TLAPS's reach), among them `LinesAreAnswered`. The seven properties that are
violated are, of course, not proved.

## Disagreements between code and documents

Seven have runs, and are listed under `findings` in `PROJECT.json`.

1. *Suspend keeps keys down* (MCUsbSuspend). A suspend clears `sent_report`
   without a report being sent; after the resume nothing differs from it, so
   the host, which keeps its keys across a suspend, is never released.
2. *A short outage is not seen* (MCUsbOutage). The service compares the mount
   state with that of its last call. A suspend and resume within one `tud_task()`
   requires no re-arm, and a key of before them is queued after them.
3. *The dead-man undoes the axis lock and a cancel* (MCMapperCentre). Releasing
   it with the sticks still out resets the locked axis and the awaited centring
   (`control_mapper.cpp`:45-47); held again, it jogs at once, along any axis.
   CONTROL_MAPPING.md:42-44 and README.md:149 want all sticks centred before
   another axis, CONTROL_MAPPING.md:18 a neutral re-arm after a cancel. Each half
   of the property is violated by itself.
4. *An axis is reversed without neutral* (MCMobileReversal). The mapper locks an
   axis, not a sign (`mobile`:199; IPHONE_END_USER_GUIDE.md:50-51, 74).
5. *A clock of zero disables the timeout* (MCBridgeClock). Zero means "no report
   yet"; a report consumed in the millisecond in which the 32-bit clock wraps is
   never timed out. `mobile`:277 is the same.
6. *Closing setup may leave the controller disconnected* (MCPairingRestore). A
   scan drops the link and its reconnect timer; if it ends by itself, closing
   setup cancels nothing, and nothing seeks the stored controller. A controller
   that connects by itself is still accepted.
7. *A rejected candidate may move the machine* (MCPairingCandidate), in two ways.
   Closing setup asks for its link to be closed, but until it is, its reports are
   mapped (`live_bridge`:656): the descriptor is still ready, no candidate is
   selected and no session is active. And without a stored controller its address
   stays the one whose incoming connections are accepted (`live_bridge`:341, 653):
   if its link key arrives while its link closes, it connects again later. Each
   violates the property by itself.

Seen while modelling, without a run:

- `mobile` sets the resolution it reports to the phone before the mapper decides
  whether to send the key that selects it (`mobile`:187), so the displayed step
  may not be MASSO's (IPHONE_END_USER_GUIDE.md:72). MobileReceiver has it so.
- The bench image without a keyboard reports another axis at once
  (`mobile`:180-186; MOBILE_BLE_BENCH_TEST.md:17-18).
- A record that fails to read at one boot only restarts the numbering below it
  (`persistent_config.cpp`:141; CONFIGURATION_PROTOCOL.md:74-76). In the model,
  reads fail at the read-back only.
- Commands are held back until everything earlier was sent, but this is tested
  once per pass, not before each command (`config_service.cpp`:351;
  CONFIGURATION_PROTOCOL.md:43-45: "new commands are backpressured until the
  prior response drains"). A pass of 256 bytes holds few requests, whose answers
  the queue has room for; lines too short to be requests may be enough to fill
  it, and the answer to one is then dropped. `RequestsAreAnswered` states this.
- The input of a session that ends and another that begins between two passes is
  one line to the firmware (`config_service.cpp`:339-346). `AnsweredAsAsked` and
  `OnlyOneLineStores` say what can come of it: one line taken for another, but
  after one loss a mapping is stored only for a line whose fields all arrived. After two losses
  the fields of two unfinished lines may pass for a request: the command of one
  whose beginning was cleared, and behind it the protocol of another, since
  `find_once()` (12-16) does not look at their order.
- A callback that locks between the copy of the desired report and its sending
  lets one report out late (`live_bridge`:486-505). Only the background-IRQ
  images have it; it is taken back in the next pass.

## Not modelled

- *Profile registry*, descriptor length and hash: there is one profile, and the
  name and class it is asked about are always ones it accepts (`live_bridge`:
  280-290, 566-568, 651-652), so the verdict is that on the descriptor the
  controller sends: the input `DescriptorSupported`/`DescriptorUnsupported`.
- *Bench image* of `mobile`, which has no keyboard, and its notifications.
- The setup protocol's JSON text: a line is its fields, a value is valid or not.
- BTstack, TinyUSB, the flash store, the host and the app are external and
  modelled from how the code uses them: one HID link at a time; an open link
  has a link key; a link still opening when the receiver
  asks for its disconnection does not open afterwards (`DropLink`; the open event
  is not compared with an address, `live_bridge`:359-367, so BTstack must see to
  it); a TLV write is whole or unreadable; TinyUSB keeps or loses
  what its serial FIFOs hold when the port closes.
- LEDs, printing, timings other than the stale timeout (a timer may fire at any
  moment), `last_hid_cid` (it only repeats a disconnect).
- A callback interrupting another one, or the four bytes of a time being read:
  BTstack's handlers run one at a time, and the times are atomics.
- Setup and pairing are composed with the bridge by their effects only (the
  session, the stored mapping, whether a candidate is selected); the product of
  the three is out of TLC's reach.
- Bring-up tools, platform stub, descriptors, build and site: constant data,
  printing or scripts.

## Plan

Done, in this order: mapper; USB keyboard; mobile protocol, link and receiver;
gamepad receiver; persistent configuration; pairing; setup protocol; the gamepad
receiver by statements, with interrupts; proofs for all of them.

Left: reads of flash that fail at one boot only, once it is decided what the
receiver should do then.

## Running

    tlc -workers 2 -config MCParts.cfg MCParts.tla             # likewise MCMobile,
                                                               # MCBridge, MCStatements, MCSetup
    tlc -workers 2 -config MCMapperCentre.cfg MCMapper.tla     # a counterexample
    tlapm MapperProofs.tla                                     # and the other *Proofs

The runs that end in a counterexample are `MCMapperCentre` (of MCMapper),
`MCUsbSuspend` (of MCUsb), `MCUsbOutage`, `MCMobileReversal` (of MCMobile),
`MCBridgeClock` (of MCBridge), and `MCPairingRestore` and `MCPairingCandidate`
(of MCPairing).
