# Verification of the Wi-Fi headset

TLA+ models of the headset firmware (`src/main`, `src/components`) and of the
host program it talks to (`src/server`), checked with TLC on small instances,
with theorems checked by TLAPS for all values of the constants.

## The system

The headset finds a host on the Wi-Fi network, keeps a control connection to
it, and exchanges audio with it over UDP.

| Component | State | Operations | Talks to | What is hard |
|---|---|---|---|---|
| Jitter buffer (`jitter.c`) | ring of slots, read and write position, `started`, `anchored`, `slots_count`, level of the fade | `jitter_put`, `jitter_get` | receive thread and player, under its mutex | packets lost, late, repeated; numbers that wrap; underrun and restart |
| Audio transport (`audio_transport.c`) | socket, jitter buffer or passthrough ring, history, receive thread | open, close, send, recv, `rx_thread`, `history_resend_nacks` | the same code at the other end | history shared by two threads without a lock; open failing half-way; close against running threads |
| Packet format (`pkt.c`) | none | build, measure, send, parse | transport | the place of the second block is read from memory that held another packet |
| Main loop (`main.c`) | `s_app_mode`, event queue | one handler per event; mode switches SLEEP, CONF, MAIN | every part of the device | events that arrive in a mode they were not posted in; calls that block |
| Discovery (`discovery.c`) | `s_task`, its socket | start, stop, broadcast and wait | posts HOST_FOUND | a task that suspends itself and is deleted by others |
| Control connection (`control_transport.c`) | `s_task`, `s_sock` | start, stop, connect, poll | posts HOST_CONNECTED, HOST_DISCONNECTED | failed connects, ends that are not seen |
| Audio session (`i2s_periph.c`) | `s_open`, `s_play_task`, `s_mic_task`, codecs, channels | init, open, start, stop, close, deinit | transport, codecs, I2S | two tasks stopped by a flag and a blocking call, without lock or join; half-opened sessions |
| Wi-Fi (`wifi_handle.c`) | `s_sta_retry_num`, interface | station, access point, event handler | posts WIFI_CONNECTED | retries across mode switches |
| Button and LED (`periph.c`) | debouncing and click state; LED mode, time, level, hold of the pad | tick every 10 ms, set the mode | posts POWER_SWITCH, CONF_SWITCH | bounce, timing of gestures; a mode set in the middle of a tick |
| Captive portal (`captive_portal.c`) | HTTP server, per-session page | login, restart, start, stop | posts CONF_SWITCH, storage | a request in flight when the server stops; a body that comes in parts |
| Storage (`nvs_storage.c`) | SSID and password | get, set | flash | two writes, one commit, a reset at any point |
| DNS server (`dns_server.c`) | socket, task, handle | start, stop, answer | portal's clients | lengths and counts of a reply; a handle shared by two tasks |
| Host (`server/main.c`, `discovery.c`, `control_transport.c`) | position in the loop, `g_run`, sockets | capture, respond, accept, serve, close | headset | blocking calls, SIGINT, stale broadcasts, vanished clients |
| Host audio (`server/audio_dev.c`) | accumulator, decoded frame and position in it | two callbacks, start, stop | transport, audio library | calls of any length regrouped into frames; what a session leaves behind |

What makes each part correct:

- jitter buffer: the counter is exact, a frame waiting for its turn is never
  lost to another, a missing frame is asked for and only once, playback starts
  after the target depth and resumes after every gap, the level never jumps;
- transport: what is played under a number is what was sent under it; the
  passthrough ring is a bounded queue; nothing is used after it was freed;
- packets: what is built is what is parsed, whatever the memory held;
- audio session: no task works on a codec, a channel or the transport after it
  was closed, whatever failed to open leaves nothing behind;
- device: sound is played only for a live session in mode MAIN, every mode
  leaves nothing of the previous one behind, sessions keep coming;
- button and LED: a gesture causes the event it stands for, no other and not
  none; the LED shows the mode that stays set and is dark when it is off;
- portal, storage, DNS: the station never uses a name with another network's
  password, what was called saved stays, the form is found by any name;
- host: no captured or played sample is lost or repeated, every end of a client
  frees it, SIGINT ends it;
- both: neither waits for ever for a partner that will not come.

## Modules

| Module | Models |
|---|---|
| `SeqNum` | wrapping sequence numbers and `seq_diff` |
| `Jitter` | `jitter.c`, with the most general client: any packet at any time |
| `AudioStream` | `Jitter` fed by one numbered stream over a lossy, ordered link |
| `AudioLink` | `Jitter` at one end, `audio_transport_send` and the serving of requests at the other, over a network that loses, delays, reorders and repeats |
| `Listener` | what a direction of audio promises the listener; `AudioLink` implements it |
| `FrameQueue` | what the passthrough mode promises: a bounded queue that drops its oldest frame |
| `PassRing` | the ring of `audio_transport.c` that implements it |
| `HostAudio` | `PassRing` between the receive thread and the host's callbacks, with `audio_tx_thread`, `audio_rx_thread` and the host's starts and stops |
| `Pkt` | the packets of `pkt.c`, as operators; `AudioLink` sends them |
| `AudioTransport` | what a transport does and asks of its owner: open, close, the receive thread and two streams |
| `I2sPeriph` | the headset as that owner: `i2s_periph.c` with its codecs, channels and two tasks |
| `DeviceApp` | the main loop with discovery, control task, Wi-Fi, portal restart, audio session |
| `Button` | `periph_btn_tick` and its handler, one step per tick; checked through `Periph` |
| `Periph` | `periph_task`: `Button` and the status LED, against the main task that sets its mode |
| `DnsReply` | `parse_dns_request`, as operators |
| `Portal` | the login form, the storage, the station's credentials, the life of the DNS server |
| `ServerApp` | the host's loop and its sockets; checked through `Session` |
| `Session` | `DeviceApp` and `ServerApp` together |

The theorems are in modules of their own:

| Module | Proves about |
|---|---|
| `ModArith` | lemmas: remainders |
| `JitterProofs` | `Jitter`, alone and in `AudioStream` |
| `AudioLinkProofs` | `Pkt` and `AudioLink` |
| `HostAudioProofs` | `PassRing` and `HostAudio` |
| `AudioTransportProofs` | `AudioTransport` and `I2sPeriph` |
| `PeriphProofs` | `Button` and `Periph` |
| `PortalProofs` | `Portal` |
| `SessionProofs` | `DeviceApp` and `Session` |

Variables carry the names of the code's variables where there is one. A
comment `Slip:` marks a variant of the definition that follows it, with an
error of a kind that is easily made; no specification uses it. Each property
is violated when the slip recorded for it in `PROJECT.json` takes the
definition's place.

### Correspondence and abstraction

- **Jitter.** One action per outcome of `jitter_get` (`Prebuffer`, `Play`,
  `Underrun`, `Skip`) and one for `jitter_put`; the mutex makes each atomic. A
  slot holds a frame or `NoFrame` (the code's `valid` is false). A frame's
  samples are one value; an output carries besides it the gain at its first
  sample and after its last, which is all the fade is about. Gains count steps
  of `JITTER_CONCEAL_FADE_STEP`.
- **AudioLink.** The two threads of the sender take a step at each access to a
  history entry: label (`valid`, `seqnum`), data, and in the server of
  requests the check, the label and the copy. A copy taken while the entry is
  being written may find either frame. A packet once sent stays available,
  which makes loss, delay, reordering and duplication one thing.
- **Listener.** The abstract specification of one direction: `Record` adds a
  frame to those recorded, `Hear` and `Miss` take the period of the frame whose
  turn it is, `LoseThread` is a silence from which the listener may start anew.
  In `AudioLink` what is recorded are the frames handed to
  `audio_transport_send`, the turn is `read_seq` while playback runs, and the
  ear has what `jitter_get` returned as a good frame. Everything else the link
  does (history, requests, resends, arrivals) is a stutter.
- **Pkt.** A payload is a sequence of fields, one for each number and piece of
  audio; the two magic bytes are two flags. `Pkts` is any memory a packet is
  built in, for `pkt_init` resets only the flags.
- **HostAudio.** A captured sample is its number in the session, a played one
  its frame and its place in it. A step is one round of a callback's loop.
  `ma_device_stop` waits for the device's callback, which is an assumption
  about the library. The codec is left out: a decoded frame is the frame.
- **AudioTransport.** What the threads do with the buffers is left to the
  modules above; here a thread is inside a call or not, a pointer is null,
  live or freed. The guards of `Calls` and `Close` are what the transport asks
  of its owner: no call but while the streams are started or being stopped, no
  close while one is inside.
- **I2sPeriph.** The same actions without those guards (`CallBegins`,
  `CloseBegins`), under what the headset does instead: two handles set to NULL,
  two channels disabled, and priorities that let the main task run only while
  both tasks block (`MainRuns`). `i2s_channel_disable` waits for a read or
  write under way, which is an assumption about the driver.
- **Periph.** Between the task's look at `s_led_mode` and what it does about it
  the main task may set another mode. The pad shows the output register unless
  it is held.
- **DnsReply.** A question is its type and the length of its name. The reply is
  its length and its records: the access point's address, or zeros.
- **Portal.** A network stands for its SSID and its password. A body may arrive
  in part; each storage call may fail; a reset may lose what was written and
  not committed, each key for itself. Each client's session holds its status.
  The early error returns of the form's handler set no status and are no
  steps. `EnterConf` waits for the last DNS task to be gone: in the code the
  half second on leaving MAIN and the task's receive timeout of 100 ms see to
  that, which is an assumption about time.
- **DeviceApp.** A handler runs to the next call that blocks; `main` says
  which (`closing`, `bye`: `audio_transport_close`; `tcp_delay`, `conf_delay`:
  the half seconds; `httpd_stop`). The tasks of priority 0 run only then, or
  when there is no event (`MainBlocked`), because the main task has priority 1
  on a single core. The Wi-Fi and HTTP tasks run at any time. Posting waits
  while the queue is full. Deep sleep forgets everything. The address and the
  event it causes are one step (`WifiGotIp`): a post that waits on a full queue
  is an address that comes later.
- **Button.** Time is in ticks. The timers and counters stop at the highest
  value that the code tells from the ones below it.
- **ServerApp.** `host` names the call the loop is about to make or blocked
  in. A broadcast, and the client captured from it, is `live` while its sender
  still has the socket it asked on. A dead connection is one whose close will
  never come: the keepalive ends it.
- **Session.** The free partner of the headset is replaced by the host, whose
  client is the headset.
  `SocketsFollow` makes the host's view of the network follow the sockets that
  a step of the headset closes. One host, one headset. The host's answer may be
  lost (`LoseAnswer`); a lost broadcast is one not yet made. The close of a
  host that has ended the session arrives (`HostEnds`) or is lost
  (`CloseLost`). A
  stopped host may be started again (`Restart`). `spoiled` remembers that a
  handshake was disturbed; it is history and guards nothing.

## Runs

| Run | Question | Bounds |
|---|---|---|
| `jitter` | counter exact, waiting frames kept, no jump of the level, for any packets in any order | 12 numbers, ring of 3 (which divides 12, as 64 divides 65536), target 2, fade of 2 steps |
| `audio_stream` | with isolated losses the prebuffer fills, only missing frames are asked for, numbers are skipped only towards a frame that waits, playback comes back for ever | 24 numbers, ring of 6, target 3, sender at most 9 ahead |
| `audio_link` | frames asked for once; what is played as good came in a packet of its number; the sender gives up only on frames too old; a young frame is resent intact despite the unlocked history; a packet of both blocks parses; the link implements `Listener` | history of 2, 4 frames from number 16 of 18 (so the numbers wrap), requests up to 3 frames late; packets of 2 requests and 1 field of audio |
| `host_audio` | no sample lost, repeated or kept from the session before; the ring implements the queue | ring of 2, frames of 2 samples, calls of up to 3, samples numbered modulo 5 |
| `audio_session` | nothing used after it was closed, open is all or nothing with its codecs, the headset keeps to what the transport asks, close returns | none needed |
| `device_app` | sound only for a live session, with every failure, drop and gesture | queue 4, 4 gestures, 3 drops, 1 retry |
| `periph` | a gesture is recognised as what it was, a long press in time; the LED shows the mode that stays set | debounce 3, long press 8 ticks, no bounce; blink 1, flash 3, lit 1 |
| `session` | accept is always awaited, no mode leaves parts of another behind, suspended tasks are deleted, sessions keep coming, the portal answers | queue 3, 6 gestures, SIGINT and restarts of the host and lost answers at any time, no failures, addresses to an idle loop |
| `session_any` | the headset plays only for a connection the host serves, every session ends at the host, its close ends the playing at the headset, SIGINT stops the host | queue 3, 2 gestures, 1 drop, failures, SIGINT |
| `portal` | no pair of two networks is used, what was called saved stays, the DNS task keeps its handle, the form is found | 3 networks, one of them too long for the handler, 2 clients; DNS queries of one name (2 or 8 bytes, or the longest that fits), and of pairs of short ones |

The bounds keep the code's proportions: a ring smaller than half the numbers,
a target below the ring, a window for the sender larger than the ring, a queue
that can fill (the code's holds 8), more gestures than one switch back and
forth takes. Each mutant of the definitions is caught within them.

### What does not hold

Two runs end in a violation of a statement found in the source:

- `audio_stream_burst` (`PrebufferFills`): a packet that anchors the buffer and
  is followed by as many losses as the ring has slots, less the few that fit,
  leaves it deaf. Nothing moves the window while playback has not started, and
  all later packets are outside it.
- `device_discovery` (`SuspendedIsDeleted`): discovery started by an address
  event that is handled after the switch to CONF runs on through the switch
  back to MAIN, which does not stop it. Its next broadcast fails while the
  station connects, it suspends itself, and the discovery that the new address
  should start is refused. On a settled access point a broadcast can be sent:
  `DiscFails` lets it fail only where no interface is up, or a call may fail.

Behaviour that the models contain and the properties are worded around:

- `AcceptIsAwaited` and `SessionComes` exempt a *spoiled* handshake (the
  history variable of `Session`): a mode switch in the middle of a handshake, a
  host stopped there, or a lost answer, leaves the other side waiting. The host's `accept`
  has no timeout, and the host does not read broadcasts meanwhile. A headset
  that connects between the host's answer and its `listen` is refused,
  suspends its control task and never asks again.
- `PortalAnswers` exempts a full event queue while the portal stops: the
  restart handler waits for the queue, the loop that would empty it waits in
  `httpd_stop` for the handler. The run reaches that state.
- `SessionComes` is checked without failing calls: a failed `connect` suspends
  the control task (`ctrl = "failed"`) and posts nothing.
- `PlayingEnds` exempts a close that is lost, and one that has no Wi-Fi to come
  over: the headset keeps the session open and playing silence.
- `SessionWhole` is checked without Wi-Fi drops: after a drop discovery runs
  during a session, and a host found while the session closes, behind a switch
  to CONF, opens a session on the access point.
- A request served while its history entry is overwritten resends the wrong
  audio; `YoungIntact` says from when on that is possible. `HeardTrue` therefore
  speaks of what packets carried, not of what was recorded.
- From a silence any late or repeated packet anchors the buffer anew, in the
  past as well: frames heard before are heard again. `Listener` allows it
  (`Due`), from a silence only. A late frame accepted before playback starts is
  never played and keeps `slots_count` above 0: where the buffer has run dry it
  then skips on, instead of noticing the underrun, until the numbers have come
  round. `PlaybackResumes` and `SkipsEnd` are therefore stated for a link that
  keeps the order.
- The first frame of a request that is too old ends the serving of the request,
  frames still in the history included (`ServeGiveUp`).
- `Recognised` and `LongPressReports` are checked for clean edges: with
  `Bounce = 1` TLC finds a long press whose start is taken for a click, is
  reported with one click and ignored.
- `StationPair` and `SavedSurvives` exempt a *torn* save (the history variable
  of `Portal`): a failure or reset between the two writes leaves one network's
  name with another's password, and a body of which `httpd_req_recv` returned a
  part is saved as if it were whole.
- `DnsAnswers` says what an answer may hold, not that every query gets one. The
  loop over the questions answers the first again and again in the first
  record, and `OPCODE_MASK`, applied to the flags in network order, refuses
  queries with AD or CD set.
- `DnsHandleKept` speaks of the DNS task. The main task keeps the handle after
  the task has freed it: if the task ends by itself, or the next `httpd_start`
  fails, `captive_server_stop` writes to freed memory. After a failed
  `recvfrom` the task closes its socket twice.
- `SessionSafe` and `CodecsHeld` exempt an *orphaned* microphone task (the
  history variable of `I2sPeriph`): if the player's task could not be created,
  `i2s_periph_stop` stops nothing and the close goes on under the microphone.
- `DarkWhenOff` rests on the hold of the pad. The same order of steps with
  STATUS_LED_EN, which nothing sets, would leave the LED dark.
- The passthrough mode plays the oldest waiting frame, which is what
  `FrameQueue` says; `audio_transport.h` calls it "latest-frame passthrough".

### Fairness

- `AudioStream`: the sender and the player run for the whole session. Nothing
  is assumed of the link but the bound on losses in a row.
- `I2sPeriph`: the threads and the two tasks are scheduled, the receive timeout
  of 100 ms makes `recv` return, a read or write of a running or disabled
  channel ends. The main task has the lower priority and gets its turn only
  now and then (strong fairness). Opening and stopping are free.
- `Periph`: `periph_task` never ends. The main task sets modes as it likes.
- `AudioTransport`, `HostAudio`, `Portal`: safety only, nothing assumed.
- `DeviceApp`: loop and tasks are scheduled (a task of priority 0 only when
  the loop blocks: that is in its guards), the host answers, the access point
  gives an address. Gestures, drops and failures are free.
- `Session`: the same for the headset, without assumption on its partner. The
  host's loop runs and every blocking call of it has a timeout; a keepalive
  expires; TCP brings the host's close over a working Wi-Fi unless it is lost
  (`HostEnds`, without which `PlayingEnds` would blame the network). Gestures,
  SIGINT and the restart of the host are free.

## Proofs

The theorems hold for all values of the constants that satisfy the named
assumptions of the modules, and the hypotheses that a theorem states. Of the
constants the code has, those assumptions are true; the bounds of the models
(frames sent, gestures, drops) are among the constants, so a theorem holds for
every bound. Every invariant below was checked by TLC on small instances
before it was proved. Most theorems state a property of a run; `IdleIsEmpty`
is stated by a theorem only.

**Jitter buffer** (`JitterProofs`).

- `TypeCorrect`, `CountIsExact`, `IdleBufferIsEmpty`. `CountExact` is not
  inductive without the types, nor `IdleIsEmpty` without `CountExact`: the
  buffer forgets its position when the *counter* is 0. `IInv` is the
  conjunction of the three. `InsertCounts` relates the counter to the
  cardinality when a packet is put; there is one lemma per action, joined in
  `StepIInv`.
- `PendingFramesKept`, under `RingDividesSeqs`: the ring size divides the
  number of sequence numbers, as 64 divides 65536. Two numbers of one window
  with the same slot are the same number (`SameSlotSameSeq`), and every frame
  is in the slot of its number (`PlacedInv`).
- `LevelsJoin`: `LevelInv` says that the output ended at the level the next
  concealment starts from, and that this is full after a good frame.
- `AsksForMissing`, `SkipsComeToAnEnd`, `PrebufferIsFilled`: in a stream, the frames held and the
  next packet have an order, their distance from the number whose turn it is
  (`Turn`). `OrderOK` says that no frame held has missed its turn, none is
  newer than `write_seq`, which the window holds, and the next packet is newer
  than that. With the exact counter this makes every skip one towards a frame
  that waits: the safety half of `PlaybackResumes`. `OrderOK` needs `PlacedInv`: the player goes past a number only when it is nowhere in the
  ring. `FillOK` adds that before playback every packet that came has a slot
  of its own. `PrebufferIsFilled` has the hypothesis `BurstsFit`,
  `(TargetDepth - 1) * (MaxBurst + 1) < SlotCap`: bursts of up to 30 packets
  with the code's 3 and 64. `audio_stream_burst` is the smallest burst beyond
  it for its ring of 6.

**Packets and link** (`AudioLinkProofs`).

- `PacketsParse`: a packet of any requests and any audio, built over any
  payload, sent and parsed, gives back both, for every size of the two blocks.
  The lemmas say what a written block reads as, and that neither block reaches
  into the other. `AudioPktParses` and `NackPktParses` are the two packets that
  are sent.
- `AsksOnce`, `HearsTrue`, `BlocksAreParsed`. With fewer frames sent than half
  of the numbers (an assumption, `MaxFrames < HalfSeq`: no packet is on its way
  for five minutes) frames have an order, their distance `N` from the first.
  `LinkInv` says of each part what it is in that order: packets carry numbers
  that were sent (`PacketsOK`), requests name frames whose entry is complete
  (`RequestsOK`), entries once written stay valid and are labelled with a frame
  that was sent (`HistoryOK`), what was asked for is not newer than `write_seq`
  (`BufferOK`). `NacksBetween` is why nothing is asked for twice: the numbers a
  packet makes `jitter_put` report are newer than `write_seq` and older than
  the packet.
- `GivesUpOnOld`, `YoungIsIntact`, under `HistDividesSeqs`: the history's size
  divides the number of sequence numbers, as 32 and 64 do. A frame younger than
  the history is long never has the entry that is being written
  (`YoungElsewhere`), so that its label and data, read one after the other
  without a lock, are its own (`YoungOK`, inductive with `LinkInv`).

- `LinkServesListener`: the link implements `Listener`, each step of it being a
  step of the listener's or a stutter (`SendRefines`, `ArrivalRefines`,
  `PlayerRefines`). `ListenInv` adds to `LinkInv` what the map needs: the
  number whose turn it is is one of a frame recorded, or the next (`AnchorOK`),
  and, if requests are answered promptly (`Prompt`), what packets and slots
  carry is the frame of their number (`CarriedOK`), which is `YoungIsIntact`
  followed from the history through the network into the ring (`YoungResent`,
  `LagOK`: no request being served is later than `MaxLag`). Without `Prompt`
  the theorem still gives the order, the periods and that every frame heard was
  recorded; that is the case the run `audio_link` checks, whose requests may be
  later than its history is long. In the code, whose histories hold 32 or 64
  frames, `Prompt` means a request answered while its
  frame is at most 30 or 62 periods old, or lost.

**Host's audio** (`HostAudioProofs`).

- `RingCorrect`, `RingIsFifo`: the ring keeps head, tail and count consistent
  and, read from head to tail, is the queue of `FrameQueue`; each step of the
  ring is that step of the queue, and `Reopen`, the next session's new ring, is
  its `Clear`. `HostPlaysFifo` says the same of the ring the host uses.
- `HostLosesNoSample`: `NoSampleLost` speaks of the newest packet and of the
  sample played last. `HistoryInv` says for *each* sample sent or waiting which
  it is: the one so many before the newest captured (`SentInv`), and where in
  its frame the player stands (`HeardInv`).

**Headset's session** (`AudioTransportProofs`).

- `SafeToUse`, `OpenIsAtomic`: neither is inductive. The invariant says for
  each place of the owner what exists there (`Owns`).
- `HeadsetSessionSafe`, `CodecsOutliveTasks`, `HeadsetOpenIsAtomic`: the same
  with the headset for an owner. `PeriphInv` adds which of channels, handles
  and tasks are alive at each place of `i2s_periph_open` and its inverse.
- `HeadsetComplies`: each step of `PeriphSpec` is a step that `AudioTransport`
  allows or a stutter. The guards of `Calls` and `Close`, which the code does
  not test, follow from `PeriphInv`.

**Button and LED** (`PeriphProofs`).

- `OffIsDark`: dark when off, because the pad is held while the mode is set.
- `GesturesRecognised`, `LongPressInTime`, with the hypothesis `CleanEdges`
  (`Bounce = 0`), without which they are false (see above). `ButtonInv` relates
  each timer of `periph_btn_tick` to how long the finger has really been on or
  off.

**Portal** (`PortalProofs`).

- `PortalCorrect` is the inductive invariant: where a save stands (`SaveInv`),
  what is stored and what a reset would leave (`StoreInv`), what the page said
  (`SavedInv`), who may write (`ServeInv`). `OwnPassword` and `SavedIsKept`
  follow from it. `HandleIsKept` needs only the places of the DNS task.
- `FormIsFound`, by `AddressIsGiven` (a query of one question, a name of any
  length that the receive buffer takes) and `NoWrongAddress` (any number of
  questions). The length of a query is a recursive function over its
  questions; for one question it is unfolded (`OneQuestion`): a function that
  satisfies the equation exists, so the chosen one satisfies it.

**Headset and host** (`SessionProofs`).

- `PlaysInSession`, `NoStaleStart`: `DeviceInv`. What makes the main loop safe
  is when the network tasks run. Having the lowest priority they post
  HOST_CONNECTED and HOST_DISCONNECTED only to an idle loop whose queue is
  empty, so neither can wait behind a mode switch and be stale (`QueueInv`).
- `DeviceSafe` holds of the headset in a session as well: a step of both is to
  the headset one of its own or none (`DevicePart`), a connection the host
  refuses being a `connect` that fails.
- `NobodyPlaysAlone`: by `ConnInv`, what the host knows of the connection at
  each place of the control task.
- `WholeSessions`, `WaitsForSomebody`, with the hypothesis `Calm` (nothing
  fails, no Wi-Fi drops, an address comes to an idle loop), which is what the
  run `session` assumes and without which both are false (see above). In calm
  only the user's switches wait behind another event (`CalmQueueInv`). For the
  handshake `HandshakeInv` and `EndsInv` say at each place of the host what the
  headset must be doing, unless the handshake is spoiled.

Only model-checked:

- liveness (`PlaybackResumes`, `CloseReturns`, `LedSignals`, `SessionComes`,
  `SuspendedIsDeleted`, `PortalAnswers`, `SessionFreed`, `SigintStops`,
  `PlayingEnds`): TLAPS does not reason about fairness here;
- `PrebufferFills` beyond `BurstsFit`, and `Recognised` and `LongPressReports`
  without `CleanEdges`, which do not hold (see above).

What a recursion computes for every input is out of the prover's reach. For
this reason `Nacks` says which of the missing numbers are passed over
by how many they are, not by filtering a sequence: they are the first of them,
as long as the ring is no larger than half of the numbers.

## Not modelled

- The codecs, the audio library, the Wi-Fi driver, HTTP, TCP and the flash
  themselves: external; what the code relies on is in the guards named above.
- Text: the datagrams of discovery, the portal's page and redirects, the bytes
  of a DNS name, the terminal dialogue that chooses the host's devices.
- The numbers of sockets, so that one closed twice closes nothing else.
- A second headset or host: the host serves one client, and a connection from
  an address other than the captured one is closed at once.
- `STATUS_LED_EN`, DNS rules with a fixed address, the DHCP option of the
  portal: nothing in the repository uses them as it is configured.

## Plan

1. *Done*: the jitter buffer and its proofs, the link, the passthrough ring,
   the transport's life, device, button, host, and the two together.
2. *Done*: packets and their proof, the host's callbacks, the headset as the
   transport's owner, LED, portal with storage and DNS server, lost answers.
3. *Done*: every safety property the runs check proved, with the refinements
   `IsFifo`, `ImplementsTransport` and `ImplementsListener`.
4. Open: the numbers of the host's sockets, which its closes after a break use
   twice; under which delays of the network a new start goes back to a frame
   heard before.
