# A TLA+ model of Apple Squeezer

Apple Squeezer is a Squeezelite player for macOS: it connects to a Logitech
Media Server (LMS), streams one track after the other, decodes it and plays it
on a CoreAudio device, bit-perfect if the device can. This directory models
the parts of it that run concurrently or wrap around, checks them with TLC and
proves with TLAPS what matters most of the ring, the play-out engine, the track
pipeline, the HTTP stream, the server connection, both audio devices and the DSP's
configuration.

Source lines below are those of the repository; `PROJECT.json` maps every
definition to the lines it stands for.

## 1. The system

### Threads and what they share

| Thread | Loop | Touches |
| --- | --- | --- |
| stream | `stream_thread`, stream.c:553 | fills `streambuf`, moves `stream.state` (mutex S) |
| decode | `decode_thread`, decode.c:56 | `streambuf` to `outputbuf` through a codec (mutexes D, S, O) |
| audio callback | `ca_render` → `_output_frames` | empties `outputbuf`, moves `output.state` (mutex O) |
| controller | `slimproto_run`, slimproto.c:572 | commands of the server, reports to it, opens the device (S, D, O in turn) |
| DSP watch | `_watch_config`, dsp.c | publishes a chain when the configuration file changes (one atomic pointer) |
| monitor | `ca_monitor`, output_coreaudio.c | asks for a reopen after failures and changes of the device |
| listener | `ca_listener` (run by CoreAudio) | sets one atomic flag |

No operation of a track's way holds the mutexes from beginning to end. Each
thread reads some state in one critical section, releases the mutex and acts on
what it read in another: that is where this program is hard, and what the models
are built around.

### Components

| Component | State | Operations | Interacts with | Hard behaviour | What makes it correct |
| --- | --- | --- | --- | --- | --- |
| Circular buffer (buffer.c) | block, `readp`, `writep`, `wrap`, `base_size` | advance, flush, adjust, resize, unwrap | every thread, under its mutex | wrap, resize with pointers around the wrap, overlapping moves | it is a bounded queue; only written bytes are read; frames do not straddle the wrap |
| Play-out engine (output.c) | `outputstate`: state, pause/skip count, `track_start`, fade, delay | `_output_frames`, `_checkfade`, `output_flush`, `output_flush_streaming` | called by the callback, by the codecs and by the commands | a piece is cut at wrap, at the track start and at the fade's ends; crossfades read two places of the ring | the next unread frame is what is played; a track is announced before it is heard; fades end; the position reported is true |
| Track pipeline (stream.c, decode.c, slimproto.c) | `streamstate`, `decodestate`, `sentSTM*` flags | strm s/q/f/p/u, cont, codc, the pass | all four threads | stale reads across critical sections, lost ends, flush racing a codec | reports are in order and once per track; a flush leaves nothing; the last track ends in an underrun; failures are reported |
| CoreAudio device (output_coreaudio.c) | statics, `ca_saved`, retry timer | open with fallback, dispose with restore, monitor, close | controller, callback, monitor, other applications | open with mutex released, device lost under an open, late rates | settings are given back; bit-perfect is true; fallback only when needed; what was started is heard |
| HTTP stream (stream.c) | `fd`, `ssl`, `stream.header` with its counters, ICY counters, Ogg parser | connect with and without TLS, request, response, ICY metadata, Ogg pages, every end | stream thread, controller's pass, peer | one buffer holds request, response and metadata in turn; reads are cut anywhere; a poll outlives its connection | the framing does not depend on how reads are cut; what is reported is whole; a connection ends, with its true cause |
| Server connection (slimproto.c) | receive buffer, `expect`, `got`, timeouts, current, new and previous server, name file | discovery, connect, HELO, framing, dispatch, serv, setd, reports, stop | LMS | packets in pieces, silence, a switch to a server that does not answer, a restart | packets exactly once and in order; no report lost or told twice; HELO tells the truth; the player comes back |
| Codecs (pcm, dsd, flac, mad, mpg, vorbis, opus, ffmpeg, faad, alac) | header and gapless state, library handles | open, decode one pass, close | decode thread, streambuf (S), outputbuf (O) | data that wraps, ends early or is refused, gapless delay and padding | every frame due, once and in order; every track ends |
| Processing (process.c, resample.c) | process buffers, resampler's delay line | new stream, process, drain, `_write_samples` | decode thread, callback | a bounded wait of 100 ms | a frame is lost only for a cause |
| DSP (dsp.c, dsp_config.c, dsp_ir.c) | current, retiring and pending chains, configuration file and its backup | publish (`dsp_configure`, also by the thread that watches the file), take over and prepare (`dsp_newstream`, `dsp_process`), save, rollback | watch thread, decode thread, dspctl | a chain published while another is prepared, a crash between two renames, a file replaced while it is read | a chain has one owner and fits its rate; a start finds a document; the one in force ends up in use |
| ALSA output (output_alsa.c) | `pcmp`, `alsa`, write buffer | open with plug and reopen, the loop, mmap and writei, recover, off, close | output thread, controller, device | a device that goes, is busy, underruns or is suspended | only an open device is used; the music is heard whole; playing resumes; the device is let go |
| PortAudio, Pulse, stdout outputs | handles | open, write, close | | not compiled into the CoreAudio or Linux ALSA builds | |
| Visualisation, IR, GPIO | | | | not compiled into the CoreAudio build | |
| Program start, utilities, tools, tests | | | | none outlives a call | |

The 40 hazards of this code, each at its line, are listed in `PROJECT.json`.

## 2. The modules

```
RingOps          pointer arithmetic of struct buffer
  RingBuffer     the circular buffer         -- implements -->  Fifo
    BufUnwrap    ... and _buf_unwrap
    RingBufferProofs   theorems about RingBuffer
  OutputFrames   the play-out engine over a ring of frames
    OutputFramesProofs theorems about OutputFrames
Player           four threads and the track pipeline  -- implements -->  Reports
  PlayerProofs   theorems about Player
CoreAudio        the device's life, controller, callback, monitor, others
  CoreAudioProofs    theorems about CoreAudio
HttpStream       the stream thread and its connections
  HttpStreamProofs   theorems about HttpStream
Decoder          the decode thread and the processing behind a codec
  LibCodecs      codecs that drive a library
  FileCodecs     codecs that parse the file themselves
    Codecs       all of them together
Slimproto        the connection to the server
  SlimprotoProofs    theorems about Slimproto
Alsa             the ALSA output thread and its device
  AlsaProofs     theorems about Alsa
DspConfig        the DSP's configuration, its watcher and its chains
  DspConfigProofs    theorems about DspConfig
MC*              instances for TLC
```

OutputFrames uses the pointer operators that RingBuffer is proved about.
Player replaces the ring by the queue that RingBuffer implements, and the
engine by what OutputFrames shows of it: frames are handed out in order and a
track start is recognised. CoreAudio keeps of the engine which rate is played
and which is next. HttpStream, Codecs and Slimproto each open up one step of
Player: the body of a stream, a pass of a codec, a command received. They are
checked apart, since their states do not fit beside the four threads.

### RingOps, RingBuffer, Fifo, BufUnwrap

A pointer is its offset in the block, `wrap` is `size`. Every operation runs
under the buffer's mutex and is one action: `Write` (copy up to
`min(_buf_space, _buf_cont_write)`, then `_buf_inc_writep`), `Read`, `Flush`,
`Adjust`, `ResizeOk`, `ResizeFail`. The history variable `did` records what
was done last. It has no counterpart in the code: it keeps the refinement
honest, since without it a buffer that loses its contents on a write could
pass for one that was read or cleared. `Fifo` is the abstract queue, with the
same `did`. BufUnwrap adds the three branches of `_buf_unwrap` and its failing
malloc as the recursive operator `Unwrapped`.

Limit: `MaxCont` is at most half a block (`ContAssumption`). Beyond it the
scratch branch is asked to move a negative number of bytes, which C leaves
undefined; the ALAC parser, its only caller, unwraps atoms that are far
smaller than half of streambuf.

### OutputFrames

A frame is `<<track, index>>`. The callback holds the mutex from `RenderBegin`
until `cb.pc` is `"idle"` again; each pass of the loop of `_output_frames`,
and `ca_render`'s calls of it, are actions, so that everything the loop can
decide (silence, pause, skip, start-at, threshold, track start, delay, fade,
crossfade, cut at wrap) is an action of its own. Decoder (`TrackStart`,
`Decode`, `DecodeEnd` with `_checkfade`) and controller (`StartDecoder`,
`ControllerPass`, strm q, f, p, pause, a, u and at) step when the mutex is
free. `strm q` is two critical sections (`StrmQ`, `OutputFlush`), as in the
code. `heard` is history: what was played, mixed, dropped and skipped.

Abstracted: gains, sample formats, DSD silence, wall-clock time (`start_at`
happens at any time), and the idle timeout (in CoreAudio).

### Player and Reports

One action per critical section. What a thread read in one section and uses in
another is in its locals (`st`, `dt`, `slim`), so that any other thread may
step in between. The stream thread polls, then reads; the decode thread reads
streambuf's level (S), outputbuf's (O), then decodes (D, with S and O inside);
the controller's pass reads S, D and O in turn and then acts; strm q, f, s are
sequences of sections. The server is external: it streams a track when the
previous one was decoded and heard, or was flushed; it answers `RESP` with
`codc`, if it did not know the format and has not flushed the stream meanwhile, and with
`cont`, in either order, `STMl` with a start, and gives up on failures with strm q. A behaviour
follows one plan of `Plans`, kept in `server.plan`: how much the buffers hold (option
-b), where tracks come from, which values of autostart and which commands the
server sends, and which `Faults` there are: refused connections, headers that end
early, resets and codec errors.
`Reports` is what a server may rely on, and Player implements it.

### CoreAudio

`_coreaudio_open` is a sequence of actions of the controller (stop, mode,
find, hog, rate, settle, unit, controls, again, ...), each of which may fail,
followed by fallback, restore or success. The callback runs as soon as the
unit is started, the monitor reads its flags in one step and acts in another,
and the device and other applications move in between: plug, unplug (a new
AudioDeviceID), rate, volume, hog. Seconds are counted only since the last
failure. As in Player, a behaviour follows one plan, `hist.plan`: the modes that -a
asks for, the idle timeout, the tracks' rates, the server's commands, what the device
can do and how it takes a rate, and what others do, how often and when.

Limit: while an open sets the device up (`Quiet`), others leave its settings
alone, since whose setting it then is nobody could say.

### HttpStream

A connection is a record: the units the peer sends (characters of a header,
pieces of sound, a metadata length and its bytes, the parts of an Ogg page),
how many of them arrive, and how it ends. A unit is known by its index, so that
what is in a buffer tells what came where. `Poll` is an action of its own,
since `poll()` is called without the mutex; each section under it is another
(`SendHeaders`, `RecvHeader`, `IcyLength`, `IcyMeta`, `Body`, `ClosedInPoll`,
...). `StaleBody` and `stale` are the case of a poll whose connection has been
replaced. The Ogg parser is modelled in both builds: page by page as
`stream_ogg` does it, and as libogg does. The controller opens connections
(`StreamSock`, `StreamFile`, `Unreachable`), sends (`Report`), answers (`Cont`)
and stops (`Quit`).

`Wires` is any set of lists of such connections of which `IsWire` is true: a
response is a header up to its first empty line, then pieces of sound of the
length `metaint` says with a length and a piece of metadata between them.

Limits: what a comment says and which of them fit a message is data. A header
is longer than any piece of metadata (`HttpAssumption`; a piece has 4080 bytes at
most and `MAX_HEADER` is 4096). TLS is a peer that answers it or not. `tls`
is the connection that `ssl` belongs to, since `ssl` may outlive its socket: a
send that fails leaves both (stream.c:192), and only strm q and f clean up.

### Decoder, LibCodecs, FileCodecs, Codecs

A track is a sequence of items, each with a length in units of streambuf and a
number of frames; a frame is `<<track, index>>`. `pc` is not `"idle"` while the
decode thread holds its mutex; the stream (`Feed`, `StreamEnd`), the device
(`Play`, `Pause`, `Unpause`) and the controller (`StartDecoder`, `Collect`,
`NextTrack`, `Skip`) step when the code lets them. Each codec is a few actions:
what its `decode` does in one call, or up to a wait in it. `Hand` is the two
ways frames leave a codec (`IF_DIRECT`, `IF_PROCESS`), `NewStream` what each
codec does at the start of a track, `WriteSamples` and `WaitForSpace` the
bounded wait of process.c, `Drain` the resampler's end. An item is decoded by a
library once all of it was read; what libraries do beyond that is external.

A gapless MP3 may end before its last frame, the first packet of an AAC track may decode to
nothing, and the last DSF blocks may hold zeros or frames beyond the sample count.

Limits, each because the code fails beyond it (section 4): a block, and what a
library returns for one read buffer, is at most `MinSpace` frames; padding is
shorter than the last packet; streams are not cut inside an ID3 tag, an ADTS,
MP4 or DSD header; the length of PCM or DSDIFF data is a multiple of a frame
where a chunk follows it; the threshold exceeds a DSD header and a block pair.
`Patience * Period >= Latency`: what a drain writes fits into the space that a
playing device makes within the wait.

### Slimproto

A packet is two units of length and a body; a unit is `<<packet, index>>`. The
controller's thread is `pc`: discover, connect, wait, the read of a length or of
a body cut anywhere, a pass. What other threads leave for it to report are flags,
one of a kind (`flags`), so that events of a kind coalesce. A pass takes them in three
sections (`PassS`, `PassD`, `PassO`) and then sends in a fixed order (`Order`); other threads
set flags in between, and `strm` takes some of them back (`ProcessStrm`). `account` is
history: of each kind the last event, the last one taken and the last one told. Servers
come and go, send packets of any kind and length, close or fall silent (`Fault`);
`serv` may name another server or none, with a capability or without. A new name is told
first and then stored in two steps (`StoreName` empties the file, `WriteName` fills it). The
player is stopped, or killed at any step and started again (`Restart`), when it reads its
name from the file.

### Alsa

The thread of `output_alsa.c`, one action per step that another thread or the
device may come between; the device has a state, a kind (its rate together with
a DSD format) and a queue of frames. `Setups` are its abilities and the options
of the player: mmap or writei, native format, "hw:", plug or a device that plays kinds of its own
only ("fixed", whose refusal of a rate the code ignores), reopening, probing and rate delay. `Fault` pulls the device out, suspends it, makes it busy,
lets it underrun or refuse a setting. `PeriodsFit` says that the first buffer
holds a period of any kind, which the code takes for granted when it keeps
`write_buf`.

### DspConfig

A file is a document and a stamp, which stands for time, size and inode.
`dspctl` is a sequence of actions, one per rename or unlink, each of which may
fail, and may be killed between any two; one dspctl runs at a time. `dsp_init` looks at the
file (`PlayerStart`) and then, if there is none, at its backup (`PlayerBackup`), and dspctl
may step in between; `start` notes what it did. The watcher
sleeps between `WatchStat` and `WatchLoad`. A chain is a document and the rate
its filters are designed for; `chain` is a function over the ones allocated, so
that a free too many or too few shows. The decode thread takes, prepares and
installs or puts back a chain in steps of its own, since the watcher publishes
at any time. `overNothing`, `start.missed`, `unseen` and `raced` are history: the cases
that the properties except and section 4 describes.

## 3. Checks

Twelve runs, three of which are to find a violation. State counts are of
distinct states. MCPlayer and MCCoreAudio check three plans in one run: a behaviour
follows one plan from its initial state on (`server.plan`, `hist.plan`), and each
property states for which plans it speaks. MCOutputFrames checks OutputFrames
with six sets of constants over the same variables: `which` says which of them a behaviour is of,
and every invariant is checked of each of them. A property that is a
conjunction names its parts, which are defined and explained in the modules.

| Run | Question | States |
| --- | --- | --- |
| MCRingBuffer | Is the ring a bounded queue, through every wrap, adjust, resize and unwrap? `TypeOK`, `UnreadIsWritten`, `FrameNeverStraddles`, `Implements`, `Unwraps` | 12 k |
| MCOutputFrames | Is what is heard what was decoded, in order, on time and truly reported? Short: three tracks of two formats, delays, fades in and out, skips, strm f. Cross, five plans: crossfades over the wrap with callbacks of one or two frames and strm q and p; with strm f, pauses and timed starts; with skips; beside fades of other kinds; longer than the ring. `TrackIsTrue` (without crossfades), `FadeOnTime`, `NoGarbage`, `CrossfadeKeeps`, `NoAbruptSwitch` | 4.7 M |
| MCOutResize | violation: the resize for crossfades loses a track start (`PlayedWereAnnounced`) | |
| MCPlayer | Order: reports are true and in order, everything is played out (`ReportsAreTrue`, `InOrder`, `PlaysOut`). Flush: every fault and flush (`FlushedIsGone`). Failed: refused connections and codec errors are reported (`RefusalIsReported`) | 905 k |
| MCPlayerLostEnd | violation: a broken stream is not always reported (`FailureIsReported`) | |
| MCCoreAudio | Opened: open, lose, fail and close with others meddling (`GivenBack`, `BitPerfectIsTrue`). Asked: an undisturbed open falls back only without an integer format (`FallbackOnlyIfNeeded`). Live: what was started is heard, and rates follow (`Resumes`, `RateFollows`) | 1.7 M |
| MCCoreAudioIdleUnpause | violation: strm u after the idle timeout is never heard | |
| MCStream | Are body, headers and metadata whole however reads are cut, and does every connection end with its true cause? `FramingIsTrue`, `HeaderIsWhole`, `CauseIsTrue`, `Finishes` | 57 k |
| MCCodecs | Does every codec hand over what is due, once and in order, and end? `Delivery`, `CompleteMeansAll`, `StartIsFirst`, `Ends` | 66 k |
| MCSlimproto | Are packets handled exactly once and reports neither lost nor told twice, is HELO true, does the player come back? `ExactlyOnce`, `HeloIsTrue`, `NameSurvives`, `ComesBackOrStops` | 1.1 M |
| MCAlsa | Is only a fit device used, is the music heard whole, does playing resume and the device go? `DeviceIsFit`, `HeardWhole`, `Resumes`, `LetsGo` | 538 k |
| MCDspConfig | Are chains owned once and designed for their rate, does a start find a document, is the last one applied? `ChainsAreSound`, `StartFindsDocument`, `FlagsAreCurrent`, `LastIsApplied` | 937 k |

### Bounds, and why they are enough

* Rings have 4 to 8 slots: every pair of pointer positions occurs, with the
  pointers at, before and after wrap, full and empty; the proofs of section 5
  cover every size. Mods and sizes are chosen so that a size is no multiple of
  a frame, and a resize both grows and shrinks the block.
* Short has three tracks in a ring of four frames, each of two, so that
  a ring holds the ends of two tracks and `track_start` is overtaken by the
  wrap. `HalfDelay` is one frame: the delay has two halves of at least one
  callback. Cross has tracks of six frames (four where there are skips) in a ring of eight and
  fades of two: the mixed frames are around the wrap in some states. A frame has eight
  units (`FrameBytes`), so that a pointer may lie inside one: nine tenths of eight frames end there.
* Order has two tracks, three kinds of source (a file, a connection, one of unknown format), each value of autostart (0 not,
  1 by itself, 2 and 3 wait for cont, then not or by itself). `StreamCap` 3 is more than a track of two units: a stream that ended
  before its decoder started fits in. Flush has buffers of one unit,
  so that every producer is stopped by a full buffer at each step. Failed has
  connections only: a file may be ended unreported by the stale poll (below).
* CoreAudio has two rates, one track and one change by others: each property
  relates one open to one event. The retry ceiling is one or two seconds:
  delays of 1, 2 are told apart and the ceiling is reached.
* MCStream lists its connections: every kind of peer for every way to ask,
  cuts in the first character, inside and after the header and in the body,
  headers at the limit, ICY pieces of length 0, 1 and 2 at an interval of 2,
  Ogg chains with comments, without, damaged, multiplexed and of FLAC, in both parsers,
  and pairs of connections. The ring has four units, fewer than any body. Each chain comes
  behind none to three units of sound, so that each part of each page lies across the
  ring's end in some state, and so does another page's capture pattern in each variant: every
  later comment is judged both behind a page that was missed and with all pages seen.
* MCCodecs lists its tracks: for each codec the layouts that are hard for it
  (tags, boxes before and behind the sound, gaps between chunks, holes, a
  trailing chunk, an empty first packet, zeros in the last block), whole and cut in the
  middle of a packet or, for a gapless MP3, right behind a frame, alone and followed by a
  track of another codec, directly, through the DSP and through the resampler.
  Five units and seven frames are coprime to the sizes of packets and frames. `Word` 16
  stands for the 2^32 of an unsigned count: it exceeds any number of frames in a track.
* MCSlimproto has two servers, packets shorter than, of and longer than what is
  allowed, two of them and two events and faults, three in all.
* MCAlsa has two kinds of stream of two frames each and six setups, which
  between them have each ability and option with and without; one fault, two on a device that
  is probed.
* MCDspConfig has two saves or rollbacks, one fault and one start of the player: the shortest
  histories in which a backup is replaced, a save follows one that was killed, and a
  stamp comes back. `Blocks` {1} with a `Ramp` of two: a swap may come in each
  frame of a ramp.
* There is no symmetry: tracks are ordered and rates are numbers.

`CHECK_DEADLOCK FALSE` is given where the system may stop: a player that is
closed (MCCoreAudio, MCAlsa, MCSlimproto), tracks and connections that are over
(MCCodecs, MCStream), and no more documents to save (MCDspConfig).

### What the environment is assumed to do

`NextConsiderate` (OutputFrames, as MCOutputFrames takes it) has a server that sends no command but strm q
during the first half of a delay (`NotInDelay`), does not skip over the start of the next
track (`NotOverStart`), and sends no strm f between strm q and the next track's
start (`NotTwice`). The code leaves each of these to the server; the table
below shows what happens otherwise. In the plan Live of CoreAudio (`settled`) others leave the
device alone while an open is under way, except that one that was unplugged may
be plugged in again: `Resumes` and `RateFollows` are about opens that can succeed.

### Fairness, and what in the code justifies it

* Player: the stream and decode threads loop over 100 ms waits and never
  block for longer (weak fairness each); the callback runs while the device
  does (weak, `Render`); the controller makes a pass at least every second
  (weak, `Pass`); `slimproto_run` reads the socket before each pass, so that a
  command is not passed over for ever although passes go on (strong,
  `Command`); the server answers (weak, `Answer`). `MCSpec` asks this of the
  plans whose liveness is checked, Order and Failed, only. Nothing is assumed of the
  stream's progress beyond that, of faults or of the listener.
* CoreAudio: passes with a start or a reopen pending, the steps of an open,
  the callback, the monitor (200 ms loop), time, and a listener who plugs the
  device in again are weakly fair, which `MCSpec` asks of the plan Live only. That a track ends or that an idle timeout
  passes is not assumed.
* HttpStream: the thread goes on as long as it may (its poll waits 100 ms), the
  controller makes its passes and answers, the decoder empties the buffer. Nothing
  is assumed of the peer: it ends its connection, and when is in `Wires`.
* Codecs: the stream goes on to its end, the device plays unless it is paused, a
  pause ends, the controller collects and starts, and the decode thread runs.
* Slimproto: only the controller's thread (`Controller`), all of whose waits and
  connects have a limit. `ComesBackOrStops` supposes a server that is there from some time on.
* Alsa: the thread, whose waits all have a limit, and a device that takes frames
  while it runs. `Resumes` supposes that the device is there from some time on.
* DspConfig: dspctl, the watcher (250 ms loop), the decode thread and a close that
  has begun go on. Saves, streams and starts are never owed.

## 4. Where the code departs from what it says

Three runs find a violation, each a finding in `PROJECT.json`:

* **MCOutResize** (output.c:373). The codec sets `output.track_start` to
  `writep`, then `_checkfade` resizes outputbuf for crossfades. The pointer is
  then into the freed block, never equals `readp`, and the track is played
  without STMs, with the previous track's position.
* **MCPlayerLostEnd** (slimproto.c:717). The pass reads `stream.state` in one
  section and calls `stream_disconnect` in a later one. A connection reset in
  between goes to DISCONNECT and on to STOPPED unseen; no DSCO is sent.
* **MCCoreAudioIdleUnpause** (slimproto.c:336). strm u sets an output that
  idled off to RUNNING but asks for no reopen, as only the autostart path does.

Other departures met while modelling are kept out of the runs. Each shows as a
violation of the property named when the instance is changed as given (`Next`
is that of the module, without the restrictions of the environment):

| At | Property | Configuration | What happens |
| --- | --- | --- | --- |
| buffer.c:127 | `Inside` | MCRingBuffer with `INVARIANT Inside` and `NextUnwrap` without `Inside'` | sliding into the gap may leave `writep` on `wrap`; the next `recv` is given no room, returns 0 and ends the stream |
| output.c:164 | `NoAbruptSwitch` | Short with `Next` and Commands {"f"}, {"u"} or {"p", "u"} | a command during the first half of a delay overwrites it, or leaves `delay_active` set, and a later format changes without it |
| output.c:93 | `PlayedWereAnnounced` | Short with `Next` and Commands {"a"} | a skip passes the next track's start, which is then not recognised |
| output.c:482 | `NoGarbage` | Short with `Next` and Commands {"q", "f"} | `track_start` survives strm q and a strm f takes `writep` back to it |
| output.c:360 | `StartIsFound` | MCOutputFrames with `INVARIANT StartIsFound` (plan `capped`) | a crossfade longer than outputbuf is capped at nine tenths of its bytes, which need not be whole frames: `track_start` moves back to a place inside a frame that `readp` never equals, and the callback that gets there hands over nothing |
| output.c:173 | `StartsAreTrue` | `PlaysOn` without `commands`, Order with commands {"q"} and TrackLen 1 | `track_started` survives the flush and the next track is reported as heard early |
| stream.c:654 | `FailureIsReported` | MCPlayerLostEnd with faults {"headers"} | a connection closed inside the headers ends in STOPPED, not DISCONNECT |
| stream.c:606 | `NoFalseDisconnect` | Flush with faults {} | the poll's result is used on a socket opened since |
| output_coreaudio.c:174 | `SettingsRestored` | Opened with "late" in rateReplies | a rate applied late is taken for somebody else's and is not put back |
| output_coreaudio.c:924 | `FallbackOnlyIfNeeded` without its hypothesis on `TrackRates` | Asked with trackRates {1, 2} | the callback changes the rate that the open verifies against |
| output_coreaudio.c:953 | `BacksOff` | Opened with `INVARIANT BacksOff` | the monitor judges by an older failure's time while an open is under way |
| slimproto.c:440 | `Resumes` | MCCoreAudioIdleUnpause with idle FALSE, autostart {TRUE} and commands {"aude"} | the output is switched off and on again without a reopen, and the next track is not heard |
| output_coreaudio.c:929 | `RateFollows` without `settled` | Live with settled FALSE and others {"rate"} | a change heard while the open finishes is cleared with those it caused itself |

The modules except in a property, or leave out of their instances, what
the code does not do. Dropping the exception, or adding the input, shows it:

| At | Excepted by | What happens |
| --- | --- | --- |
| stream.c:606 | `stale` in `CauseIsTrue`; Failed has no files | a poll of the last connection has the body of the new one read: a file is ended as reset |
| stream.c:722 | `overtaken` in `MetaWhole` | the next ICY block begins in the header buffer before the controller's pass: META is lost or mixed |
| output.c:229 | `heard.overrun` in `NoGarbage` and `CrossfadeKeeps` | the piece is measured before the crossfaded start is skipped, and a skip that leaves less than it lets the callback read past `writep` or wrap |
| output.c:226 | `heard.disturbed` in `CrossfadeKeeps` | a skip inside a crossfade, or a fade of another kind that ends once the mode is crossfade, drops frames that were not mixed |
| stream.c:334 | `Straddled` in `MetadataReported` | a page whose "OggS" lies across the end of the ring is missed, since the parser reads on before the buffer: its comments, those of the stream that begins with it, and, if only that page ended the stream before, those of the next |
| stream.c:423 | `Wire.wait` in `RespIsHeaders` | Ogg tags overwrite the response header before RESP is sent, if the server did not ask to be waited for |
| stream.c:122, 249 | `Fits`: nothing comes over a connection whose `ssl` is another's | after a send over TLS that failed, and no strm q or f since, a plain connection is written and read through the old `ssl`, and fails |
| stream.c:948 | `Source` in `MetaWhole` | a META that was due when a connection ended is sent while the next one is found unreachable |
| stream.c:889 | `NotFound` in `CauseIsTrue` | `stream_file` sets no cause for a file it cannot open |
| stream.c:654, 697 | only DISCONNECT is judged by `CauseIsTrue` | a connection closed inside the headers or the metadata goes to STOPPED, and no DSCO is sent |
| output.c:82 | `OutThreshold` 0 in Order, for `PlaysOut` | the last track, if it is no longer than the threshold, stays in outputbuf for ever |
| slimproto.c:428 | `missed` in `PlaysOn` and `PlaysOut` | a stream of unknown format that is over before its codec is opened, and a cont that came before codc, is never decoded, since the passes see it STOPPED |
| slimproto.c:374 | `slim.autostart >= 0` in `PlaysOut` | 2 is taken off the autostart of a file whatever it was: one that came with 0 or 1 is never started |
| slimproto.c:484 | `pc = "write"` in `NameSurvives` | a player that is killed between fopen and fputs of its name's file is started without a name, one killed before it with the old one |
| slimproto.c:683 | `Withdrawn` in `ReportedOnce`, `EndIsLast` | a RESP that is due when its stream ends is never sent; strm s, q and f take back what no pass took |
| output_coreaudio.c:147-179 | `hist.again` in `GivenBack` | somebody sets the rate or the volume to something else and back to what the open had made it: it is taken for the player's and overwritten on close |
| slimproto.c:1008 | `history.prior` in `HeloIsTrue` | the capability of a switch that failed is sent to the old server |
| slimproto.c:916 | `NameLen` in `NameSurvives` | `fgets` reads one character less than the longest name |
| pcm.c:296 | `LeftOver` in `CompleteMeansAll` | a frame across the end of the ring when the stream has ended: the rest is not decoded |
| vorbis.c:273, opus.c | `LeftOver` in `CompleteMeansAll` | the state is read without the mutex after a read of nothing: COMPLETE with data left |
| mad.c:289 | `EndedEarly` in `CompleteMeansAll` | a gapless MP3 whose stream is lost right behind a frame is taken for one that was skipped in, and loses as many frames as its padding has |
| faad.c:491 | `FirstFrame` in `Delivery` and `CompleteMeansAll` | an empty first packet of a track whose delay is shorter than a packet makes the count of frames to skip wrap around: nothing of the track is heard |
| dsd.c:286 | the "dsf" tracks of `LossHasCause` | zeros at the end of the last blocks that came are dropped if the sample count promised more, also where the stream was cut |
| dsd.c | `FellShort` in `InOrderOnce` | DSDIFF with too little data behind its header plays a frame of silence and stays misaligned |
| flac.c | blocks of at most `MinSpace` frames | a longer block loops for ever with the mutex held, or loses its first pieces in the processing |
| mad.c:176 | streams are not cut in a tag | the codec waits for the rest of a tag for ever; so do faad.c and dsd.c in a header |
| ffmpeg.c:235 | the "pad" tracks of `LossHasCause` | padding is put into the middle of a chunk that arrives in two reads |
| process.c:123 | `pauses` in `LossHasCause` | the processed frames are dropped while the player is paused |
| output_alsa.c:380 | `SetFor` in `DeviceIsReady` and `HeardInOrder` | a device that is not hw: and refuses a rate is used all the same: it plays the stream at a rate of its own, and the code notes the one it asked for |
| output_alsa.c:359 | `handle = "stale"` in `DeviceIsReady` | after a failed open `pcmp` is the handle that was closed, and is closed again every 5 s |
| output_alsa.c:664 | `pc = "probe"` in `Stops` | a close while the device is awaited hangs until it returns |
| output_alsa.c:671 | `setup.delay` in `EndIsHeard` | without a rate delay the end of a track is dropped when the device is reopened for the next |
| output_alsa.c:524 | `PeriodsFit` | `write_buf` keeps the size of the first buffer |
| dsp.c:128 | `unfit = {}` in `LastIsApplied` | a chain that does not fit a stream's rate is put back over a newer one, which is lost |
| dsp.c:127 | `start.missed` in `StartFindsDocument` | the player looks at the file between the renames of a rollback or a save and at the backup after it was moved or unlinked: it finds neither and runs without the DSP |
| dsp.c:116 | `raced` in `FlagsAreCurrent` | the replay-gain flags change when a chain is published, before it is in use |
| dsp.c:124 | `unseen` in `LastIsApplied` | the signature is taken before the file is read; a rollback that brings back that file is not noticed, and the document it replaced stays in use |
| dsp_config.c:80 | `overNothing` in `StartFindsDocument` | after a kill between the renames, the next save unlinks the only document there is before it has placed its own |

## 5. Proofs

`RingBufferProofs` proves, for every size, frame size and set of values:

* `TypeCorrect`: `Spec => []TypeOK`. Inductive as it stands, once `(p + by % n)
  % n` is known to be below `n`; each action is one step of the proof.
* `UnreadWritten`: `Spec => []UnreadIsWritten`. Not inductive over `Contents`;
  the proof goes by the slots between `readp` and `writep`, around the wrap:
  a write extends them by what it stored, a read shortens them, everything
  else leaves none.
* `SizeCorrect`: the size is always one that the block was given, adjusted or
  not. The abstract queue's capacity (`size - 1`) is then one of its `Caps`.
* `RingIsQueue`: `Spec => Implements`. Initial states map to initial states,
  and `Write`, `Read` and the three ways of emptying map to `Put`, `Take` and
  `Clear`; `did` is the same on both sides, so no step may pass for another.
  The core is how `Contents` changes when a pointer moves around the wrap.
* `FrameContiguous`: after `buf_adjust` to any frame size a whole unread frame
  is contiguous. Needs the strengthening that `readp` is a multiple of the
  frame and, unless the block is shorter than a frame, so is `size`; it holds
  because `Adjust` empties the buffer when it changes the frame and `Read`
  consumes whole frames.

The assumptions are those of `ConstAssumption`: sizes are positive, the
buffer has at least two slots as `buf_init` demands, and junk is no value.

The other proofs have one shape. A predicate `Typed` gives every variable its
type; named parts say what the threads may find when they step; one lemma for
each action (or thread) shows that it keeps them, one step for each part; the
theorems follow from the parts. TLC checked each invariant, on the instance of its
run, before it was proved.

`PlayerProofs` is about four threads with any number of tracks, any track
length and any sizes of the buffers and thresholds.

* `BoundsHold` (`TypeOK`) and `FlushHolds` (`FlushedIsGone`) hold with every
  command and every fault. The invariant is `Inv`: `CommandInv` says which
  command goes with which section of the controller, `StreamInv` whose socket it
  is, `DecodeInv` that a codec works on the last track only, `StreambufInv` and
  `OutputbufInv` what the buffers may hold: the last track's frames are those
  behind `track_start` and no others. They are needed together. That a flush leaves
  nothing depends on the decoder being stopped first, which the sections of
  strm q do one after the other while the other threads run; and the frames can be told
  apart only because a codec cannot begin a track that has not been set up.
* `ReportsTrue` (`ReportsAreTrue`) and `Ordered` (`InOrder`, the refinement of
  `Reports`) are about the plans of which `PlaysOn` is true, a condition that they state
  themselves: the server only pauses and nothing fails, the
  case the reports are about. `PlaysOnInv` adds that no unit is lost
  between network and codec (`LengthInv`: what is left to send, what is in
  streambuf and what was decoded add up to the track), so that a decoder that acts
  on a stream state it read earlier never ends a track early; that a codec opened
  late finds its stream waiting, unless a pass saw it over (`LateInv`, `missed`); and what the flags `sentSTM*`,
  `track_started` and `track_start` say together about what was reported
  (`OnceInv`). Each step of the controller's `send` then maps to the steps of
  Reports, and all others to stutters.

`SlimprotoProofs` is about any servers, any packets, any lengths and any bounds.

* `HandledOnce` (`ExactlyOnce`): however a packet is cut and whatever comes
  after it, it is handled whole, once, in order and within the buffer. The invariant tiles the bytes sent: what was
  handled, what is in the buffer and what is still on the wire follow each other
  without gap or overlap (`Tiled`), and `expect` and `got` say where in a packet the
  buffer ends (`Reading`). Of the reports, whose flags other threads raise during any section
  and send of a pass, it says that of each kind what was told, what is about to be and
  what is still due account for all that happened (`Reported`): a flag is set exactly if
  something is due, a pass owes exactly what it took, and no headers are due once their
  stream's end was taken.
* `HeloTrue` (`HeloIsTrue`) and `NameKept` (`NameSurvives`): from `Settled`, which
  ties the addresses and the capability of a switch to the history of switches, and says at
  which steps the file is behind the name that was told (`NameSaved`).

`DspConfigProofs` is about any documents, rates, block sizes and ramps, and any
number of saves, faults and restarts.

* `ChainsSound` (`ChainsAreSound`): a chain has one owner and fits its rate. `Stages`
  says which of the places a chain may be in go with which step of the watcher and
  of the decode thread, `Owned` that two places never hold the same one and that one that is
  held is not free, `DesignedForRate` that a chain which filters was prepared for
  the stream. At most five places hold a chain, which is why six suffice.
* `StartFinds` (`StartFindsDocument`): by `DocumentThere`, which says for each step of a
  save which of the files is the document in force, and `BackupThere`, which says so of the
  backup since the player found nothing at path.
* `FlagsCurrent` (`FlagsAreCurrent`): by `FlagsFollow`.

`CoreAudioProofs` is about any rates, any number of tracks and any set of plans:
whatever the device answers, however often it is unplugged, seized or set by others,
at whatever step of an open.

* `Returned` (`GivenBack`). `DeviceInv` says which device is open at which step, and
  that none is used or owned otherwise. `SavedInv` is about what is to be put back,
  which cannot be the settings themselves, since an open changes them one at a time and
  may fail after each: it is that restoring now would yield what the device
  should be left at (`Traced`), with a special case between asking for a rate and
  knowing that it was applied (`Settling`), where the rate that a restore compares with
  is still that of an earlier open: an open that fails there has found the
  device at its old rate, and nothing is left to put back. It holds for
  devices that apply a rate at once or never, and until somebody else sets a setting to
  what the player made it; `GivenBack` states both conditions, and section 4
  what happens otherwise.
* `BitPerfectTrue` (`BitPerfectIsTrue`): by `ModeInv`, which says step by step what an
  open has made sure of and that nobody undid it.
* `FallbackForced` (`FallbackOnlyIfNeeded`): by `FallbackInv`. With one rate, a calm
  device and a working Audio Unit, an open that failed without a refused rate failed for
  its format, and the device still has none.

`AlsaProofs` is about any music, any kinds of stream and sizes of buffers and periods,
any set of devices and options, and any number of faults.

* `DeviceFit` (`DeviceIsFit`). An opening is taken apart first (`OutcomeIs`): whichever
  of its calls fails, the handle is open exactly if there is a device behind it,
  and `alsa.rate` names a kind only if the device was set for it, or has a kind of its own that
  it is opened with instead (`SetFor`). `HandleInv` carries
  that from one opening to the next, over failed ones and the handle that stays
  behind; `AskInv` says what the thread knows when it asks and when it writes: what
  the device holds and what is still to be written fit into the buffer together, and,
  for writei, into a period. That a period fits into `write_buf` is `PeriodsFit`.
* `MusicWhole` (`HeardWhole`). `HeardInOrder` is inductive with these two. The end of
  a track needs `EndInv`: while the delay before another kind of stream runs, a
  frame of music at place `i` of the queue has at most `pause`, and what is being written
  of it, of silence still to come behind it before `setup.delay` frames of silence
  lie behind it. When the delay is over, a queue shorter than `setup.delay` holds no
  music, and it is dropped by the opening without loss. Two devices' buffers of
  silence, half before and half after, are just enough for this argument.

`OutputFramesProofs` is about any number and length of tracks, any sizes of ring and callback,
any formats, thresholds, delays and counts.

* `PointersInside` (`TypeOK`): with any server and any fades; `track_start` may be inside a
  frame, but not outside of the block. `Typed` adds the types of
  the rest of the state to it.
* `SilenceBeforeSwitch` (`NoAbruptSwitch`): with any fades, for a server that
  `ConsiderateSpec` describes. `StartInv` says when a track start may be found in
  `track_start`: while its track is awaited, or left over by a flush in an empty ring. `DelayInv`
  says that what was heard of the silence, what the pause still holds and what the
  callback is about to play add up to half the delay, and that the callback stays at the
  track start meanwhile.
* `OnlyNextFrames` (`NoGarbage`, and no garbage at all): for the same server, and without
  crossfades, so that the exception of `NoGarbage` does not arise. The
  invariant is `QueueInv`: the frames between `readp` and `writep` follow each other,
  the last one heard before them and the newest one decoded at their end. Reading moves the
  frames to the front (`QueueRead`), the codec appends (`QueueFilled`), strm f cuts
  (`QueueCut`); that it cuts inside the ring is the last part of `QueueInv`.
* `TrackHeardIsTrue` (`TrackIsTrue`, `NoGap`): under the same hypotheses. `ChainInv` says that
  each frame is the next of its track or the first of another, `AnnounceInv` that those
  before `track_start` are of tracks announced and those behind it of the track
  being decoded, `PlaceInv` that `frames_played` follows the last frame heard. A piece ends at
  `track_start` (`PieceEnds`), so that no frame of the new track comes with it.
* `FadeEndsOnTime` (`FadeOnTime`): with any server, without crossfades. `FadeInv` adds that a
  fade that is scheduled has both its ends inside the ring. A piece cut at `fade_end`, or at
  wrap if the end lies behind it, does not pass it (`CutStopsFade`).

The last three leave crossfades out, `"CROSSFADE" \notin FadeModes`. With them the start of a
track is moved back over the end of the one before, and a resize leaves `track_start`
in a freed block, where `PlayedWereAnnounced` fails (section 4, MCOutResize), or inside a
frame, where `StartIsFound` does.

`HttpStreamProofs` is about any lists of connections, any responses, any sizes of the
ring and of `stream.header`, and reads that are cut anywhere.

* `CauseHolds` (`CauseIsTrue`) and `BodyHolds` (`BodyInOrder`), from `Inv`. Its part `Conn`
  ties the socket, what poll() said and how much of the response was read together;
  `Heads` says that the counter of newline characters is the length of the run
  that was just read (`Run`), so that the header ends at its empty line and nowhere else;
  `Metas` that the counters of the interval agree with the place in the response (`Framed`):
  either a piece of sound is due for as long as `meta.next` says, or the rest of the piece of
  metadata that `stream.header` holds the beginning of. Without it a read of metadata could
  take sound, and `Buffers`, that the ring does not overflow and holds the
  body, would not be inductive.
* `RequestHolds` (`RequestIsWhole`) and `RespHolds` (`RespIsHeaders`), the parts of
  `HeaderIsWhole` that hold with Ogg tags too. `Responses` says that the n characters in
  `stream.header` are the first n of the response until RESP was sent. It needs `Heads`: RESP
  is the header only if its end was recognised where it is; and metadata cannot
  come before RESP, since a server that asked for it is waited for.
* `FramingHolds` (`FramingIsTrue`) and `WholeHolds` (`HeaderIsWhole`), while
  `stream.header` is that of a connection without Ogg tags (`Untagged`), whatever the
  connections before it and after it are. `Pieces` says of each piece of metadata that
  came in whole that it was sent, is due and in `stream.header`, or was overtaken by the next. A length that arrives with
  part of its piece (`LengthReads`) and a later part of it (`PieceReads`) lead to one
  description of what is there (`Reads`), and the last part of a piece is the one that makes META
  due (`Counts`). That a META is no mixture of two pieces follows, since a
  piece that begins while another is due sets `overtaken`.

The hypotheses are `PlayerAssumption`, `SlimprotoAssumption`, `DspAssumption`,
`CoreAudioAssumption`, `AlsaAssumption`, `HttpAssumption`, `ConstAssumption` and `OutputAssumption`, which is a
definition that MCOutputFrames assumes of each set of constants and the theorems take as a
hypothesis: the types of the constants, that a
buffer holds something and a threshold is below its size, that a slot never written holds no
frame, and nothing about how many there are of anything; and `PeriodsFit`, that a period of any kind of stream fits into the buffer of any
other, which the code relies on (section 4). TLC evaluates them in every run of these modules.

Only model-checked:

* the codecs (`Delivery`, `CompleteMeansAll`, `StartIsFirst`);
* what becomes of Ogg tags in HttpStream, whose parser is a fold over the units of a
  read: `FramingHolds` and `WholeHolds` leave it out, MCStream has both of its builds;
* what crossfades keep (`CrossfadeKeeps`), up to the two cases that it names (output.c:229 and
  226 in section 4), on the instances of Cross;
* `_buf_unwrap`, which is a RECURSIVE operator, and with it all induction over data;
* liveness under fairness (`PlaysOut`, `RefusalIsReported`, `Resumes`, `RateFollows`,
  `Finishes`, `Ends`, `ComesBackOrStops`, `LetsGo`, `LastIsApplied`) and ENABLED, which are out of
  the prover's reach.

## 6. What is not modelled

* Samples: gains, dither, conversion, DoP marking, filters, resampling. They
  are data here; none decides what a thread does next.
* HTTP headers are one step of Player, and a codec is one action of it; both are
  opened up in modules of their own, but not composed with it.
* The contents of Ogg comments and of STAT, certificates, `send_packet` giving up in
  the middle of a packet, `audg`, failing allocations of codecs.
* Of ALSA: the mixer and volume, the device test, partial `snd_pcm_mmap_commit`, GPIO.
* PortAudio, Pulse and stdout, visualisation, IR and GPIO, which the CoreAudio build
  leaves out, and Solaris and Windows variants.
* Third-party codec libraries and CoreAudio itself, beyond what the code
  relies on.
* Locks as such: no action waits while it holds a mutex but the ones the code
  nests (S inside D, O inside both), always in that order; the one wait with a
  lock at stake, stopping the Audio Unit, is done with it released, and
  CoreAudio is written that way.

## 7. Plan

Done, the most important behaviour first:

1. RingOps, RingBuffer, Fifo, BufUnwrap; MCRingBuffer; RingBufferProofs.
2. OutputFrames; MCOutputFrames, MCOutResize.
3. Player, Reports; MCPlayer, MCPlayerLostEnd.
4. CoreAudio; MCCoreAudio, MCCoreAudioIdleUnpause.
5. HttpStream; MCStream.
6. Decoder, LibCodecs, FileCodecs, Codecs; MCCodecs.
7. Slimproto; MCSlimproto.
8. Alsa; MCAlsa.
9. DspConfig; MCDspConfig.
10. PlayerProofs, SlimprotoProofs, DspConfigProofs, CoreAudioProofs, AlsaProofs, OutputFramesProofs,
    HttpStreamProofs.

To do:

11. Proofs: the hand-over of frames in Decoder, which all codecs share (`Delivery`);
    crossfades in OutputFrames, up to the cases that `CrossfadeKeeps` names.
12. An abstract register that DspConfig's chains implement, and an atomic file that
    save and rollback implement up to the cases of section 4.
