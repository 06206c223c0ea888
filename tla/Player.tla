------------------------------- MODULE Player -------------------------------
(* A track's way through the player: the stream thread (stream.c) fills    *)
(* streambuf, the decode thread (decode.c and a codec) moves it on to      *)
(* outputbuf, the audio callback (output.c) plays it, and the controller   *)
(* (slimproto.c) carries out the server's commands and reports.  Each      *)
(* action is one critical section: S, O and D are the mutexes of           *)
(* streambuf, outputbuf and the decoder, and what a thread read in one     *)
(* section and uses in a later one is kept in its locals.                  *)
(*                                                                         *)
(* A buffer is the queue of its units (RingBuffer implements one), and a   *)
(* unit is the number of the track it belongs to; fades, formats and skips *)
(* are those of OutputFrames.                                              *)
EXTENDS Integers, Sequences

CONSTANTS
    Tracks,          \* how many tracks the server streams
    TrackLen,        \* units in a track
    StreamThreshold, \* stream.threshold
    OutThreshold,    \* output.threshold
    MaxDecode,       \* units a codec moves in one call
    Plans            \* what a player is up to: each behaviour follows one plan

\* The units that streambuf and outputbuf hold (option -b), the autostart values of strm s, where
\* tracks come from ("unknown" is http with format '?'), what the listener may do at any time, and
\* what may fail.
Plan == [streamCap : Nat \ {0}, outCap : Nat \ {0},
         autostarts : SUBSET (0 .. 3), kinds : SUBSET {"http", "file", "unknown"},
         commands : SUBSET {"q", "f", "p"}, faults : SUBSET {"connect", "headers", "reset", "codec"}]

PlayerAssumption ==
    /\ Tracks \in Nat /\ TrackLen \in Nat \ {0} /\ StreamThreshold \in Nat
    /\ MaxDecode \in Nat \ {0} /\ OutThreshold \in Nat
    /\ Plans \subseteq Plan /\ \A plan \in Plans : OutThreshold < plan.outCap

VARIABLES
    stream,      \* struct streamstate, the socket or file behind fd, and as a
                 \* history which track's stream last failed
    streambuf,
    st,          \* the stream thread: before its poll or after it, and what it polled
    decode,      \* struct decodestate and the codec's track
    dt,          \* the decode thread: its next critical section and its locals
    output,      \* struct outputstate: state, track_start as the number of
                 \* frames before it (None if NULL), track_started
    outputbuf,
    slim,        \* the controller: its next critical section and its locals, and as a history
                 \* whether a pass ever saw a stream over before its codec was opened
    server       \* the server's side of the connection, and the plan

vars == <<stream, streambuf, st, decode, dt, output, outputbuf, slim, server>>

None == -1
Lesser(a, b) == IF a <= b THEN a ELSE b
Drop(s, k) == SubSeq(s, k + 1, Len(s))
Units(t, k) == [i \in 1 .. k |-> t]

StreamCap == server.plan.streamCap
OutCap == server.plan.outCap
Autostarts == server.plan.autostarts
Kinds == server.plan.kinds
Commands == server.plan.commands
Faults == server.plan.faults

\* stream.state <= DISCONNECT
Ended == stream.state \in {"STOPPED", "DISCONNECT"}

Init ==
    /\ stream = [state |-> "STOPPED", disconnect |-> "OK", fd |-> None, left |-> 0, bytes |-> 0,
                 cont_wait |-> FALSE, sent_headers |-> FALSE, failed |-> 0]
    /\ streambuf = <<>> /\ outputbuf = <<>>
    /\ st = [pc |-> "check", writable |-> FALSE]
    /\ decode = [state |-> "STOPPED", new_stream |-> TRUE, track |-> 0, done |-> 0]
    /\ dt = [pc |-> "S", bytes |-> 0, space |-> 0, toend |-> FALSE]
    /\ output = [state |-> "STOPPED", track_start |-> None, track_started |-> FALSE, heard |-> 0]
    /\ slim = [pc |-> "idle", autostart |-> 0, sentSTMu |-> FALSE, sentSTMl |-> FALSE,
               sentSTMo |-> FALSE, stream_state |-> "STOPPED", start |-> FALSE, close |-> FALSE,
               decode_state |-> "STOPPED", flushed |-> FALSE, missed |-> FALSE, say |-> {}]
    /\ \E plan \in Plans :
          server = [track |-> 0, cmd |-> "none", told |-> {}, starts |-> 0, ends |-> 0, plan |-> plan]
-----------------------------------------------------------------------------
(* The stream thread.                                                      *)

\* _disconnect
Disconnected(state, reason) ==
    [stream EXCEPT !.state = state, !.disconnect = reason, !.fd = None,
                   !.failed = IF reason = "OK" THEN @ ELSE stream.fd]

\* k units of the stream arrive in streambuf.
Received(k) ==
    /\ streambuf' = streambuf \o Units(stream.fd, k)
    /\ stream' = [stream EXCEPT !.left = @ - k, !.bytes = @ + k,
                                !.state = IF @ = "STREAMING_BUFFERING" /\ stream.bytes + k > StreamThreshold
                                          THEN "STREAMING_HTTP" ELSE @]

\* Faulty variant: one unit more than there is room for.
RoomAndOne == StreamCap + 1 - Len(streambuf)

\* min(_buf_space, _buf_cont_write) of streambuf.
Room == StreamCap - Len(streambuf)

\* The first section: a file is read at once, a socket is polled outside.
StreamCheck ==
    /\ st.pc = "check" /\ stream.fd # None /\ Room > 0
    /\ stream.state \notin {"STOPPED", "DISCONNECT", "STREAMING_WAIT"}
    /\ IF stream.state = "STREAMING_FILE"
       THEN /\ IF stream.left = 0
               THEN stream' = Disconnected("DISCONNECT", "OK") /\ UNCHANGED streambuf
               ELSE \E k \in 1 .. Lesser(Room, stream.left) : Received(k)
            /\ UNCHANGED st
       ELSE /\ st' = [pc |-> "polled", writable |-> stream.state = "SEND_HEADERS"]
            /\ UNCHANGED <<stream, streambuf>>
    /\ UNCHANGED <<decode, dt, output, outputbuf, slim, server>>

\* The second section, after the poll said the socket is readable or, while
\* the request is to be sent, writable.  It may be another socket by now, or
\* a file.
SendRequest ==
    /\ st.writable /\ stream.state = "SEND_HEADERS"
    /\ \/ stream' = [stream EXCEPT !.state = "RECV_HEADERS"]
       \/ "headers" \in Faults /\ stream' = [Disconnected("DISCONNECT", "LOCAL") EXCEPT !.fd = stream.fd]
    /\ UNCHANGED streambuf

ReadHeaders ==
    /\ ~st.writable /\ stream.state = "RECV_HEADERS"
    /\ \/ stream' = [stream EXCEPT !.state = IF stream.cont_wait THEN "STREAMING_WAIT"
                                             ELSE "STREAMING_BUFFERING"]
       \/ "headers" \in Faults                                  \* closed, or too long
            /\ stream' \in {Disconnected("STOPPED", "LOCAL"), Disconnected("DISCONNECT", "LOCAL")}
    /\ UNCHANGED streambuf

ReadBody ==
    /\ ~st.writable /\ stream.state \in {"STREAMING_BUFFERING", "STREAMING_HTTP"}
    /\ \/ \E k \in 1 .. Lesser(Room, stream.left) : Received(k)
       \/ stream.left = 0 /\ stream' = Disconnected("DISCONNECT", "OK") /\ UNCHANGED streambuf
       \/ "reset" \in Faults /\ stream' = Disconnected("DISCONNECT", "REMOTE") /\ UNCHANGED streambuf

\* recv() on the descriptor of a file fails with ENOTSOCK.
ReadFileAsSocket ==
    /\ ~st.writable /\ stream.state = "STREAMING_FILE"
    /\ stream' = Disconnected("DISCONNECT", "REMOTE")
    /\ UNCHANGED streambuf

\* Nothing to do on a new socket: recv() would block, and no POLLOUT was seen.
NothingThere ==
    /\ IF st.writable THEN stream.state # "SEND_HEADERS" ELSE stream.state = "SEND_HEADERS"
    /\ UNCHANGED <<stream, streambuf>>

StreamAct ==
    /\ st.pc = "polled"
    /\ st' = [pc |-> "check", writable |-> FALSE]
    /\ IF stream.fd = None THEN UNCHANGED <<stream, streambuf>>
       ELSE SendRequest \/ ReadHeaders \/ ReadBody \/ ReadFileAsSocket \/ NothingThere
    /\ UNCHANGED <<decode, dt, output, outputbuf, slim, server>>

StreamThread == StreamCheck \/ StreamAct
-----------------------------------------------------------------------------
(* The decode thread.  It reads the buffers in sections of their own, and  *)
(* calls the codec under D with what it read; the codec takes S and O.     *)

DecodeReadS ==
    /\ dt.pc = "S"
    /\ dt' = [dt EXCEPT !.pc = "O", !.bytes = Len(streambuf), !.toend = Ended]
    /\ UNCHANGED <<stream, streambuf, st, decode, output, outputbuf, slim, server>>

DecodeReadO ==
    /\ dt.pc = "O"
    /\ dt' = [dt EXCEPT !.pc = "D", !.space = OutCap - Len(outputbuf)]
    /\ UNCHANGED <<stream, streambuf, st, decode, output, outputbuf, slim, server>>

\* Faulty variant: what was read before is trusted.
CodecAtEndStale == dt.toend /\ dt.bytes = 0

\* pcm_decode looks again whether the stream has ended.
CodecAtEnd == Ended /\ streambuf = <<>>

Codec ==
    IF CodecAtEnd
    THEN decode' = [decode EXCEPT !.state = "COMPLETE"] /\ UNCHANGED <<streambuf, output, outputbuf>>
    ELSE \/ LET k == Lesser(Lesser(Len(streambuf), OutCap - Len(outputbuf)), MaxDecode) IN
            /\ output' = IF decode.new_stream THEN [output EXCEPT !.track_start = Len(outputbuf)]
                         ELSE output
            /\ outputbuf' = outputbuf \o SubSeq(streambuf, 1, k)
            /\ streambuf' = Drop(streambuf, k)
            /\ decode' = [decode EXCEPT !.new_stream = FALSE, !.done = @ + k]
         \/ /\ "codec" \in Faults
            /\ decode' = [decode EXCEPT !.state = "ERROR"]
            /\ UNCHANGED <<streambuf, output, outputbuf>>

DecodeRun ==
    /\ dt.pc = "D"
    /\ dt' = [pc |-> "S", bytes |-> 0, space |-> 0, toend |-> FALSE]
    /\ IF decode.state = "RUNNING" /\ dt.space > 0 /\ (dt.bytes > 0 \/ dt.toend)
       THEN Codec ELSE UNCHANGED <<streambuf, decode, output, outputbuf>>
    /\ UNCHANGED <<stream, st, slim, server>>

DecodeThread == DecodeReadS \/ DecodeReadO \/ DecodeRun
-----------------------------------------------------------------------------
(* The audio callback, one call of _output_frames.                         *)

Audible == output.state = "RUNNING" \/ (output.state = "BUFFER" /\ Len(outputbuf) > OutThreshold)

Render ==
    /\ Audible /\ outputbuf # <<>>
    /\ IF output.track_start = 0
       THEN /\ output' = [output EXCEPT !.state = "RUNNING", !.track_start = None,
                                        !.track_started = TRUE, !.heard = outputbuf[1]]
            /\ UNCHANGED outputbuf
       ELSE \E k \in 1 .. IF output.track_start = None THEN Len(outputbuf) ELSE output.track_start :
            /\ outputbuf' = Drop(outputbuf, k)
            /\ output' = [output EXCEPT !.state = "RUNNING",
                                        !.track_start = IF @ = None THEN None ELSE @ - k]
    /\ UNCHANGED <<stream, streambuf, st, decode, dt, slim, server>>
-----------------------------------------------------------------------------
(* The controller: the pass of slimproto_run, made when it is woken or     *)
(* after 100 ms, in sections S, D and O; then what it found is sent.       *)

Streaming == {"STREAMING_HTTP", "STREAMING_FILE"}

\* Faulty variant: only the end of a stream that was announced is reported.
DisconnectReportAnnounced == IF stream.state # "DISCONNECT" \/ ~stream.sent_headers THEN {}
                             ELSE IF stream.disconnect = "OK" THEN {"DSCO"} ELSE {"DSCO failed"}

\* sendDSCO, with the reason in stream.disconnect: an end or a failure.
DisconnectReport == IF stream.state # "DISCONNECT" THEN {}
                    ELSE IF stream.disconnect = "OK" THEN {"DSCO"} ELSE {"DSCO failed"}

PassS ==
    /\ slim.pc = "idle"
    /\ LET headers == ~stream.sent_headers
                        /\ stream.state \in {"STREAMING_HTTP", "STREAMING_WAIT", "STREAMING_BUFFERING"}
       IN  /\ slim' = [slim EXCEPT !.pc = "D", !.stream_state = stream.state,
                                   !.missed = @ \/ (stream.state = "DISCONNECT" /\ decode.track # server.track),
                                   !.say = DisconnectReport
                                             \cup (IF headers THEN {"RESP"} ELSE {})]
           /\ stream' = [stream EXCEPT !.sent_headers = @ \/ headers,
                                       !.state = IF @ = "DISCONNECT" THEN "STOPPED" ELSE @]
    /\ UNCHANGED <<streambuf, st, decode, dt, output, outputbuf, server>>

\* Faulty variant: a stream that ended before the pass is not decoded.
MayDecodeStreaming ==
    /\ slim.stream_state \in Streaming
    /\ ~slim.sentSTMl /\ decode.state = "READY" /\ slim.autostart \in {0, 1}

\* The decoder is started once enough of the stream, or all of it, is there.
\* stream.disconnect is read without its mutex.
MayDecode ==
    /\ \/ slim.stream_state \in Streaming
       \/ slim.stream_state = "DISCONNECT" /\ stream.disconnect = "OK"
    /\ ~slim.sentSTMl /\ decode.state = "READY" /\ slim.autostart \in {0, 1}

\* Faulty variant: a codec that failed is reported as one that is done.
DecodeReportDone == IF decode.state \in {"COMPLETE", "ERROR"} THEN {"STMd"}
                    ELSE IF MayDecode /\ slim.autostart = 0 THEN {"STMl"} ELSE {}

\* What the pass has to say of the decoder.
DecodeReport == IF decode.state = "COMPLETE" THEN {"STMd"}
                ELSE IF decode.state = "ERROR" THEN {"STMn"}
                ELSE IF MayDecode /\ slim.autostart = 0 THEN {"STMl"} ELSE {}

PassD ==
    /\ slim.pc = "D"
    /\ LET over   == decode.state \in {"COMPLETE", "ERROR"}
           state  == IF MayDecode THEN "RUNNING" ELSE IF over THEN "STOPPED" ELSE decode.state
       IN  /\ decode' = [decode EXCEPT !.state = state]
           /\ slim' = [slim EXCEPT !.pc = "O", !.say = @ \cup DecodeReport,
                                   !.sentSTMl = @ \/ "STMl" \in DecodeReport,
                                   !.start = MayDecode /\ slim.autostart = 1,
                                   !.close = over /\ slim.stream_state \in Streaming,
                                   !.decode_state = state]
    /\ UNCHANGED <<stream, streambuf, st, dt, output, outputbuf, server>>

\* Faulty variant: a track start is reported again and again.
NotReported(o) == o

\* A track start is reported once.
Reported(o) == [o EXCEPT !.track_started = FALSE]

PassO ==
    /\ slim.pc = "O"
    /\ LET state    == IF slim.start /\ output.state = "STOPPED" THEN "BUFFER" ELSE output.state
           empty    == state = "RUNNING" /\ outputbuf = <<>>
           underrun == empty /\ ~slim.sentSTMu /\ slim.stream_state \in {"STOPPED", "DISCONNECT"}
                         /\ slim.decode_state = "STOPPED"
           starved  == empty /\ ~underrun /\ ~slim.sentSTMo /\ slim.stream_state = "STREAMING_HTTP"
       IN  /\ output' = Reported([output EXCEPT !.state = IF underrun THEN "STOPPED" ELSE state])
           /\ slim' = [slim EXCEPT !.pc = IF slim.close THEN "close" ELSE "send",
                                   !.sentSTMu = @ \/ underrun, !.sentSTMo = @ \/ starved,
                                   !.say = @ \cup (IF output.track_started THEN {"STMs"} ELSE {})
                                             \cup (IF underrun THEN {"STMu"} ELSE {})
                                             \cup (IF starved THEN {"STMo"} ELSE {})]
    /\ UNCHANGED <<stream, streambuf, st, decode, dt, outputbuf, server>>

\* stream_disconnect
Closed == [stream EXCEPT !.state = "STOPPED", !.fd = None]

PassClose ==
    /\ slim.pc = "close"
    /\ stream' = Closed
    /\ slim' = [slim EXCEPT !.pc = "send"]
    /\ UNCHANGED <<streambuf, st, decode, dt, output, outputbuf, server>>

\* Faulty variant: the underrun is sent first.
OrderUnderrunFirst == <<"STMu", "DSCO", "DSCO failed", "STMs", "STMd", "STMl", "STMo", "STMn", "RESP">>

\* The order in which a pass sends what it has to say.
Order == <<"DSCO", "DSCO failed", "STMs", "STMd", "STMl", "STMu", "STMo", "STMn", "RESP">>

\* The server hears message m.
Hears(m) ==
    server' = [server EXCEPT !.told = @ \cup {m}, !.starts = @ + (IF m = "STMs" THEN 1 ELSE 0),
                             !.ends = @ + (IF m = "STMd" THEN 1 ELSE 0)]

PassSend ==
    /\ slim.pc = "send"
    /\ IF slim.say = {}
       THEN /\ slim' = [slim EXCEPT !.pc = "idle", !.start = FALSE, !.close = FALSE,
                                    !.stream_state = "STOPPED", !.decode_state = "STOPPED"]
            /\ UNCHANGED server
       ELSE \E i \in DOMAIN Order :
               /\ Order[i] \in slim.say /\ \A j \in 1 .. i - 1 : Order[j] \notin slim.say
               /\ slim' = [slim EXCEPT !.say = @ \ {Order[i]}] /\ Hears(Order[i])
    /\ UNCHANGED <<stream, streambuf, st, decode, dt, output, outputbuf>>

Pass == PassS \/ PassD \/ PassO \/ PassClose \/ PassSend
-----------------------------------------------------------------------------
(* The controller carries out a command of the server, section by section. *)

\* Faulty variant: the decoder keeps running.
FlushDecodeRunning ==
    /\ slim.pc = "idle" /\ server.cmd \in {"q", "f"}
    /\ slim' = [slim EXCEPT !.pc = IF server.cmd = "q" THEN "flush" ELSE "streaming"]
    /\ UNCHANGED <<stream, streambuf, st, decode, dt, output, outputbuf, server>>

\* strm q: decode_flush, output_flush (two sections), stream_disconnect and
\* STMf, buf_flush of streambuf.  strm f: decode_flush,
\* output_flush_streaming, stream_disconnect and STMf, buf_flush.
FlushDecode ==
    /\ slim.pc = "idle" /\ server.cmd \in {"q", "f"}
    /\ decode' = [decode EXCEPT !.state = "STOPPED"]
    /\ slim' = [slim EXCEPT !.pc = IF server.cmd = "q" THEN "flush" ELSE "streaming"]
    /\ UNCHANGED <<stream, streambuf, st, dt, output, outputbuf, server>>

\* output_flush leaves the pointer in track_start behind.  Only a strm f that
\* comes before the next track starts reads it: that is OutputFrames' subject.
FlushOutput ==
    /\ slim.pc = "flush"
    /\ outputbuf' = <<>>
    /\ output' = [output EXCEPT !.track_start = None]
    /\ slim' = [slim EXCEPT !.pc = "stop"]
    /\ UNCHANGED <<stream, streambuf, st, decode, dt, server>>

StopOutput ==
    /\ slim.pc = "stop"
    /\ output' = [output EXCEPT !.state = "STOPPED"]
    /\ slim' = [slim EXCEPT !.pc = "disconnect", !.flushed = TRUE]
    /\ UNCHANGED <<stream, streambuf, st, decode, dt, outputbuf, server>>

FlushStreaming ==
    /\ slim.pc = "streaming"
    /\ outputbuf' = IF output.track_start = None THEN outputbuf
                    ELSE SubSeq(outputbuf, 1, output.track_start)
    /\ output' = [output EXCEPT !.track_start = None]
    /\ slim' = [slim EXCEPT !.pc = "disconnect", !.flushed = output.track_start # None]
    /\ UNCHANGED <<stream, streambuf, st, decode, dt, server>>

FlushStream ==
    /\ slim.pc = "disconnect"
    /\ stream' = Closed
    /\ slim' = [slim EXCEPT !.pc = "drain"]
    /\ IF slim.flushed \/ stream.fd # None THEN Hears("STMf") ELSE UNCHANGED server
    /\ UNCHANGED <<streambuf, st, decode, dt, output, outputbuf>>

FlushDrain ==
    /\ slim.pc = "drain"
    /\ streambuf' = <<>>
    /\ slim' = [slim EXCEPT !.pc = "idle", !.flushed = FALSE]
    /\ server' = [server EXCEPT !.cmd = "none"]
    /\ UNCHANGED <<stream, st, decode, dt, output, outputbuf>>

\* codec_open
CodecOpened(t) == [state |-> "READY", new_stream |-> TRUE, track |-> t, done |-> 0]

\* strm s: codec_open, stream_sock or stream_file (which flushes streambuf in
\* a section of its own), then the output's parameters.  It begins with a
\* STMf of its own, which answers no flush and is left out.
\* A stream of an unknown format opens no codec until codc, and is refused
\* unless it waits for cont: the server knows that.  A file does not wait for
\* cont, and 2 is taken off its autostart at once, whatever that was.
OpenCodec ==
    /\ slim.pc = "idle" /\ server.cmd \in {"s", "file", "unknown"}
    /\ \E a \in IF server.cmd = "unknown" THEN Autostarts \cap {2, 3} ELSE Autostarts :
          slim' = [slim EXCEPT !.pc = "connect", !.say = {},
                               !.autostart = IF server.cmd = "file" THEN a - 2 ELSE a]
    /\ decode' = IF server.cmd = "unknown" THEN decode ELSE CodecOpened(server.track + 1)
    /\ server' = [server EXCEPT !.track = @ + 1, !.told = {}]
    /\ UNCHANGED <<stream, streambuf, st, dt, output, outputbuf>>

Connect ==
    /\ slim.pc = "connect"
    /\ \/ /\ slim' = [slim EXCEPT !.pc = "open"]
          /\ streambuf' = <<>>
          /\ UNCHANGED stream
       \/ /\ "connect" \in Faults /\ server.cmd # "file"
          /\ stream' = [stream EXCEPT !.state = "DISCONNECT", !.disconnect = "UNREACHABLE",
                                      !.failed = server.track]
          /\ slim' = [slim EXCEPT !.pc = "begin"]
          /\ UNCHANGED streambuf
    /\ UNCHANGED <<st, decode, dt, output, outputbuf, server>>

OpenStream ==
    /\ slim.pc = "open"
    /\ stream' = [stream EXCEPT !.state = IF server.cmd = "file" THEN "STREAMING_FILE" ELSE "SEND_HEADERS",
                                !.fd = server.track, !.left = TrackLen, !.bytes = 0,
                                !.cont_wait = server.cmd # "file" /\ slim.autostart >= 2,
                                !.sent_headers = FALSE]
    /\ slim' = [slim EXCEPT !.pc = "begin"]
    /\ UNCHANGED <<streambuf, st, decode, dt, output, outputbuf, server>>

Begin ==
    /\ slim.pc = "begin"
    /\ slim' = [slim EXCEPT !.pc = "idle", !.sentSTMu = FALSE, !.sentSTMl = FALSE, !.sentSTMo = FALSE]
    /\ server' = [server EXCEPT !.cmd = "none", !.told = @ \cup {"STMc"}]
    /\ UNCHANGED <<stream, streambuf, st, decode, dt, output, outputbuf>>

\* process_cont
Cont ==
    /\ slim.pc = "idle" /\ server.cmd = "cont"
    /\ IF slim.autostart > 1
       THEN /\ slim' = [slim EXCEPT !.autostart = @ - 2]
            /\ stream' = [stream EXCEPT !.state = IF @ = "STREAMING_WAIT" THEN "STREAMING_BUFFERING" ELSE @]
       ELSE UNCHANGED <<slim, stream>>
    /\ server' = [server EXCEPT !.cmd = "none"]
    /\ UNCHANGED <<streambuf, st, decode, dt, output, outputbuf>>

\* process_codc
Codc ==
    /\ slim.pc = "idle" /\ server.cmd = "codc"
    /\ decode' = CodecOpened(server.track)
    /\ server' = [server EXCEPT !.cmd = "none"]
    /\ UNCHANGED <<stream, streambuf, st, dt, output, outputbuf, slim>>

\* strm p and u
SetOutput(cmd, state) ==
    /\ slim.pc = "idle" /\ server.cmd = cmd
    /\ output' = [output EXCEPT !.state = state]
    /\ server' = [server EXCEPT !.cmd = "none", !.told = (@ \ {"paused"}) \cup
                                                  IF cmd = "p" THEN {"paused"} ELSE {"resumed"}]
    /\ UNCHANGED <<stream, streambuf, st, decode, dt, outputbuf, slim>>

Pause   == SetOutput("p", "STOPPED")
Unpause == SetOutput("u", "RUNNING")

Command == FlushDecode \/ FlushOutput \/ StopOutput \/ FlushStreaming \/ FlushStream \/ FlushDrain
             \/ OpenCodec \/ Connect \/ OpenStream \/ Begin \/ Cont \/ Codc \/ Pause \/ Unpause

Controller == Pass \/ Command
-----------------------------------------------------------------------------
(* The server (external, LMS): one command at a time.                      *)

Sends(cmd) ==
    /\ server.cmd = "none"
    /\ server' = [server EXCEPT !.cmd = cmd]
    /\ UNCHANGED <<stream, streambuf, st, decode, dt, output, outputbuf, slim>>

\* The next track, once the last one is decoded and heard, or was flushed.
Playlist ==
    /\ server.track < Tracks
    /\ server.track = 0 \/ {"STMs", "STMd"} \subseteq server.told \/ "STMf" \in server.told
    /\ \E kind \in Kinds : Sends(IF kind = "http" THEN "s" ELSE kind)

\* What the server answers: to the headers of a stream codc, if it did not
\* know its format and has not flushed the stream, and cont, if it waits for
\* it, in either order; a start to a track that is ready and was not to start
\* by itself.
Answer ==
    \/ "RESP" \in server.told /\ "STMf" \notin server.told /\ decode.track # server.track /\ Sends("codc")
    \/ "RESP" \in server.told /\ stream.state = "STREAMING_WAIT" /\ Sends("cont")
    \/ "STMl" \in server.told /\ "resumed" \notin server.told /\ Sends("u")
    \/ "paused" \in server.told /\ Sends("u")

\* A failed stream is flushed.
GiveUp ==
    /\ server.told \cap {"STMn", "DSCO failed"} # {} /\ "STMf" \notin server.told
    /\ Sends("q")

\* The listener stops and skips at any time, and pauses a track once.
Listener ==
    \/ "q" \in Commands /\ server.track > 0 /\ Sends("q")
    \/ "f" \in Commands /\ server.track > 0 /\ Sends("f")
    \/ "p" \in Commands /\ "STMs" \in server.told /\ server.told \cap {"paused", "resumed"} = {} /\ Sends("p")

Server == Playlist \/ Answer \/ GiveUp \/ Listener

Next == StreamThread \/ DecodeThread \/ Render \/ Controller \/ Server

\* Every thread keeps running: the stream and decode threads loop on 100 ms
\* sleeps, the controller makes a pass at least every second, the device
\* calls back while it runs, and the server answers.  A command is not
\* passed over for ever: slimproto_run reads the socket before each pass.
Fairness ==
    /\ WF_vars(StreamThread) /\ WF_vars(DecodeThread) /\ WF_vars(Render)
    /\ WF_vars(Pass) /\ SF_vars(Command) /\ WF_vars(Answer)

Spec == Init /\ [][Next]_vars

FairSpec == Spec /\ Fairness
-----------------------------------------------------------------------------
\* The buffers stay within their bounds although space is measured in one
\* critical section and used in another, and track_start stays inside
\* outputbuf although callback and flush both take frames away.
TypeOK ==
    /\ Len(streambuf) <= StreamCap /\ Len(outputbuf) <= OutCap
    /\ output.track_start \in {None} \cup 0 .. Len(outputbuf)
    /\ output.state \in {"STOPPED", "BUFFER", "RUNNING"}
    /\ decode.state \in {"STOPPED", "READY", "RUNNING", "COMPLETE", "ERROR"}
    /\ stream.fd # None => stream.fd = server.track

\* Once a flush (strm q, f) is reported, nothing is left of a track that was
\* not heard yet, whatever the stream and decode threads were about to do, and
\* no buffer holds more than it has room for.
FlushedIsGone ==
    /\ TypeOK
    /\ "STMf" \in server.told /\ slim.pc = "idle" /\ output.heard # server.track
         => \A i \in 1 .. Len(outputbuf) : outputbuf[i] # server.track

\* A track reported as decoded (STMd) was decoded to its last unit, although
\* the decode thread acts on a stream state and a byte count it read earlier.
DecodedMeansAll == "STMd" \in server.told /\ Faults = {} => decode.done = TrackLen

\* STMs tells the server that the track it streamed last is being heard.
\* "flush output buffer (full)" (output_flush): what was flushed is over.
StartsAreTrue == "STMs" \in server.told => output.heard = server.track

\* The listener pauses and no more, nothing breaks, and no codc came only after the stream was over.
PlaysOn == Commands \subseteq {"p"} /\ Faults = {} /\ ~slim.missed

\* Of a server whose tracks play on, both hold.
ReportsAreTrue == PlaysOn => DecodedMeansAll /\ StartsAreTrue

\* "check socket has not been closed while in poll" (stream_thread): what was
\* polled is what is read, so that without a fault of the network no stream
\* is given up as broken.
NoFalseDisconnect == "reset" \notin Faults => stream.disconnect # "REMOTE"

\* What the server relies on: each track is reported as heard and as decoded
\* once, and an underrun (STMu) only after both, while the tracks play on.
ReportsSpec == INSTANCE Reports WITH
    streamed <- server.track, started <- server.starts, decoded <- server.ends,
    dry <- "STMu" \in server.told
InOrder == /\ PlaysOn => ReportsSpec!Init
           /\ [][PlaysOn => ReportsSpec!Next]_(ReportsSpec!vars)

\* The last track is played out: no thread waits for another for ever, and
\* no wake-up is lost between the critical sections of a pass.  Not so a file
\* whose autostart was 0 or 1, and a stream that was over before its codec.
PlaysOut ==
    PlaysOn /\ server.track = Tracks /\ "STMc" \in server.told /\ slim.autostart >= 0
      ~> "STMu" \in server.told \/ slim.missed

\* A stream that broke is reported to the server, with a reason (DSCO,
\* "LOCAL_DISCONNECT = 1, REMOTE_DISCONNECT = 2, UNREACHABLE = 3",
\* squeezelite.h), or as a decoder error, unless it was flushed.
Told(t) == server.track > t \/ server.told \cap {"DSCO failed", "STMf", "STMn"} # {}
FailureIsReported == \A t \in 1 .. Tracks : stream.failed = t /\ server.track = t ~> Told(t)

\* So is a connection that is refused or a codec that fails, as far as no poll
\* outlives its socket (stream_thread) and no connection breaks.
Broken(t) == stream.failed = t \/ (decode.state = "ERROR" /\ decode.track = t)
RefusalIsReported == \A t \in 1 .. Tracks :
    Faults \subseteq {"connect", "codec"} /\ Kinds = {"http"} /\ Broken(t) /\ server.track = t
      ~> Told(t)
=============================================================================
