---------------------------- MODULE PlayerProofs ----------------------------
(* Player's safety properties hold for any number and length of tracks,    *)
(* any size of the buffers and any threshold, and with every command of    *)
(* the server and every fault; those that speak of whole tracks hold while *)
(* the tracks play on.                                                     *)
EXTENDS Player, SequenceTheorems, TLAPS

States == {"STOPPED", "DISCONNECT", "SEND_HEADERS", "RECV_HEADERS", "STREAMING_WAIT",
           "STREAMING_BUFFERING", "STREAMING_HTTP", "STREAMING_FILE"}
Reasons == {"OK", "LOCAL", "REMOTE", "UNREACHABLE"}
StreamRec == [state : States, disconnect : Reasons, fd : Int, left : Nat, bytes : Nat,
              cont_wait : BOOLEAN, sent_headers : BOOLEAN, failed : Int]
StRec == [pc : {"check", "polled"}, writable : BOOLEAN]
DecodeStates == {"STOPPED", "READY", "RUNNING", "COMPLETE", "ERROR"}
DecodeRec == [state : DecodeStates, new_stream : BOOLEAN, track : Nat, done : Nat]
DtRec == [pc : {"S", "O", "D"}, bytes : Nat, space : Int, toend : BOOLEAN]
OutputStates == {"STOPPED", "BUFFER", "RUNNING"}
OutputRec == [state : OutputStates, track_start : Int, track_started : BOOLEAN, heard : Int]
PassPcs == {"D", "O", "close", "send"}
FlushPcs == {"flush", "stop", "streaming", "disconnect", "drain"}
SetupPcs == {"connect", "open", "begin"}
Pcs == {"idle"} \cup PassPcs \cup FlushPcs \cup SetupPcs
Messages == {"DSCO", "DSCO failed", "STMs", "STMd", "STMl", "STMu", "STMo", "STMn", "STMf", "STMc",
             "RESP", "paused", "resumed"}
SlimRec == [pc : Pcs, autostart : Int, missed : BOOLEAN, sentSTMu : BOOLEAN, sentSTMl : BOOLEAN, sentSTMo : BOOLEAN,
            stream_state : States, start : BOOLEAN, close : BOOLEAN, decode_state : DecodeStates,
            flushed : BOOLEAN, say : SUBSET Messages]
Cmds == {"none", "s", "file", "unknown", "q", "f", "p", "u", "cont", "codc"}
ServerRec == [track : Nat, cmd : Cmds, told : SUBSET Messages, starts : Nat, ends : Nat,
              plan : Plans]

\* Every variable has its type.
Typed ==
    /\ stream \in StreamRec /\ streambuf \in Seq(Int) /\ st \in StRec
    /\ decode \in DecodeRec /\ dt \in DtRec /\ output \in OutputRec /\ outputbuf \in Seq(Int)
    /\ slim \in SlimRec /\ server \in ServerRec

\* The socket or file is closed, and the stream state says so.
StreamOver == Ended /\ stream.fd = None

\* The stream of the last track flows, or flowed and is over.
Flowing == stream.state \in Streaming \/ StreamOver

\* Nothing of the last track has gone through the codec.
Fresh == decode.track # server.track \/ decode.new_stream

NewTrack == {"s", "file", "unknown"}

\* The server may ask for the next track.
Over == server.track = 0 \/ {"STMs", "STMd"} \subseteq server.told \/ "STMf" \in server.told

Said == slim.say \cup server.told

NoneLeft == \A i \in 1 .. Len(outputbuf) : outputbuf[i] # server.track

\* The connection for the last track was refused.
Refused ==
    /\ StreamOver /\ stream.disconnect = "UNREACHABLE"
    /\ decode.state \in {"STOPPED", "READY"} /\ slim.stream_state \notin Streaming

\* Which command goes with which section of the controller.
CommandInv ==
    /\ slim.pc \in FlushPcs => server.cmd \in {"q", "f"} /\ decode.state = "STOPPED"
    /\ slim.pc \in SetupPcs => /\ server.cmd \in NewTrack /\ server.track > 0 /\ Said = {}
                               /\ decode.state = "READY" \/ decode.track # server.track
    /\ slim.pc \in {"connect", "open"} => StreamOver
    /\ slim.pc \notin PassPcs => slim.stream_state = "STOPPED"
    /\ server.cmd \in NewTrack /\ slim.pc \notin SetupPcs => Over
    /\ server.cmd = "codc" => decode.track # server.track /\ "STMf" \notin server.told

\* The stream is that of the last track.
StreamInv ==
    /\ stream.fd # None => stream.fd = server.track /\ server.track > 0
    /\ stream.fd # None /\ Ended => stream.disconnect # "OK"
    /\ slim.stream_state = "DISCONNECT" => Ended
    /\ slim.stream_state \in Streaming \/ decode.state = "RUNNING" => Flowing
    /\ decode.state = "COMPLETE" \/ "STMd" \in Said \/ server.track = 0 => StreamOver

\* The decoder works on the last track and no other.
DecodeInv ==
    /\ decode.track <= server.track
    /\ decode.track # server.track \/ server.track = 0 \/ "STMd" \in Said => decode.state = "STOPPED"
    /\ decode.state = "READY" => decode.new_stream
    /\ "STMd" \in Said => decode.track = server.track

\* streambuf holds the last track, unless that was refused.
StreambufInv ==
    /\ Len(streambuf) <= StreamCap /\ (slim.pc = "open" => streambuf = <<>>)
    /\ slim.pc = "connect" \/ Refused \/ \A i \in 1 .. Len(streambuf) : streambuf[i] = server.track

\* outputbuf holds earlier tracks up to track_start, and the last one from there on.
OutputbufInv ==
    /\ Len(outputbuf) <= OutCap /\ output.track_start \in {None} \cup 0 .. Len(outputbuf)
    /\ \A i \in 1 .. Len(outputbuf) : outputbuf[i] <= server.track
    /\ Fresh => NoneLeft
    /\ ~Fresh /\ output.track_start # None =>
          \A i \in 1 .. Len(outputbuf) : outputbuf[i] = server.track <=> i > output.track_start
    /\ ~Fresh /\ output.track_start = None =>
          output.heard = server.track \/ (NoneLeft /\ decode.state = "STOPPED")

\* What was flushed stays so.
FlushInv ==
    /\ slim.pc \in {"stop", "disconnect", "drain"} => output.track_start = None
    /\ "STMf" \in server.told => decode.state = "STOPPED" /\ output.track_start = None /\ StreamOver

Inv == Typed /\ CommandInv /\ StreamInv /\ DecodeInv /\ StreambufInv /\ OutputbufInv /\ FlushInv

Done == IF decode.track = server.track THEN decode.done ELSE 0
One(P) == IF P THEN 1 ELSE 0

\* Nothing breaks and nothing is flushed.
SoundInv ==
    /\ stream.disconnect = "OK" /\ decode.state # "ERROR" /\ server.cmd \notin {"q", "f"}
    /\ Said \cap {"STMf", "STMn", "DSCO failed"} = {}
    /\ st.pc = "polled" => stream.fd # None /\ ~Ended /\ stream.state # "STREAMING_FILE"

\* No unit of the last track is lost between the network and the codec.
LengthInv ==
    /\ decode.new_stream => decode.done = 0
    /\ server.track > 0 /\ slim.pc \notin {"connect", "open"} =>
          /\ stream.left + Len(streambuf) + Done = TrackLen
          /\ Ended => stream.left = 0
    /\ decode.state = "COMPLETE" \/ "STMd" \in Said => decode.done = TrackLen

\* No pass saw the stream over before its codec was opened, or else that is on record.
LateInv ==
    ~slim.missed /\ decode.track # server.track =>
        /\ slim.pc \notin {"connect", "open"} => stream.state # "STOPPED"
        /\ slim.pc \in PassPcs => slim.stream_state \notin {"STOPPED", "DISCONNECT"}

\* A pass begins with nothing to say, and a command with its track.
TurnInv ==
    /\ slim.pc = "idle" => slim.say = {}
    /\ slim.pc \notin PassPcs => ~slim.close
    /\ server.cmd \in NewTrack /\ slim.pc \notin SetupPcs => server.track < Tracks
    /\ server.cmd \in {"p", "u"} => server.track > 0

\* The last track is decoded, heard and reported once.
OnceInv ==
    /\ server.track = 0 => /\ Said = {} /\ output.state = "STOPPED" /\ ~slim.start
                           /\ stream.state = "STOPPED" /\ Fresh /\ server.starts = 0 /\ server.ends = 0
    /\ server.track > 0 => /\ server.starts = server.track - 1 + One("STMs" \in server.told)
                           /\ server.ends = server.track - 1 + One("STMd" \in server.told)
    /\ slim.say \cap server.told \cap {"STMs", "STMd", "STMu"} = {}
    /\ decode.state = "STOPPED" /\ decode.track = server.track /\ server.track > 0 => "STMd" \in Said
    /\ slim.pc = "O" /\ slim.decode_state = "STOPPED" => decode.state = "STOPPED"
    /\ slim.pc \in PassPcs /\ slim.close => "STMd" \in Said
    /\ slim.pc = "close" => slim.close
    /\ "STMu" \in Said => slim.sentSTMu
    /\ "STMu" \in slim.say => {"STMs", "STMd"} \subseteq Said
    /\ Fresh => output.track_start = None
    /\ output.track_started => "STMs" \notin Said
    /\ output.track_started \/ "STMs" \in Said <=> ~Fresh /\ output.track_start = None
    /\ ~Fresh /\ output.track_start = None => output.heard = server.track
    /\ ~Fresh /\ output.track_start # None => Len(outputbuf) - output.track_start = decode.done

PlaysOnInv == SoundInv /\ LengthInv /\ LateInv /\ TurnInv /\ OnceInv
-----------------------------------------------------------------------------
(* Lemmas about the operators.                                              *)

\* The names that are in the types.
LEMMA Names ==
  /\ {"STOPPED", "DISCONNECT", "SEND_HEADERS", "RECV_HEADERS", "STREAMING_WAIT",
      "STREAMING_BUFFERING", "STREAMING_HTTP", "STREAMING_FILE"} \subseteq States
  /\ {"OK", "LOCAL", "REMOTE", "UNREACHABLE"} \subseteq Reasons
  /\ {"STOPPED", "READY", "RUNNING", "COMPLETE", "ERROR"} \subseteq DecodeStates
  /\ {"STOPPED", "BUFFER", "RUNNING"} \subseteq OutputStates
  BY DEF States, Reasons, DecodeStates, OutputStates

\* What a plan may be.
LEMMA PlanIs ==
  ASSUME PlayerAssumption, server \in ServerRec
  PROVE  /\ StreamCap \in Nat \ {0} /\ OutCap \in Nat \ {0}
         /\ Autostarts \subseteq 0 .. 3 /\ Kinds \subseteq {"http", "file", "unknown"}
  <1>1. server.plan \in Plan
    BY DEF ServerRec, PlayerAssumption
  <1> QED BY <1>1 DEF Plan, StreamCap, OutCap, Autostarts, Kinds

\* A plan is not given up.
SamePlan == StreamCap' = StreamCap /\ OutCap' = OutCap /\ Faults' = Faults /\ Commands' = Commands

LEMMA PlanKept ==
  ASSUME server \in ServerRec, [Next]_vars
  PROVE  SamePlan
  <1>1. server'.plan = server.plan
    <2>1. CASE UNCHANGED server
      BY <2>1
    <2>2. CASE FlushStream \/ PassSend
      BY <2>2 DEF FlushStream, PassSend, Hears, ServerRec
    <2>3. CASE FlushDrain \/ OpenCodec \/ Begin \/ Cont \/ Codc
      BY <2>3 DEF FlushDrain, OpenCodec, Begin, Cont, Codc, ServerRec
    <2>4. CASE Pause \/ Unpause
      BY <2>4 DEF Pause, Unpause, SetOutput, ServerRec
    <2>5. CASE Server
      BY <2>5 DEF Server, Playlist, Answer, GiveUp, Listener, Sends, ServerRec
    <2>6. CASE StreamThread \/ DecodeThread \/ Render
      BY <2>1, <2>6 DEF StreamThread, StreamCheck, StreamAct, DecodeThread, DecodeReadS, DecodeReadO, DecodeRun, Render
    <2>7. CASE Pass
      BY <2>1, <2>2, <2>7 DEF Pass, PassS, PassD, PassO, PassClose
    <2>8. CASE Command
      BY <2>1, <2>2, <2>3, <2>4, <2>8 DEF Command, FlushDecode, FlushOutput, StopOutput, FlushStreaming, Connect, OpenStream
    <2> QED BY <2>1, <2>5, <2>6, <2>7, <2>8 DEF Next, Controller, vars
  <1> QED BY <1>1 DEF SamePlan, StreamCap, OutCap, Faults, Commands

LEMMA PcNames ==
  {"idle", "D", "O", "close", "send", "flush", "stop", "streaming", "disconnect", "drain",
   "connect", "open", "begin"} \subseteq Pcs
  BY DEF Pcs, PassPcs, FlushPcs, SetupPcs

LEMMA MessageNames ==
  {"DSCO", "DSCO failed", "STMs", "STMd", "STMl", "STMu", "STMo", "STMn", "STMf", "STMc",
   "RESP", "paused", "resumed"} \subseteq Messages
  BY DEF Messages

LEMMA CmdNames == "none" \in Cmds
  BY DEF Cmds

\* What Units, Drop and a prefix of a queue are.
LEMMA UnitsIs ==
  ASSUME NEW t \in Int, NEW k \in Nat
  PROVE  /\ Units(t, k) \in Seq(Int) /\ Len(Units(t, k)) = k
         /\ \A i \in 1 .. k : Units(t, k)[i] = t
  BY DEF Units

LEMMA DropIs ==
  ASSUME NEW s \in Seq(Int), NEW k \in 0 .. Len(s)
  PROVE  /\ Drop(s, k) \in Seq(Int) /\ Len(Drop(s, k)) = Len(s) - k
         /\ \A i \in 1 .. Len(s) - k : Drop(s, k)[i] = s[i + k]
  <1>1. Len(s) \in Nat /\ k \in Nat /\ k <= Len(s) /\ \A i \in k + 1 .. Len(s) : s[i] \in Int
    OBVIOUS
  <1> DEFINE d == SubSeq(s, k + 1, Len(s))
  <1>2. /\ d \in Seq(Int) /\ Len(d) = (IF k + 1 <= Len(s) THEN Len(s) - (k + 1) + 1 ELSE 0)
        /\ \A i \in 1 .. Len(s) - (k + 1) + 1 : d[i] = s[(k + 1) + i - 1]
    BY <1>1, SubSeqProperties
  <1>3. Drop(s, k) = d
    BY DEF Drop
  <1> HIDE DEF d
  <1> QED BY <1>1, <1>2, <1>3

LEMMA PrefixIs ==
  ASSUME NEW s \in Seq(Int), NEW k \in 0 .. Len(s)
  PROVE  /\ SubSeq(s, 1, k) \in Seq(Int) /\ Len(SubSeq(s, 1, k)) = k
         /\ \A i \in 1 .. k : SubSeq(s, 1, k)[i] = s[i]
  <1>1. Len(s) \in Nat /\ k \in Nat /\ \A i \in 1 .. k : s[i] \in Int
    OBVIOUS
  <1> DEFINE d == SubSeq(s, 1, k)
  <1>2. /\ d \in Seq(Int) /\ Len(d) = (IF 1 <= k THEN k - 1 + 1 ELSE 0)
        /\ \A i \in 1 .. k - 1 + 1 : d[i] = s[1 + i - 1]
    BY <1>1, SubSeqProperties
  <1> HIDE DEF d
  <1>3. d \in Seq(Int) /\ Len(d) = k /\ \A i \in 1 .. k : d[i] = s[i]
    BY <1>1, <1>2
  <1> QED BY <1>3 DEF d

LEMMA JoinIs ==
  ASSUME NEW s \in Seq(Int), NEW t \in Seq(Int)
  PROVE  /\ s \o t \in Seq(Int) /\ Len(s \o t) = Len(s) + Len(t)
         /\ \A i \in 1 .. Len(s) + Len(t) :
               (s \o t)[i] = IF i <= Len(s) THEN s[i] ELSE t[i - Len(s)]
  BY ConcatProperties

LEMMA LesserIs ==
  ASSUME NEW a \in Int, NEW b \in Int
  PROVE  Lesser(a, b) \in {a, b} /\ Lesser(a, b) <= a /\ Lesser(a, b) <= b
  BY DEF Lesser

-----------------------------------------------------------------------------
(* What the actions do, field by field.                                     *)

LEMMA RoomIs ==
  ASSUME PlayerAssumption, Typed, Len(streambuf) <= StreamCap
  PROVE  Room \in Nat /\ Lesser(Room, stream.left) \in Nat
           /\ Lesser(Room, stream.left) <= stream.left /\ Lesser(Room, stream.left) <= Room
           /\ Room = StreamCap - Len(streambuf)
  <1>1. stream.left \in Nat /\ Len(streambuf) \in Nat /\ StreamCap \in Nat
    BY PlanIs DEF Typed, StreamRec
  <1> QED BY <1>1 DEF Room, Lesser

\* k units arrive.
LEMMA ReceivedIs ==
  ASSUME Typed, NEW k \in Nat, k <= stream.left, Received(k)
  PROVE  /\ stream' \in StreamRec /\ streambuf' \in Seq(Int)
         /\ stream'.left = stream.left - k /\ stream'.fd = stream.fd
         /\ stream'.disconnect = stream.disconnect /\ stream'.cont_wait = stream.cont_wait
         /\ stream'.state \in {stream.state, "STREAMING_HTTP"}
         /\ stream.state \notin {"STREAMING_BUFFERING", "STREAMING_HTTP"} => stream'.state = stream.state
         /\ Len(streambuf') = Len(streambuf) + k
         /\ \A i \in 1 .. Len(streambuf') :
               streambuf'[i] = IF i <= Len(streambuf) THEN streambuf[i] ELSE stream.fd
  <1>1. stream \in StreamRec /\ streambuf \in Seq(Int)
    BY DEF Typed
  <1>2. stream.left \in Nat /\ stream.fd \in Int /\ stream.left - k \in Nat /\ stream.bytes + k \in Nat
    BY <1>1 DEF StreamRec
  <1>3. PICK s \in States : /\ s \in {stream.state, "STREAMING_HTTP"}
                            /\ stream.state \notin {"STREAMING_BUFFERING", "STREAMING_HTTP"} => s = stream.state
                            /\ stream' = [stream EXCEPT !.left = stream.left - k,
                                                        !.bytes = stream.bytes + k, !.state = s]
    BY <1>1 DEF Received, StreamRec, States, Streaming
  <1>4. /\ stream' \in StreamRec /\ stream'.left = stream.left - k /\ stream'.fd = stream.fd
        /\ stream'.disconnect = stream.disconnect /\ stream'.cont_wait = stream.cont_wait
        /\ stream'.state = s /\ stream'.bytes = stream.bytes + k
    BY <1>1, <1>2, <1>3 DEF StreamRec
  <1>5. /\ Units(stream.fd, k) \in Seq(Int) /\ Len(Units(stream.fd, k)) = k
        /\ \A i \in 1 .. k : Units(stream.fd, k)[i] = stream.fd
    BY <1>2, UnitsIs
  <1>6. PICK u \in Seq(Int) : /\ Len(u) = k /\ \A i \in 1 .. k : u[i] = stream.fd
                              /\ streambuf' = streambuf \o u
    BY <1>5 DEF Received
  <1>7. /\ streambuf' \in Seq(Int) /\ Len(streambuf') = Len(streambuf) + Len(u)
        /\ \A i \in 1 .. Len(streambuf) + Len(u) :
               streambuf'[i] = IF i <= Len(streambuf) THEN streambuf[i] ELSE u[i - Len(streambuf)]
    BY <1>1, <1>6, JoinIs
  <1>8. \A i \in 1 .. Len(streambuf') :
               streambuf'[i] = IF i <= Len(streambuf) THEN streambuf[i] ELSE stream.fd
    BY <1>1, <1>6, <1>7
  <1> QED BY <1>3, <1>4, <1>6, <1>7, <1>8

\* A stream is given up.
LEMMA DisconnectedIs ==
  ASSUME Typed, NEW state \in States, NEW reason \in Reasons
  PROVE  /\ Disconnected(state, reason) \in StreamRec
         /\ Disconnected(state, reason).state = state /\ Disconnected(state, reason).fd = None
         /\ Disconnected(state, reason).disconnect = reason
         /\ Disconnected(state, reason).left = stream.left
         /\ Disconnected(state, reason).cont_wait = stream.cont_wait
  <1>1. stream \in StreamRec /\ -1 \in Int
    BY DEF Typed
  <1>2. PICK f \in Int : Disconnected(state, reason) =
                [stream EXCEPT !.state = state, !.disconnect = reason, !.fd = -1, !.failed = f]
    BY <1>1 DEF Disconnected, StreamRec, None
  <1> DEFINE d == [stream EXCEPT !.state = state, !.disconnect = reason, !.fd = -1, !.failed = f]
  <1>3. /\ d \in StreamRec /\ d.state = state /\ d.fd = -1 /\ d.disconnect = reason
        /\ d.left = stream.left /\ d.cont_wait = stream.cont_wait
    BY <1>1 DEF StreamRec
  <1> QED BY <1>2, <1>3 DEF None

\* What the stream thread may do: receive, give up, or move on to the next state.
Receives ==
    /\ stream.state \in {"STREAMING_BUFFERING"} \cup Streaming
    /\ \E k \in 1 .. Lesser(Room, stream.left) : Received(k)
GivesUp ==
    /\ streambuf' = streambuf
    /\ \/ stream.left = 0 /\ stream' = Disconnected("DISCONNECT", "OK")
            /\ stream.state \in {"STREAMING_BUFFERING"} \cup Streaming
       \/ "headers" \in Faults /\ stream.state = "RECV_HEADERS"
            /\ stream' \in {Disconnected("STOPPED", "LOCAL"), Disconnected("DISCONNECT", "LOCAL")}
       \/ "reset" \in Faults /\ stream' = Disconnected("DISCONNECT", "REMOTE")
            /\ stream.state \in {"STREAMING_BUFFERING", "STREAMING_HTTP"}
       \/ stream' = Disconnected("DISCONNECT", "REMOTE")
            /\ stream.state = "STREAMING_FILE" /\ st.pc = "polled"
Moves ==
    /\ streambuf' = streambuf
    /\ \/ stream.state = "SEND_HEADERS" /\ stream' = [stream EXCEPT !.state = "RECV_HEADERS"]
       \/ "headers" \in Faults /\ stream.state = "SEND_HEADERS"
            /\ stream' = [Disconnected("DISCONNECT", "LOCAL") EXCEPT !.fd = stream.fd]
       \/ stream.state = "RECV_HEADERS"
            /\ stream' = [stream EXCEPT !.state = IF stream.cont_wait THEN "STREAMING_WAIT"
                                                  ELSE "STREAMING_BUFFERING"]

LEMMA StreamThreadIs ==
  ASSUME Typed, StreamThread
  PROVE  /\ UNCHANGED <<decode, dt, output, outputbuf, slim, server>> /\ st' \in StRec
         /\ \/ UNCHANGED <<stream, streambuf>>
            \/ stream.fd # None /\ (Receives \/ GivesUp \/ Moves)
         /\ st'.pc = "polled" => /\ stream' = stream /\ stream.fd # None /\ ~Ended
                                 /\ stream.state # "STREAMING_FILE"
  <1>1. CASE StreamCheck
    <2>1. CASE stream.state = "STREAMING_FILE"
      BY <1>1, <2>1 DEF StreamCheck, Typed, Receives, GivesUp, Streaming
    <2>2. CASE stream.state # "STREAMING_FILE"
      <3>1. PICK w \in BOOLEAN : st' = [pc |-> "polled", writable |-> w]
        <4>1. (stream.state = "SEND_HEADERS") \in BOOLEAN
          OBVIOUS
        <4> QED BY <1>1, <2>2, <4>1 DEF StreamCheck
      <3>2. st' \in StRec
        BY <3>1 DEF StRec
      <3> QED BY <1>1, <2>2, <3>2 DEF StreamCheck, Ended
    <2> QED BY <2>1, <2>2
  <1>2. CASE StreamAct
    BY <1>2 DEF StreamAct, StRec, Receives, GivesUp, Moves, Streaming,
                SendRequest, ReadHeaders, ReadBody, ReadFileAsSocket, NothingThere
  <1> QED BY <1>1, <1>2 DEF StreamThread

LEMMA CommandTyped ==
  ASSUME PlayerAssumption, Inv, Command
  PROVE  Typed'
  <1>0. /\ stream \in StreamRec /\ streambuf \in Seq(Int) /\ st \in StRec
        /\ decode \in DecodeRec /\ dt \in DtRec /\ output \in OutputRec /\ outputbuf \in Seq(Int)
        /\ slim \in SlimRec /\ server \in ServerRec
    BY DEF Inv, Typed
  <1>1. CASE FlushDecode
    <2>1. decode' \in DecodeRec
      BY <1>0, <1>1, Names DEF FlushDecode, DecodeRec
    <2>2. slim' \in SlimRec
      BY <1>0, <1>1, PcNames DEF FlushDecode, SlimRec
    <2> QED BY <1>0, <1>1, <2>1, <2>2 DEF Typed, FlushDecode
  <1>2. CASE FlushOutput
    <2>1. output' \in OutputRec
      BY <1>0, <1>2, Names DEF FlushOutput, OutputRec, None
    <2>2. slim' \in SlimRec
      BY <1>0, <1>2, PcNames DEF FlushOutput, SlimRec
    <2>3. outputbuf' \in Seq(Int)
      BY <1>0, <1>2 DEF FlushOutput
    <2> QED BY <1>0, <1>2, <2>1, <2>2, <2>3 DEF Typed, FlushOutput
  <1>3. CASE StopOutput
    <2>1. output' \in OutputRec
      BY <1>0, <1>3, Names DEF StopOutput, OutputRec
    <2>2. slim' \in SlimRec
      BY <1>0, <1>3, PcNames DEF StopOutput, SlimRec
    <2> QED BY <1>0, <1>3, <2>1, <2>2 DEF Typed, StopOutput
  <1>4. CASE FlushStreaming
    <2>1. output' \in OutputRec
      <3>1. output' = [output EXCEPT !.track_start = -1] /\ -1 \in Int
        BY <1>4 DEF FlushStreaming, None
      <3> QED BY <1>0, <3>1 DEF OutputRec
    <2>2. outputbuf' \in Seq(Int)
      <3>1. output.track_start = None \/ output.track_start \in 0 .. Len(outputbuf)
        BY DEF Inv, OutputbufInv
      <3>2. output.track_start # None => SubSeq(outputbuf, 1, output.track_start) \in Seq(Int)
        BY <1>0, <3>1, PrefixIs
      <3> QED BY <1>0, <1>4, <3>2 DEF FlushStreaming
    <2>3. slim' \in SlimRec
      BY <1>0, <1>4, PcNames DEF FlushStreaming, SlimRec
    <2> QED BY <1>0, <1>4, <2>1, <2>2, <2>3 DEF Typed, FlushStreaming
  <1>5. CASE FlushStream
    <2>1. stream' \in StreamRec
      <3>1. stream' = [stream EXCEPT !.state = "STOPPED", !.fd = -1] /\ -1 \in Int
        BY <1>5 DEF FlushStream, Closed, None
      <3> QED BY <1>0, <3>1, Names DEF StreamRec
    <2>2. slim' \in SlimRec
      BY <1>0, <1>5, PcNames DEF FlushStream, SlimRec
    <2>3. server' \in ServerRec
      <3>1. server' \in {server, [server EXCEPT !.told = @ \cup {"STMf"}, !.starts = @ + 0, !.ends = @ + 0]}
        BY <1>5 DEF FlushStream, Hears
      <3>2. server.starts + 0 \in Nat /\ server.ends + 0 \in Nat
        BY <1>0 DEF ServerRec
      <3> QED BY <1>0, <3>1, <3>2, MessageNames DEF ServerRec
    <2> QED BY <1>0, <1>5, <2>1, <2>2, <2>3 DEF Typed, FlushStream
  <1>6. CASE FlushDrain
    <2>1. streambuf' \in Seq(Int)
      BY <1>0, <1>6 DEF FlushDrain
    <2>2. slim' \in SlimRec
      BY <1>0, <1>6, PcNames DEF FlushDrain, SlimRec
    <2>3. server' \in ServerRec
      BY <1>0, <1>6, CmdNames, MessageNames DEF FlushDrain, ServerRec
    <2> QED BY <1>0, <1>6, <2>1, <2>2, <2>3 DEF Typed, FlushDrain
  <1>7. CASE OpenCodec
    <2>1. decode' \in DecodeRec
      <3>1. server.track + 1 \in Nat
        BY <1>0 DEF ServerRec
      <3> QED BY <1>0, <1>7, <3>1, Names DEF OpenCodec, CodecOpened, DecodeRec
    <2>2. slim' \in SlimRec
      <3>1. PICK b \in Int : slim' = [slim EXCEPT !.pc = "connect", !.say = {}, !.autostart = b]
        <4>1. PICK a \in 0 .. 3 : slim' = [slim EXCEPT !.pc = "connect", !.say = {},
                                               !.autostart = IF server.cmd = "file" THEN a - 2 ELSE a]
          BY <1>0, <1>7, PlanIs DEF OpenCodec
        <4>2. a \in Int /\ a - 2 \in Int
          OBVIOUS
        <4> QED BY <4>1, <4>2
      <3>2. {} \in SUBSET Messages
        OBVIOUS
      <3> QED BY <1>0, <3>1, <3>2, PcNames DEF SlimRec
    <2>3. server' \in ServerRec
      <3>1. server.track + 1 \in Nat /\ {} \in SUBSET Messages
        BY <1>0 DEF ServerRec
      <3> QED BY <1>0, <1>7, <3>1 DEF OpenCodec, ServerRec
    <2> QED BY <1>0, <1>7, <2>1, <2>2, <2>3 DEF Typed, OpenCodec
  <1>8. CASE Connect
    <2>1. stream' \in StreamRec
      <3>1. server.track \in Int
        BY <1>0 DEF ServerRec
      <3> QED BY <1>0, <1>8, <3>1, Names DEF Connect, StreamRec
    <2>2. slim' \in SlimRec
      BY <1>0, <1>8, PcNames DEF Connect, SlimRec
    <2>3. streambuf' \in Seq(Int)
      <3>1. streambuf' \in {streambuf, <<>>} /\ <<>> \in Seq(Int)
        BY <1>8 DEF Connect
      <3> QED BY <1>0, <3>1
    <2> QED BY <1>0, <1>8, <2>1, <2>2, <2>3 DEF Typed, Connect
  <1>9. CASE OpenStream
    <2>1. stream' \in StreamRec
      <3>1. PICK c \in BOOLEAN, x \in States : stream' =
                [stream EXCEPT !.state = x, !.fd = server.track, !.left = TrackLen, !.bytes = 0,
                               !.cont_wait = c, !.sent_headers = FALSE]
        <4>1. (server.cmd # "file" /\ slim.autostart >= 2) \in BOOLEAN
          OBVIOUS
        <4>2. (IF server.cmd = "file" THEN "STREAMING_FILE" ELSE "SEND_HEADERS") \in States
          BY Names
        <4> QED BY <1>9, <4>1, <4>2 DEF OpenStream
      <3>2. server.track \in Int /\ TrackLen \in Nat /\ 0 \in Nat
        BY <1>0 DEF ServerRec, PlayerAssumption
      <3> QED BY <1>0, <3>1, <3>2 DEF StreamRec
    <2>2. slim' \in SlimRec
      BY <1>0, <1>9, PcNames DEF OpenStream, SlimRec
    <2> QED BY <1>0, <1>9, <2>1, <2>2 DEF Typed, OpenStream
  <1>10. CASE Begin
    <2>1. slim' \in SlimRec
      BY <1>0, <1>10, PcNames DEF Begin, SlimRec
    <2>2. server' \in ServerRec
      BY <1>0, <1>10, CmdNames, MessageNames DEF Begin, ServerRec
    <2> QED BY <1>0, <1>10, <2>1, <2>2 DEF Typed, Begin
  <1>11. CASE Cont
    <2>1. slim' \in SlimRec
      <3>1. slim' = slim \/ (slim.autostart > 1 /\ slim' = [slim EXCEPT !.autostart = @ - 2])
        BY <1>11 DEF Cont
      <3>2. slim.autostart - 2 \in Int
        BY <1>0 DEF SlimRec
      <3> QED BY <1>0, <3>1, <3>2 DEF SlimRec
    <2>2. stream' \in StreamRec
      BY <1>0, <1>11, Names DEF Cont, StreamRec
    <2>3. server' \in ServerRec
      BY <1>0, <1>11, CmdNames, MessageNames DEF Cont, ServerRec
    <2> QED BY <1>0, <1>11, <2>1, <2>2, <2>3 DEF Typed, Cont
  <1>12. CASE Codc
    <2>1. decode' \in DecodeRec
      <3>1. server.track \in Nat /\ 0 \in Nat
        BY <1>0 DEF ServerRec
      <3> QED BY <1>0, <1>12, <3>1, Names DEF Codc, CodecOpened, DecodeRec
    <2>2. server' \in ServerRec
      BY <1>0, <1>12, CmdNames, MessageNames DEF Codc, ServerRec
    <2> QED BY <1>0, <1>12, <2>1, <2>2 DEF Typed, Codc
  <1>13. CASE Pause
    <2>1. output' \in OutputRec
      BY <1>0, <1>13, Names DEF Pause, OutputRec, SetOutput
    <2>2. server' \in ServerRec
      BY <1>0, <1>13, CmdNames, MessageNames DEF Pause, ServerRec, SetOutput
    <2> QED BY <1>0, <1>13, <2>1, <2>2 DEF Typed, Pause, SetOutput
  <1>14. CASE Unpause
    <2>1. output' \in OutputRec
      BY <1>0, <1>14, Names DEF Unpause, OutputRec, SetOutput
    <2>2. server' \in ServerRec
      BY <1>0, <1>14, CmdNames, MessageNames DEF Unpause, ServerRec, SetOutput
    <2> QED BY <1>0, <1>14, <2>1, <2>2 DEF Typed, Unpause, SetOutput
  <1> QED BY <1>1, <1>2, <1>3, <1>4, <1>5, <1>6, <1>7, <1>8, <1>9, <1>10, <1>11, <1>12, <1>13, <1>14 DEF Command


LEMMA FlushDecodeKeeps ==
  ASSUME PlayerAssumption, Inv, FlushDecode
  PROVE  Inv'
  <1>p. SamePlan
    BY PlanKept DEF Inv, Typed, Next, Controller, Command, Pass
  <1>1. Typed' /\ Typed
    BY CommandTyped DEF Command, Inv
  <1>2. /\ slim.pc = "idle" /\ server.cmd \in {"q", "f"} /\ slim'.pc \in {"flush", "streaming"}
        /\ slim'.say = slim.say /\ slim'.stream_state = slim.stream_state
        /\ decode'.state = "STOPPED" /\ decode'.track = decode.track
        /\ decode'.new_stream = decode.new_stream
        /\ UNCHANGED <<stream, streambuf, output, outputbuf, server>>
    BY <1>1 DEF Typed, FlushDecode, SlimRec, DecodeRec
  <1>3. CommandInv'
    BY <1>2 DEF Inv, CommandInv, StreamOver, Ended, Over, Said, NewTrack, FlushPcs, SetupPcs, PassPcs
  <1>4. StreamInv'
    BY <1>2 DEF Inv, StreamInv, StreamOver, Ended, Flowing, Said
  <1>5. DecodeInv'
    BY <1>2 DEF Inv, DecodeInv, Said
  <1>6. StreambufInv'
    BY <1>p, <1>2 DEF SamePlan, Inv, StreambufInv, Refused, StreamOver, Ended
  <1>7. OutputbufInv'
    BY <1>p, <1>2 DEF SamePlan, Inv, OutputbufInv, Fresh, NoneLeft
  <1>8. FlushInv'
    BY <1>2 DEF Inv, FlushInv, StreamOver, Ended
  <1> QED BY <1>1, <1>3, <1>4, <1>5, <1>6, <1>7, <1>8 DEF Inv

LEMMA FlushOutputKeeps ==
  ASSUME PlayerAssumption, Inv, FlushOutput
  PROVE  Inv'
  <1>p. SamePlan
    BY PlanKept DEF Inv, Typed, Next, Controller, Command, Pass
  <1>1. Typed' /\ Typed
    BY CommandTyped DEF Command, Inv
  <1>2. /\ slim.pc = "flush" /\ slim'.pc = "stop" /\ outputbuf' = <<>>
        /\ slim'.say = slim.say /\ slim'.stream_state = slim.stream_state
        /\ output'.track_start = None /\ output'.heard = output.heard
        /\ UNCHANGED <<stream, streambuf, decode, server>>
    BY <1>1 DEF Typed, FlushOutput, SlimRec, OutputRec
  <1>3. CommandInv'
    BY <1>2 DEF Inv, CommandInv, StreamOver, Ended, Over, Said, NewTrack, FlushPcs, SetupPcs, PassPcs
  <1>4. StreamInv'
    BY <1>2 DEF Inv, StreamInv, StreamOver, Ended, Flowing, Said
  <1>5. DecodeInv'
    BY <1>2 DEF Inv, DecodeInv, Said
  <1>6. StreambufInv'
    BY <1>p, <1>2 DEF SamePlan, Inv, StreambufInv, Refused, StreamOver, Ended
  <1>7. OutputbufInv'
    BY <1>p, <1>2, PlanIs DEF SamePlan, Inv, Typed, OutputbufInv, Fresh, NoneLeft, CommandInv, FlushPcs
  <1>8. FlushInv'
    BY <1>2 DEF Inv, FlushInv, StreamOver, Ended
  <1> QED BY <1>1, <1>3, <1>4, <1>5, <1>6, <1>7, <1>8 DEF Inv

LEMMA StopOutputKeeps ==
  ASSUME PlayerAssumption, Inv, StopOutput
  PROVE  Inv'
  <1>p. SamePlan
    BY PlanKept DEF Inv, Typed, Next, Controller, Command, Pass
  <1>1. Typed' /\ Typed
    BY CommandTyped DEF Command, Inv
  <1>2. /\ slim.pc = "stop" /\ slim'.pc = "disconnect"
        /\ slim'.say = slim.say /\ slim'.stream_state = slim.stream_state
        /\ output'.track_start = output.track_start /\ output'.heard = output.heard
        /\ UNCHANGED <<stream, streambuf, decode, outputbuf, server>>
    BY <1>1 DEF Typed, StopOutput, SlimRec, OutputRec
  <1>3. CommandInv'
    BY <1>2 DEF Inv, CommandInv, StreamOver, Ended, Over, Said, NewTrack, FlushPcs, SetupPcs, PassPcs
  <1>4. StreamInv'
    BY <1>2 DEF Inv, StreamInv, StreamOver, Ended, Flowing, Said
  <1>5. DecodeInv'
    BY <1>2 DEF Inv, DecodeInv, Said
  <1>6. StreambufInv'
    BY <1>p, <1>2 DEF SamePlan, Inv, StreambufInv, Refused, StreamOver, Ended
  <1>7. OutputbufInv'
    BY <1>p, <1>2 DEF SamePlan, Inv, OutputbufInv, Fresh, NoneLeft
  <1>8. FlushInv'
    BY <1>2 DEF Inv, FlushInv, StreamOver, Ended
  <1> QED BY <1>1, <1>3, <1>4, <1>5, <1>6, <1>7, <1>8 DEF Inv

LEMMA FlushStreamingKeeps ==
  ASSUME PlayerAssumption, Inv, FlushStreaming
  PROVE  Inv'
  <1>p. SamePlan
    BY PlanKept DEF Inv, Typed, Next, Controller, Command, Pass
  <1>1. Typed' /\ Typed
    BY CommandTyped DEF Command, Inv
  <1>2. /\ slim.pc = "streaming" /\ slim'.pc = "disconnect"
        /\ slim'.say = slim.say /\ slim'.stream_state = slim.stream_state
        /\ output'.track_start = None /\ output'.heard = output.heard
        /\ UNCHANGED <<stream, streambuf, decode, server>>
    BY <1>1 DEF Typed, FlushStreaming, SlimRec, OutputRec
  <1>9. /\ Len(outputbuf') \in Nat /\ Len(outputbuf') <= Len(outputbuf)
        /\ \A i \in 1 .. Len(outputbuf') : outputbuf'[i] = outputbuf[i]
        /\ output.track_start # None => Len(outputbuf') = output.track_start
    <2>1. outputbuf \in Seq(Int) /\ output.track_start \in {None} \cup 0 .. Len(outputbuf)
      BY DEF Inv, Typed, OutputbufInv
    <2>2. CASE output.track_start = None
      BY <2>1, <2>2 DEF FlushStreaming
    <2>3. CASE output.track_start # None
      <3>1. outputbuf' = SubSeq(outputbuf, 1, output.track_start) /\ output.track_start \in 0 .. Len(outputbuf)
        BY <2>1, <2>3 DEF FlushStreaming
      <3> QED BY <2>1, <3>1, PrefixIs
    <2> QED BY <2>2, <2>3
  <1>3. CommandInv'
    BY <1>2 DEF Inv, CommandInv, StreamOver, Ended, Over, Said, NewTrack, FlushPcs, SetupPcs, PassPcs
  <1>4. StreamInv'
    BY <1>2 DEF Inv, StreamInv, StreamOver, Ended, Flowing, Said
  <1>5. DecodeInv'
    BY <1>2 DEF Inv, DecodeInv, Said
  <1>6. StreambufInv'
    BY <1>p, <1>2 DEF SamePlan, Inv, StreambufInv, Refused, StreamOver, Ended
  <1>7. OutputbufInv'
    <2>1. /\ Len(outputbuf) \in Nat /\ OutCap \in Nat /\ output.track_start \in {-1} \cup Nat
          /\ decode.state = "STOPPED"
      BY PlanIs, <1>1, <1>2 DEF Inv, Typed, PlayerAssumption, OutputbufInv, None, CommandInv, FlushPcs
    <2>2. Len(outputbuf') <= OutCap /\ Fresh' = Fresh
      BY <1>2, <1>9, <2>1 DEF Inv, OutputbufInv, Fresh
    <2>3. NoneLeft' \/ (~Fresh /\ output.heard = server.track)
      BY <1>2, <1>9, <2>1 DEF Inv, OutputbufInv, NoneLeft, None
    <2>4. \A i \in 1 .. Len(outputbuf') : outputbuf'[i] <= server.track
      BY <1>2, <1>9, <2>1 DEF Inv, OutputbufInv
    <2> QED BY <1>p, <1>2, <2>1, <2>2, <2>3, <2>4 DEF SamePlan, OutputbufInv
  <1>8. FlushInv'
    BY <1>2 DEF Inv, FlushInv, StreamOver, Ended
  <1> QED BY <1>1, <1>3, <1>4, <1>5, <1>6, <1>7, <1>8 DEF Inv

LEMMA FlushStreamKeeps ==
  ASSUME PlayerAssumption, Inv, FlushStream
  PROVE  Inv'
  <1>p. SamePlan
    BY PlanKept DEF Inv, Typed, Next, Controller, Command, Pass
  <1>1. Typed' /\ Typed
    BY CommandTyped DEF Command, Inv
  <1>2. /\ slim.pc = "disconnect" /\ slim'.pc = "drain"
        /\ slim'.say = slim.say /\ slim'.stream_state = slim.stream_state
        /\ server'.told \in {server.told, server.told \cup {"STMf"}}
        /\ server'.track = server.track /\ server'.cmd = server.cmd
        /\ stream'.state = "STOPPED" /\ stream'.fd = None /\ stream'.disconnect = stream.disconnect
        /\ UNCHANGED <<streambuf, decode, output, outputbuf>>
    BY <1>1 DEF Typed, FlushStream, Closed, Hears, SlimRec, StreamRec, ServerRec
  <1>3. CommandInv'
    BY <1>2 DEF Inv, CommandInv, StreamOver, Ended, Over, Said, NewTrack, FlushPcs, SetupPcs, PassPcs
  <1>4. StreamInv'
    BY <1>2 DEF Inv, StreamInv, StreamOver, Ended, Flowing, Said
  <1>5. DecodeInv'
    BY <1>2 DEF Inv, DecodeInv, Said
  <1>6. StreambufInv'
    BY <1>p, <1>2 DEF SamePlan, Inv, StreambufInv, Refused, StreamOver, Ended
  <1>7. OutputbufInv'
    BY <1>p, <1>2 DEF SamePlan, Inv, OutputbufInv, Fresh, NoneLeft
  <1>8. FlushInv'
    BY <1>2 DEF Inv, FlushInv, StreamOver, Ended, CommandInv, FlushPcs
  <1> QED BY <1>1, <1>3, <1>4, <1>5, <1>6, <1>7, <1>8 DEF Inv

LEMMA FlushDrainKeeps ==
  ASSUME PlayerAssumption, Inv, FlushDrain
  PROVE  Inv'
  <1>p. SamePlan
    BY PlanKept DEF Inv, Typed, Next, Controller, Command, Pass
  <1>1. Typed' /\ Typed
    BY CommandTyped DEF Command, Inv
  <1>2. /\ slim.pc = "drain" /\ slim'.pc = "idle"
        /\ slim'.say = slim.say /\ slim'.stream_state = slim.stream_state
        /\ server'.told = server.told /\ server'.track = server.track /\ server'.cmd = "none" /\ streambuf' = <<>>
        /\ UNCHANGED <<stream, decode, output, outputbuf>>
    BY <1>1 DEF Typed, FlushDrain, SlimRec, ServerRec
  <1>3. CommandInv'
    BY <1>2 DEF Inv, CommandInv, StreamOver, Ended, Over, Said, NewTrack, FlushPcs, SetupPcs, PassPcs
  <1>4. StreamInv'
    BY <1>2 DEF Inv, StreamInv, StreamOver, Ended, Flowing, Said
  <1>5. DecodeInv'
    BY <1>2 DEF Inv, DecodeInv, Said
  <1>6. StreambufInv'
    BY <1>p, <1>2, PlanIs DEF SamePlan, Inv, Typed, StreambufInv, Refused, StreamOver, Ended
  <1>7. OutputbufInv'
    BY <1>p, <1>2 DEF SamePlan, Inv, OutputbufInv, Fresh, NoneLeft
  <1>8. FlushInv'
    BY <1>2 DEF Inv, FlushInv, StreamOver, Ended
  <1> QED BY <1>1, <1>3, <1>4, <1>5, <1>6, <1>7, <1>8 DEF Inv

LEMMA ConnectKeeps ==
  ASSUME PlayerAssumption, Inv, Connect
  PROVE  Inv'
  <1>p. SamePlan
    BY PlanKept DEF Inv, Typed, Next, Controller, Command, Pass
  <1>1. Typed' /\ Typed
    BY CommandTyped DEF Command, Inv
  <1>2. /\ slim.pc = "connect" /\ slim'.say = slim.say /\ slim'.stream_state = slim.stream_state
        /\ \/ slim'.pc = "open" /\ streambuf' = <<>> /\ stream' = stream
           \/ /\ slim'.pc = "begin" /\ streambuf' = streambuf /\ stream'.state = "DISCONNECT"
              /\ stream'.disconnect = "UNREACHABLE" /\ stream'.fd = stream.fd
        /\ UNCHANGED <<decode, output, outputbuf, server>>
    BY <1>1 DEF Typed, Connect, SlimRec, StreamRec
  <1>3. CommandInv'
    BY <1>2 DEF Inv, CommandInv, StreamOver, Ended, Over, Said, NewTrack, FlushPcs, SetupPcs, PassPcs
  <1>4. StreamInv'
    BY <1>2 DEF Inv, StreamInv, StreamOver, Ended, Flowing, Said, CommandInv, SetupPcs
  <1>5. DecodeInv'
    BY <1>2 DEF Inv, DecodeInv, Said
  <1>6. StreambufInv'
    BY <1>p, <1>2, PlanIs DEF SamePlan, Inv, Typed, StreambufInv, Refused, StreamOver, Ended, CommandInv, DecodeInv,
       SetupPcs, PassPcs, Streaming
  <1>7. OutputbufInv'
    BY <1>p, <1>2 DEF SamePlan, Inv, OutputbufInv, Fresh, NoneLeft
  <1>8. FlushInv'
    BY <1>2 DEF Inv, FlushInv, StreamOver, Ended
  <1> QED BY <1>1, <1>3, <1>4, <1>5, <1>6, <1>7, <1>8 DEF Inv

LEMMA OpenStreamKeeps ==
  ASSUME PlayerAssumption, Inv, OpenStream
  PROVE  Inv'
  <1>p. SamePlan
    BY PlanKept DEF Inv, Typed, Next, Controller, Command, Pass
  <1>1. Typed' /\ Typed
    BY CommandTyped DEF Command, Inv
  <1>2. /\ slim.pc = "open" /\ slim'.pc = "begin" /\ slim'.say = slim.say /\ slim'.stream_state = slim.stream_state
        /\ stream'.state \in {"STREAMING_FILE", "SEND_HEADERS"} /\ stream'.fd = server.track
        /\ UNCHANGED <<decode, streambuf, output, outputbuf, server>>
    BY <1>1 DEF Typed, OpenStream, SlimRec, StreamRec
  <1>3. CommandInv'
    BY <1>2 DEF Inv, CommandInv, StreamOver, Ended, Over, Said, NewTrack, FlushPcs, SetupPcs, PassPcs
  <1>4. StreamInv'
    BY <1>2 DEF Inv, StreamInv, StreamOver, Ended, Flowing, Said, CommandInv, DecodeInv, SetupPcs, PassPcs, Streaming
  <1>5. DecodeInv'
    BY <1>2 DEF Inv, DecodeInv, Said
  <1>6. StreambufInv'
    BY <1>p, <1>2 DEF SamePlan, Inv, StreambufInv, Refused, StreamOver, Ended, CommandInv, SetupPcs, PassPcs
  <1>7. OutputbufInv'
    BY <1>p, <1>2 DEF SamePlan, Inv, OutputbufInv, Fresh, NoneLeft
  <1>8. FlushInv'
    BY <1>2 DEF Inv, FlushInv, StreamOver, Ended, CommandInv, SetupPcs, Said
  <1> QED BY <1>1, <1>3, <1>4, <1>5, <1>6, <1>7, <1>8 DEF Inv

LEMMA BeginKeeps ==
  ASSUME PlayerAssumption, Inv, Begin
  PROVE  Inv'
  <1>p. SamePlan
    BY PlanKept DEF Inv, Typed, Next, Controller, Command, Pass
  <1>1. Typed' /\ Typed
    BY CommandTyped DEF Command, Inv
  <1>2. /\ slim.pc = "begin" /\ slim'.pc = "idle" /\ slim'.say = slim.say /\ slim'.stream_state = slim.stream_state
        /\ server'.told = server.told \cup {"STMc"} /\ server'.track = server.track /\ server'.cmd = "none"
        /\ UNCHANGED <<stream, decode, streambuf, output, outputbuf>>
    BY <1>1 DEF Typed, Begin, SlimRec, ServerRec
  <1>3. CommandInv'
    BY <1>2 DEF Inv, CommandInv, StreamOver, Ended, Over, Said, NewTrack, FlushPcs, SetupPcs, PassPcs
  <1>4. StreamInv'
    BY <1>2 DEF Inv, StreamInv, StreamOver, Ended, Flowing, Said
  <1>5. DecodeInv'
    BY <1>2 DEF Inv, DecodeInv, Said
  <1>6. StreambufInv'
    BY <1>p, <1>2 DEF SamePlan, Inv, StreambufInv, Refused, StreamOver, Ended
  <1>7. OutputbufInv'
    BY <1>p, <1>2 DEF SamePlan, Inv, OutputbufInv, Fresh, NoneLeft
  <1>8. FlushInv'
    BY <1>2 DEF Inv, FlushInv, StreamOver, Ended
  <1> QED BY <1>1, <1>3, <1>4, <1>5, <1>6, <1>7, <1>8 DEF Inv

LEMMA ContKeeps ==
  ASSUME PlayerAssumption, Inv, Cont
  PROVE  Inv'
  <1>p. SamePlan
    BY PlanKept DEF Inv, Typed, Next, Controller, Command, Pass
  <1>1. Typed' /\ Typed
    BY CommandTyped DEF Command, Inv
  <1>2. /\ slim.pc = "idle" /\ slim'.pc = slim.pc /\ slim'.say = slim.say /\ slim'.stream_state = slim.stream_state
        /\ server'.told = server.told /\ server'.track = server.track /\ server'.cmd = "none"
        /\ stream'.fd = stream.fd /\ stream'.disconnect = stream.disconnect
        /\ stream'.state = stream.state \/ (stream.state = "STREAMING_WAIT" /\ stream'.state = "STREAMING_BUFFERING")
        /\ UNCHANGED <<decode, streambuf, output, outputbuf>>
    BY <1>1 DEF Typed, Cont, SlimRec, ServerRec, StreamRec
  <1>3. CommandInv'
    BY <1>2 DEF Inv, CommandInv, StreamOver, Ended, Over, Said, NewTrack, FlushPcs, SetupPcs, PassPcs
  <1>4. StreamInv'
    BY <1>2 DEF Inv, StreamInv, StreamOver, Ended, Flowing, Said, Streaming
  <1>5. DecodeInv'
    BY <1>2 DEF Inv, DecodeInv, Said
  <1>6. StreambufInv'
    BY <1>p, <1>2 DEF SamePlan, Inv, StreambufInv, Refused, StreamOver, Ended
  <1>7. OutputbufInv'
    BY <1>p, <1>2 DEF SamePlan, Inv, OutputbufInv, Fresh, NoneLeft
  <1>8. FlushInv'
    BY <1>2 DEF Inv, FlushInv, StreamOver, Ended
  <1> QED BY <1>1, <1>3, <1>4, <1>5, <1>6, <1>7, <1>8 DEF Inv

LEMMA CodcKeeps ==
  ASSUME PlayerAssumption, Inv, Codc
  PROVE  Inv'
  <1>p. SamePlan
    BY PlanKept DEF Inv, Typed, Next, Controller, Command, Pass
  <1>1. Typed' /\ Typed
    BY CommandTyped DEF Command, Inv
  <1>2. /\ slim.pc = "idle" /\ server.cmd = "codc"
        /\ server'.told = server.told /\ server'.track = server.track /\ server'.cmd = "none"
        /\ decode'.state = "READY" /\ decode'.new_stream = TRUE /\ decode'.track = server.track
        /\ UNCHANGED <<stream, streambuf, output, outputbuf, slim>>
    BY <1>1 DEF Typed, Codc, CodecOpened, ServerRec
  <1>3. CommandInv'
    BY <1>2 DEF Inv, CommandInv, StreamOver, Ended, Over, Said, NewTrack, FlushPcs, SetupPcs, PassPcs
  <1>4. StreamInv'
    BY <1>2 DEF Inv, StreamInv, StreamOver, Ended, Flowing, Said, CommandInv, DecodeInv
  <1>5. DecodeInv'
    BY <1>1, <1>2 DEF Inv, Typed, DecodeRec, ServerRec, DecodeInv, Said, CommandInv
  <1>6. StreambufInv'
    BY <1>p, <1>2 DEF SamePlan, Inv, StreambufInv, Refused, StreamOver, Ended, DecodeInv, CommandInv
  <1>7. OutputbufInv'
    BY <1>p, <1>2 DEF SamePlan, Inv, OutputbufInv, Fresh, NoneLeft, CommandInv, DecodeInv
  <1>8. FlushInv'
    BY <1>2 DEF Inv, FlushInv, StreamOver, Ended, CommandInv
  <1> QED BY <1>1, <1>3, <1>4, <1>5, <1>6, <1>7, <1>8 DEF Inv

LEMMA PauseKeeps ==
  ASSUME PlayerAssumption, Inv, Pause
  PROVE  Inv'
  <1>p. SamePlan
    BY PlanKept DEF Inv, Typed, Next, Controller, Command, Pass
  <1>1. Typed' /\ Typed
    BY CommandTyped DEF Command, Inv
  <1>2. /\ slim.pc = "idle" /\ server'.track = server.track /\ server'.cmd = "none"
        /\ {"STMs", "STMd", "STMf"} \cap server'.told = {"STMs", "STMd", "STMf"} \cap server.told
        /\ output'.track_start = output.track_start /\ output'.heard = output.heard
        /\ UNCHANGED <<stream, streambuf, decode, outputbuf, slim>>
    BY <1>1 DEF Typed, Pause, SetOutput, ServerRec, OutputRec
  <1>3. CommandInv'
    BY <1>2 DEF Inv, CommandInv, StreamOver, Ended, Over, Said, NewTrack, FlushPcs, SetupPcs, PassPcs
  <1>4. StreamInv'
    BY <1>2 DEF Inv, StreamInv, StreamOver, Ended, Flowing, Said
  <1>5. DecodeInv'
    BY <1>2 DEF Inv, DecodeInv, Said
  <1>6. StreambufInv'
    BY <1>p, <1>2 DEF SamePlan, Inv, StreambufInv, Refused, StreamOver, Ended
  <1>7. OutputbufInv'
    BY <1>p, <1>2 DEF SamePlan, Inv, OutputbufInv, Fresh, NoneLeft
  <1>8. FlushInv'
    BY <1>2 DEF Inv, FlushInv, StreamOver, Ended
  <1> QED BY <1>1, <1>3, <1>4, <1>5, <1>6, <1>7, <1>8 DEF Inv

LEMMA UnpauseKeeps ==
  ASSUME PlayerAssumption, Inv, Unpause
  PROVE  Inv'
  <1>p. SamePlan
    BY PlanKept DEF Inv, Typed, Next, Controller, Command, Pass
  <1>1. Typed' /\ Typed
    BY CommandTyped DEF Command, Inv
  <1>2. /\ slim.pc = "idle" /\ server'.track = server.track /\ server'.cmd = "none"
        /\ {"STMs", "STMd", "STMf"} \cap server'.told = {"STMs", "STMd", "STMf"} \cap server.told
        /\ output'.track_start = output.track_start /\ output'.heard = output.heard
        /\ UNCHANGED <<stream, streambuf, decode, outputbuf, slim>>
    BY <1>1 DEF Typed, Unpause, SetOutput, ServerRec, OutputRec
  <1>3. CommandInv'
    BY <1>2 DEF Inv, CommandInv, StreamOver, Ended, Over, Said, NewTrack, FlushPcs, SetupPcs, PassPcs
  <1>4. StreamInv'
    BY <1>2 DEF Inv, StreamInv, StreamOver, Ended, Flowing, Said
  <1>5. DecodeInv'
    BY <1>2 DEF Inv, DecodeInv, Said
  <1>6. StreambufInv'
    BY <1>p, <1>2 DEF SamePlan, Inv, StreambufInv, Refused, StreamOver, Ended
  <1>7. OutputbufInv'
    BY <1>p, <1>2 DEF SamePlan, Inv, OutputbufInv, Fresh, NoneLeft
  <1>8. FlushInv'
    BY <1>2 DEF Inv, FlushInv, StreamOver, Ended
  <1> QED BY <1>1, <1>3, <1>4, <1>5, <1>6, <1>7, <1>8 DEF Inv


\* Before the next track is asked for the last one is over.
LEMMA OverIs ==
  ASSUME PlayerAssumption, Inv, Over
  PROVE  decode.state = "STOPPED" /\ StreamOver
  <1>1. Typed /\ server.track \in Nat
    BY DEF Inv, Typed, ServerRec
  <1>2. CASE server.track = 0
    BY <1>1, <1>2 DEF Inv, DecodeInv, StreamInv
  <1>3. CASE "STMd" \in server.told
    BY <1>3 DEF Inv, DecodeInv, StreamInv, Said
  <1>4. CASE "STMf" \in server.told
    BY <1>4 DEF Inv, FlushInv
  <1> QED BY <1>2, <1>3, <1>4 DEF Over

LEMMA OpenCodecKeeps ==
  ASSUME PlayerAssumption, Inv, OpenCodec
  PROVE  Inv'
  <1>p. SamePlan
    BY PlanKept DEF Inv, Typed, Next, Controller, Command, Pass
  <1>1. Typed' /\ Typed
    BY CommandTyped DEF Command, Inv
  <1>0. server.track \in Nat /\ server.track + 1 \in Nat /\ decode.track \in Nat
    BY <1>1 DEF Typed, ServerRec, DecodeRec
  <1>2. /\ slim.pc = "idle" /\ slim'.pc = "connect" /\ slim'.say = {} /\ slim'.stream_state = slim.stream_state
        /\ server.cmd \in NewTrack /\ server'.cmd = server.cmd /\ server'.told = {}
        /\ server'.track = server.track + 1
        /\ \/ decode' = decode
           \/ decode'.state = "READY" /\ decode'.new_stream /\ decode'.track = server'.track
        /\ UNCHANGED <<stream, streambuf, output, outputbuf>>
    BY <1>0, <1>1 DEF Typed, OpenCodec, CodecOpened, SlimRec, ServerRec, NewTrack
  <1>9. Over /\ decode.state = "STOPPED" /\ StreamOver /\ StreamOver' /\ slim.stream_state = "STOPPED"
    <2>1. Over
      BY <1>2 DEF Inv, CommandInv, SetupPcs
    <2> QED BY <1>2, <2>1, OverIs DEF StreamOver, Ended, Inv, CommandInv, PassPcs
  <1>10. /\ decode.track <= server.track
         /\ decode'.state \in {"STOPPED", "READY"} /\ decode'.track <= server'.track
         /\ decode'.state = "READY" \/ decode'.track # server'.track
         /\ decode'.state = "STOPPED" \/ decode'.track = server'.track
         /\ Fresh' /\ server'.track > 0 /\ server'.track \in Nat
    BY <1>0, <1>2, <1>9 DEF Inv, DecodeInv, Fresh
  <1>3. CommandInv'
    BY <1>2, <1>9, <1>10 DEF CommandInv, Said, NewTrack, FlushPcs, SetupPcs, PassPcs
  <1>4. StreamInv'
    BY <1>2, <1>9, <1>10 DEF StreamInv, StreamOver, Said, Streaming
  <1>5. DecodeInv'
    BY <1>2, <1>9, <1>10 DEF Inv, DecodeInv, Said
  <1>6. StreambufInv'
    BY <1>p, <1>2 DEF SamePlan, Inv, StreambufInv
  <1>7. OutputbufInv'
    <2>1. \A i \in 1 .. Len(outputbuf) : outputbuf[i] \in Int /\ outputbuf[i] <= server.track
      BY <1>1 DEF Inv, OutputbufInv, Typed
    <2>2. NoneLeft' /\ \A i \in 1 .. Len(outputbuf) : outputbuf[i] <= server'.track
      BY <1>0, <1>2, <2>1 DEF NoneLeft
    <2>3. Len(outputbuf) <= OutCap /\ output.track_start \in {None} \cup 0 .. Len(outputbuf)
      BY DEF Inv, OutputbufInv
    <2> QED BY <1>p, <1>2, <1>10, <2>2, <2>3 DEF SamePlan, OutputbufInv
  <1>8. FlushInv'
    BY <1>2 DEF FlushInv
  <1> QED BY <1>1, <1>3, <1>4, <1>5, <1>6, <1>7, <1>8 DEF Inv

LEMMA CommandKeeps ==
  ASSUME PlayerAssumption, Inv, Command
  PROVE  Inv'
  BY FlushDecodeKeeps, FlushOutputKeeps, StopOutputKeeps, FlushStreamingKeeps, FlushStreamKeeps,
     FlushDrainKeeps, OpenCodecKeeps, ConnectKeeps, OpenStreamKeeps, BeginKeeps, ContKeeps, CodcKeeps,
     PauseKeeps, UnpauseKeeps DEF Command

-----------------------------------------------------------------------------
(* The pass of the controller.                                              *)

LEMMA PassSIs ==
  ASSUME Typed, PassS
  PROVE  /\ slim.pc = "idle" /\ slim'.pc = "D" /\ slim'.stream_state = stream.state
         /\ slim'.say \subseteq {"DSCO", "DSCO failed", "RESP"}
         /\ stream.disconnect = "OK" => "DSCO failed" \notin slim'.say
         /\ slim'.autostart = slim.autostart /\ slim'.sentSTMu = slim.sentSTMu
         /\ slim'.missed = (slim.missed \/ (stream.state = "DISCONNECT" /\ decode.track # server.track))
         /\ slim'.start = slim.start /\ slim'.close = slim.close
         /\ stream'.state = (IF stream.state = "DISCONNECT" THEN "STOPPED" ELSE stream.state)
         /\ stream'.fd = stream.fd /\ stream'.disconnect = stream.disconnect
         /\ stream'.left = stream.left /\ stream'.cont_wait = stream.cont_wait
         /\ UNCHANGED <<streambuf, st, decode, dt, output, outputbuf, server>>
         /\ Typed'
  <1> DEFINE headers == ~stream.sent_headers
                /\ stream.state \in {"STREAMING_HTTP", "STREAMING_WAIT", "STREAMING_BUFFERING"}
             missed == slim.missed \/ (stream.state = "DISCONNECT" /\ decode.track # server.track)
  <1>1. stream \in StreamRec /\ slim \in SlimRec /\ missed \in BOOLEAN
    BY DEF Typed, SlimRec
  <1> HIDE DEF missed
  <1>2. PICK say \in SUBSET {"DSCO", "DSCO failed", "RESP"} :
           /\ stream.disconnect = "OK" => "DSCO failed" \notin say
           /\ slim' = [slim EXCEPT !.pc = "D", !.stream_state = stream.state, !.missed = missed,
                                   !.say = say]
    <2>1. slim' = [slim EXCEPT !.pc = "D", !.stream_state = stream.state, !.missed = missed,
                     !.say = DisconnectReport \cup (IF headers THEN {"RESP"} ELSE {})]
      BY DEF PassS, missed
    <2> HIDE DEF headers
    <2>2. /\ DisconnectReport \cup (IF headers THEN {"RESP"} ELSE {}) \in SUBSET {"DSCO", "DSCO failed", "RESP"}
          /\ stream.disconnect = "OK" =>
                "DSCO failed" \notin DisconnectReport \cup (IF headers THEN {"RESP"} ELSE {})
      BY DEF DisconnectReport
    <2> QED BY <2>1, <2>2
  <1>3. PICK h \in BOOLEAN, x \in States :
           /\ x = (IF stream.state = "DISCONNECT" THEN "STOPPED" ELSE stream.state)
           /\ stream' = [stream EXCEPT !.sent_headers = h, !.state = x]
    <2>1. stream' = [stream EXCEPT !.sent_headers = stream.sent_headers \/ headers,
                       !.state = IF stream.state = "DISCONNECT" THEN "STOPPED" ELSE stream.state]
      BY DEF PassS
    <2>2. (stream.sent_headers \/ headers) \in BOOLEAN
      BY <1>1 DEF StreamRec
    <2>3. (IF stream.state = "DISCONNECT" THEN "STOPPED" ELSE stream.state) \in States
      BY <1>1, Names DEF StreamRec
    <2> QED BY <2>1, <2>2, <2>3
  <1>4. say \in SUBSET Messages /\ stream.state \in States
    BY <1>1, <1>2, MessageNames DEF StreamRec
  <1>5. /\ slim' \in SlimRec /\ slim'.pc = "D" /\ slim'.stream_state = stream.state /\ slim'.say = say
        /\ slim'.autostart = slim.autostart /\ slim'.missed = missed /\ slim'.sentSTMu = slim.sentSTMu
        /\ slim'.start = slim.start /\ slim'.close = slim.close
    BY <1>1, <1>2, <1>4, PcNames DEF SlimRec
  <1>6. /\ stream' \in StreamRec /\ stream'.state = x /\ stream'.fd = stream.fd
        /\ stream'.disconnect = stream.disconnect
        /\ stream'.left = stream.left /\ stream'.cont_wait = stream.cont_wait
    BY <1>1, <1>3 DEF StreamRec
  <1>7. slim.pc = "idle" /\ UNCHANGED <<streambuf, st, decode, dt, output, outputbuf, server>>
    BY DEF PassS
  <1> QED BY <1>2, <1>3, <1>5, <1>6, <1>7 DEF Typed, missed

\* What the pass makes of the decoder: it starts it, finds it over, or leaves it.
Starts == /\ decode.state = "READY" /\ decode'.state = "RUNNING" /\ slim'.say \subseteq slim.say \cup {"STMl"}
          /\ slim.stream_state \in Streaming \/ (slim.stream_state = "DISCONNECT" /\ stream.disconnect = "OK")
          /\ slim.say \subseteq slim'.say /\ ~slim'.close
Finds == /\ \/ decode.state = "COMPLETE" /\ slim'.say = slim.say \cup {"STMd"}
            \/ decode.state = "ERROR" /\ slim'.say = slim.say \cup {"STMn"}
         /\ decode'.state = "STOPPED" /\ ~slim'.start
Leaves == /\ decode.state \notin {"COMPLETE", "ERROR"} /\ decode'.state = decode.state
          /\ slim'.say = slim.say /\ ~slim'.start /\ ~slim'.close

LEMMA PassDIs ==
  ASSUME Typed, PassD
  PROVE  /\ slim.pc = "D" /\ slim'.pc = "O" /\ (Starts \/ Finds \/ Leaves)
         /\ slim'.stream_state = slim.stream_state /\ slim'.decode_state = decode'.state
         /\ slim'.autostart = slim.autostart /\ slim'.missed = slim.missed /\ slim'.sentSTMu = slim.sentSTMu
         /\ decode'.new_stream = decode.new_stream /\ decode'.track = decode.track
         /\ decode'.done = decode.done
         /\ UNCHANGED <<stream, streambuf, st, dt, output, outputbuf, server>>
         /\ Typed'
  <1> DEFINE over   == decode.state \in {"COMPLETE", "ERROR"}
             state  == IF MayDecode THEN "RUNNING" ELSE IF over THEN "STOPPED" ELSE decode.state
  <1>1. decode \in DecodeRec /\ slim \in SlimRec
    BY DEF Typed
  <1>2. PICK r \in SUBSET Messages, x \in DecodeStates : r = DecodeReport /\ x = state
    <2>1. DecodeReport \in SUBSET Messages
      BY MessageNames DEF DecodeReport
    <2>2. state \in DecodeStates
      BY <1>1, Names DEF DecodeRec
    <2> QED BY <2>1, <2>2
  <1>3. PICK l \in BOOLEAN, s \in BOOLEAN, c \in BOOLEAN :
           /\ s = (MayDecode /\ slim.autostart = 1)
           /\ c = (over /\ slim.stream_state \in Streaming)
           /\ slim' = [slim EXCEPT !.pc = "O", !.say = slim.say \cup r, !.sentSTMl = l, !.start = s,
                                   !.close = c, !.decode_state = x]
    <2>1. slim' = [slim EXCEPT !.pc = "O", !.say = slim.say \cup r, !.sentSTMl = slim.sentSTMl \/ "STMl" \in r,
                     !.start = (MayDecode /\ slim.autostart = 1),
                     !.close = (over /\ slim.stream_state \in Streaming), !.decode_state = x]
      BY <1>2 DEF PassD
    <2>2. (slim.sentSTMl \/ "STMl" \in r) \in BOOLEAN /\ (MayDecode /\ slim.autostart = 1) \in BOOLEAN
            /\ (over /\ slim.stream_state \in Streaming) \in BOOLEAN
      OBVIOUS
    <2> QED BY <2>1, <2>2
  <1>4. decode' = [decode EXCEPT !.state = x]
    BY <1>2 DEF PassD
  <1>5. slim.say \cup r \in SUBSET Messages
    BY <1>1, <1>2 DEF SlimRec
  <1>6. /\ slim' \in SlimRec /\ slim'.pc = "O" /\ slim'.say = slim.say \cup r /\ slim'.decode_state = x
        /\ slim'.stream_state = slim.stream_state /\ slim'.start = s /\ slim'.close = c
        /\ slim'.autostart = slim.autostart /\ slim'.missed = slim.missed /\ slim'.sentSTMu = slim.sentSTMu
    <2>1. slim' = [slim EXCEPT !.pc = "O", !.say = slim.say \cup r, !.sentSTMl = l, !.start = s,
                               !.close = c, !.decode_state = x]
      BY <1>3
    <2>2. slim \in SlimRec /\ x \in DecodeStates /\ "O" \in Pcs
      BY <1>1, PcNames
    <2> QED BY <1>5, <2>1, <2>2 DEF SlimRec
  <1>7. /\ decode' \in DecodeRec /\ decode'.state = x /\ decode'.new_stream = decode.new_stream
        /\ decode'.track = decode.track /\ decode'.done = decode.done
    BY <1>1, <1>2, <1>4 DEF DecodeRec
  <1>8. Starts \/ Finds \/ Leaves
    <2>1. CASE MayDecode
      <3>1. decode.state = "READY" /\ r \subseteq {"STMl"} /\ x = "RUNNING" /\ ~c
        BY <1>2, <1>3, <2>1 DEF MayDecode, DecodeReport
      <3>2. slim.stream_state \in Streaming \/ (slim.stream_state = "DISCONNECT" /\ stream.disconnect = "OK")
        BY <2>1 DEF MayDecode
      <3> QED BY <1>6, <1>7, <3>1, <3>2 DEF Starts
    <2>2. CASE ~MayDecode
      <3>1. ~s /\ (over => r = (IF decode.state = "COMPLETE" THEN {"STMd"} ELSE {"STMn"}) /\ x = "STOPPED")
              /\ (~over => r = {} /\ x = decode.state /\ ~c)
        BY <1>2, <1>3, <2>2 DEF DecodeReport
      <3> QED BY <1>6, <1>7, <3>1 DEF Finds, Leaves
    <2> QED BY <2>1, <2>2
  <1>9. slim.pc = "D" /\ UNCHANGED <<stream, streambuf, st, dt, output, outputbuf, server>>
    BY DEF PassD
  <1> QED BY <1>6, <1>7, <1>8, <1>9 DEF Typed


\* The pass finds that everything was played.
Underrun ==
    /\ output.state = "RUNNING" /\ outputbuf = <<>> /\ ~slim.sentSTMu
    /\ slim.stream_state \in {"STOPPED", "DISCONNECT"} /\ slim.decode_state = "STOPPED"

LEMMA PassOIs ==
  ASSUME Typed, PassO
  PROVE  /\ slim.pc = "O" /\ slim'.pc = (IF slim.close THEN "close" ELSE "send")
         /\ \E more \in SUBSET {"STMo"} :
               slim'.say = slim.say \cup (IF output.track_started THEN {"STMs"} ELSE {})
                             \cup (IF Underrun THEN {"STMu"} ELSE {}) \cup more
         /\ slim'.sentSTMu = (slim.sentSTMu \/ Underrun)
         /\ slim'.stream_state = slim.stream_state /\ slim'.decode_state = slim.decode_state
         /\ slim'.autostart = slim.autostart /\ slim'.missed = slim.missed /\ slim'.start = slim.start /\ slim'.close = slim.close
         /\ output'.track_start = output.track_start /\ output'.heard = output.heard
         /\ output'.track_started = FALSE
         /\ output'.state # "STOPPED" => output.state # "STOPPED" \/ slim.start
         /\ UNCHANGED <<stream, streambuf, st, decode, dt, outputbuf, server>>
         /\ Typed'
  <1> DEFINE state    == IF slim.start /\ output.state = "STOPPED" THEN "BUFFER" ELSE output.state
             empty    == state = "RUNNING" /\ outputbuf = <<>>
             underrun == empty /\ ~slim.sentSTMu /\ slim.stream_state \in {"STOPPED", "DISCONNECT"}
                           /\ slim.decode_state = "STOPPED"
             starved  == empty /\ ~underrun /\ ~slim.sentSTMo /\ slim.stream_state = "STREAMING_HTTP"
             say      == slim.say \cup (IF output.track_started THEN {"STMs"} ELSE {})
                             \cup (IF underrun THEN {"STMu"} ELSE {})
                             \cup (IF starved THEN {"STMo"} ELSE {})
  <1>1. output \in OutputRec /\ slim \in SlimRec
    BY DEF Typed
  <1>2. underrun <=> Underrun
    BY DEF Underrun
  <1>3. output' = [output EXCEPT !.state = IF underrun THEN "STOPPED" ELSE state, !.track_started = FALSE]
    <2>1. output' = Reported([output EXCEPT !.state = IF underrun THEN "STOPPED" ELSE state])
      BY DEF PassO
    <2> HIDE DEF underrun, state
    <2> QED BY <1>1, <2>1 DEF Reported, OutputRec
  <1>4. slim' = [slim EXCEPT !.pc = IF slim.close THEN "close" ELSE "send",
                   !.sentSTMu = slim.sentSTMu \/ underrun, !.sentSTMo = slim.sentSTMo \/ starved, !.say = say]
    BY DEF PassO
  <1>5. say \in SUBSET Messages
    BY <1>1, MessageNames DEF SlimRec
  <1>6. \E more \in SUBSET {"STMo"} :
               say = slim.say \cup (IF output.track_started THEN {"STMs"} ELSE {})
                         \cup (IF Underrun THEN {"STMu"} ELSE {}) \cup more
    <2>1. (IF starved THEN {"STMo"} ELSE {}) \in SUBSET {"STMo"}
      OBVIOUS
    <2> QED BY <1>2, <2>1
  <1>7. PICK x \in OutputStates : /\ output' = [output EXCEPT !.state = x, !.track_started = FALSE]
                                  /\ x # "STOPPED" => output.state # "STOPPED" \/ slim.start
    <2>1. (IF underrun THEN "STOPPED" ELSE state) \in OutputStates
      BY <1>1, Names DEF OutputRec
    <2> QED BY <1>3, <2>1
  <1>8. /\ output' \in OutputRec /\ output'.state = x /\ output'.track_start = output.track_start
        /\ output'.heard = output.heard /\ output'.track_started = FALSE
    BY <1>1, <1>7 DEF OutputRec
  <1> HIDE DEF say, underrun, starved
  <1>9. PICK p \in Pcs, y \in SUBSET Messages, u \in BOOLEAN, o \in BOOLEAN :
           /\ p = (IF slim.close THEN "close" ELSE "send") /\ y = say /\ u = (slim.sentSTMu \/ underrun)
           /\ slim' = [slim EXCEPT !.pc = p, !.sentSTMu = u, !.sentSTMo = o, !.say = y]
    <2>1. (IF slim.close THEN "close" ELSE "send") \in Pcs
      BY PcNames
    <2>2. (slim.sentSTMu \/ underrun) \in BOOLEAN /\ (slim.sentSTMo \/ starved) \in BOOLEAN
      BY <1>1 DEF SlimRec
    <2> QED BY <1>4, <1>5, <2>1, <2>2
  <1>10. /\ slim' \in SlimRec /\ slim'.pc = p /\ slim'.say = y /\ slim'.sentSTMu = u
         /\ slim'.stream_state = slim.stream_state /\ slim'.decode_state = slim.decode_state
         /\ slim'.autostart = slim.autostart /\ slim'.missed = slim.missed /\ slim'.start = slim.start /\ slim'.close = slim.close
    <2>1. slim' = [slim EXCEPT !.pc = p, !.sentSTMu = u, !.sentSTMo = o, !.say = y]
      BY <1>9
    <2> QED BY <1>1, <2>1 DEF SlimRec
  <1>11. slim.pc = "O" /\ UNCHANGED <<stream, streambuf, st, decode, dt, outputbuf, server>>
    BY DEF PassO
  <1>12. slim'.sentSTMu = (slim.sentSTMu \/ Underrun)
    BY <1>2, <1>9, <1>10
  <1>13. Typed'
    BY <1>8, <1>10, <1>11 DEF Typed
  <1>14. slim'.say = say /\ slim'.pc = (IF slim.close THEN "close" ELSE "send")
    BY <1>9, <1>10
  <1> QED BY <1>6, <1>7, <1>8, <1>10, <1>11, <1>12, <1>13, <1>14

LEMMA PassCloseIs ==
  ASSUME Typed, PassClose
  PROVE  /\ slim.pc = "close" /\ slim'.pc = "send" /\ slim'.say = slim.say
         /\ slim'.stream_state = slim.stream_state /\ slim'.decode_state = slim.decode_state
         /\ slim'.autostart = slim.autostart /\ slim'.missed = slim.missed /\ slim'.start = slim.start /\ slim'.close = slim.close
         /\ slim'.sentSTMu = slim.sentSTMu
         /\ stream'.state = "STOPPED" /\ stream'.fd = None /\ stream'.disconnect = stream.disconnect
         /\ stream'.left = stream.left /\ stream'.cont_wait = stream.cont_wait
         /\ UNCHANGED <<streambuf, st, decode, dt, output, outputbuf, server>>
         /\ Typed'
  <1>1. stream \in StreamRec /\ slim \in SlimRec
    BY DEF Typed
  <1>2. /\ slim' \in SlimRec /\ slim.pc = "close" /\ slim'.pc = "send" /\ slim'.say = slim.say
        /\ slim'.stream_state = slim.stream_state /\ slim'.decode_state = slim.decode_state
        /\ slim'.autostart = slim.autostart /\ slim'.missed = slim.missed /\ slim'.start = slim.start /\ slim'.close = slim.close
        /\ slim'.sentSTMu = slim.sentSTMu
    BY <1>1, PcNames DEF PassClose, SlimRec
  <1>3. stream' = [stream EXCEPT !.state = "STOPPED", !.fd = -1] /\ -1 \in Int
    BY DEF PassClose, Closed, None
  <1>4. /\ stream' \in StreamRec /\ stream'.state = "STOPPED" /\ stream'.fd = None
        /\ stream'.disconnect = stream.disconnect
        /\ stream'.left = stream.left /\ stream'.cont_wait = stream.cont_wait
    BY <1>1, <1>3, Names DEF StreamRec, None
  <1>5. UNCHANGED <<streambuf, st, decode, dt, output, outputbuf, server>>
    BY DEF PassClose
  <1> QED BY <1>2, <1>4, <1>5 DEF Typed

\* The pass ends, or sends message m, the first in order of those it has to send.
Ends == /\ slim.say = {} /\ slim'.pc = "idle" /\ slim'.say = {} /\ slim'.stream_state = "STOPPED"
        /\ ~slim'.start /\ ~slim'.close /\ server' = server
SendsMessage(m) ==
    /\ m \in slim.say /\ m # "STMf" /\ slim'.pc = "send" /\ slim'.say = slim.say \ {m}
    /\ m = "STMu" => "STMs" \notin slim.say /\ "STMd" \notin slim.say
    /\ slim'.stream_state = slim.stream_state /\ slim'.start = slim.start /\ slim'.close = slim.close
    /\ server'.told = server.told \cup {m} /\ server'.track = server.track /\ server'.cmd = server.cmd
    /\ server'.starts = server.starts + (IF m = "STMs" THEN 1 ELSE 0)
    /\ server'.ends = server.ends + (IF m = "STMd" THEN 1 ELSE 0)

LEMMA PassSendIs ==
  ASSUME Typed, PassSend
  PROVE  /\ slim.pc = "send" /\ (Ends \/ \E m \in Messages : SendsMessage(m))
         /\ slim'.autostart = slim.autostart /\ slim'.missed = slim.missed /\ slim'.sentSTMu = slim.sentSTMu
         /\ UNCHANGED <<stream, streambuf, st, decode, dt, output, outputbuf>>
         /\ Typed'
  <1>1. slim \in SlimRec /\ server \in ServerRec
    BY DEF Typed
  <1>2. CASE slim.say = {}
    <2>1. slim' = [slim EXCEPT !.pc = "idle", !.start = FALSE, !.close = FALSE,
                     !.stream_state = "STOPPED", !.decode_state = "STOPPED"] /\ server' = server
      BY <1>2 DEF PassSend
    <2>2. slim' \in SlimRec /\ Ends /\ slim'.autostart = slim.autostart /\ slim'.missed = slim.missed /\ slim'.sentSTMu = slim.sentSTMu
      BY <1>1, <1>2, <2>1, Names, PcNames DEF SlimRec, Ends
    <2> QED BY <1>1, <2>1, <2>2 DEF PassSend, Typed
  <1>3. CASE slim.say # {}
    <2>1. PICK i \in DOMAIN Order :
             /\ Order[i] \in slim.say /\ \A j \in 1 .. i - 1 : Order[j] \notin slim.say
             /\ slim' = [slim EXCEPT !.say = @ \ {Order[i]}] /\ Hears(Order[i])
      BY <1>3 DEF PassSend
    <2>2. PICK m \in Messages : m = Order[i] /\ m \in slim.say
      BY <1>1, <2>1 DEF SlimRec
    <2>11. m # "STMf"
      <3>1. /\ DOMAIN Order = 1 .. 9 /\ Order[1] # "STMf" /\ Order[2] # "STMf" /\ Order[3] # "STMf"
            /\ Order[4] # "STMf" /\ Order[5] # "STMf" /\ Order[6] # "STMf" /\ Order[7] # "STMf"
            /\ Order[8] # "STMf" /\ Order[9] # "STMf"
        BY DEF Order
      <3> QED BY <2>1, <2>2, <3>1
    <2>3. m = "STMu" => "STMs" \notin slim.say /\ "STMd" \notin slim.say
      <3>1. DOMAIN Order = 1 .. 9 /\ Order[3] = "STMs" /\ Order[4] = "STMd" /\ Order[6] = "STMu"
              /\ \A j \in 1 .. 9 : j # 6 => Order[j] # "STMu"
        BY DEF Order
      <3>2. ASSUME m = "STMu" PROVE "STMs" \notin slim.say /\ "STMd" \notin slim.say
        <4>1. i \in 1 .. 9 /\ Order[i] = "STMu"
          BY <2>1, <2>2, <3>1, <3>2
        <4>2. i = 6
          BY <3>1, <4>1
        <4>3. 3 \in 1 .. i - 1 /\ 4 \in 1 .. i - 1
          BY <4>2
        <4> QED BY <2>1, <3>1, <4>3
      <3> QED BY <3>2
    <2>4. slim' = [slim EXCEPT !.say = slim.say \ {m}]
      BY <2>1, <2>2
    <2>5. /\ slim' \in SlimRec /\ slim'.pc = slim.pc /\ slim'.say = slim.say \ {m}
          /\ slim'.stream_state = slim.stream_state /\ slim'.start = slim.start /\ slim'.close = slim.close
          /\ slim'.autostart = slim.autostart /\ slim'.missed = slim.missed /\ slim'.sentSTMu = slim.sentSTMu
      BY <1>1, <2>4 DEF SlimRec
    <2>6. PICK a \in Nat, b \in Nat :
             /\ a = server.starts + (IF m = "STMs" THEN 1 ELSE 0)
             /\ b = server.ends + (IF m = "STMd" THEN 1 ELSE 0)
             /\ server' = [server EXCEPT !.told = server.told \cup {m}, !.starts = a, !.ends = b]
      <3>1. /\ server.starts + (IF m = "STMs" THEN 1 ELSE 0) \in Nat
            /\ server.ends + (IF m = "STMd" THEN 1 ELSE 0) \in Nat
        BY <1>1 DEF ServerRec
      <3> QED BY <2>1, <2>2, <3>1 DEF Hears
    <2>7. server.told \cup {m} \in SUBSET Messages
      BY <1>1, <2>2 DEF ServerRec
    <2>8. /\ server' \in ServerRec /\ server'.told = server.told \cup {m} /\ server'.starts = a
          /\ server'.ends = b /\ server'.track = server.track /\ server'.cmd = server.cmd
      BY <1>1, <2>6, <2>7 DEF ServerRec
    <2>9. slim.pc = "send" /\ UNCHANGED <<stream, streambuf, st, decode, dt, output, outputbuf>>
      BY DEF PassSend
    <2>10. SendsMessage(m)
      BY <2>2, <2>3, <2>5, <2>6, <2>8, <2>9, <2>11 DEF SendsMessage
    <2> QED BY <2>5, <2>8, <2>9, <2>10 DEF Typed
  <1> QED BY <1>2, <1>3

LEMMA PassSKeeps ==
  ASSUME PlayerAssumption, Inv, PassS
  PROVE  Inv'
  <1>p. SamePlan
    BY PlanKept DEF Inv, Typed, Next, Controller, Command, Pass
  <1>1. Typed /\ Typed'
    BY PassSIs DEF Inv
  <1>8. UNCHANGED <<decode, output, outputbuf, server>>
    BY <1>1, PassSIs
  <1>2. CommandInv'
    BY <1>1, PassSIs DEF Inv, CommandInv, StreamOver, Ended, Over, Said, NewTrack, FlushPcs, SetupPcs, PassPcs, StreamInv
  <1>3. StreamInv'
    BY <1>1, PassSIs DEF Inv, StreamInv, StreamOver, Ended, Flowing, Said, Streaming
  <1>4. DecodeInv'
    BY <1>1, PassSIs DEF Inv, DecodeInv, Said
  <1>5. StreambufInv'
    BY <1>p, <1>1, PassSIs DEF SamePlan, Inv, StreambufInv, Refused, StreamOver, Ended, Streaming
  <1>6. OutputbufInv'
    BY <1>p, <1>8 DEF SamePlan, Inv, OutputbufInv, Fresh, NoneLeft
  <1>7. FlushInv'
    BY <1>1, PassSIs DEF Inv, FlushInv, StreamOver, Ended
  <1> QED BY <1>1, <1>2, <1>3, <1>4, <1>5, <1>6, <1>7 DEF Inv

LEMMA PassDKeeps ==
  ASSUME PlayerAssumption, Inv, PassD
  PROVE  Inv'
  <1>p. SamePlan
    BY PlanKept DEF Inv, Typed, Next, Controller, Command, Pass
  <1>1. Typed /\ Typed'
    BY PassDIs DEF Inv
  <1>2. CommandInv'
    BY <1>1, PassDIs DEF Inv, CommandInv, StreamOver, Ended, Over, Said, NewTrack, FlushPcs, SetupPcs, PassPcs, Starts, Finds, Leaves
  <1>3. StreamInv'
    BY <1>1, PassDIs DEF Inv, StreamInv, StreamOver, Ended, Flowing, Said, CommandInv, DecodeInv, Starts, Finds, Leaves
  <1>4. DecodeInv'
    BY <1>1, PassDIs DEF Inv, DecodeInv, Said, Starts, Finds, Leaves
  <1>5. StreambufInv'
    BY <1>p, <1>1, PassDIs DEF SamePlan, Inv, StreambufInv, Refused, StreamOver, Ended, CommandInv, StreamInv, Starts, Finds, Leaves
  <1>6. OutputbufInv'
    BY <1>p, <1>1, PassDIs DEF SamePlan, Inv, OutputbufInv, Fresh, NoneLeft, Starts, Finds, Leaves
  <1>7. FlushInv'
    BY <1>1, PassDIs DEF Inv, FlushInv, StreamOver, Ended, Starts, Finds, Leaves
  <1> QED BY <1>1, <1>2, <1>3, <1>4, <1>5, <1>6, <1>7 DEF Inv

LEMMA PassOKeeps ==
  ASSUME PlayerAssumption, Inv, PassO
  PROVE  Inv'
  <1>p. SamePlan
    BY PlanKept DEF Inv, Typed, Next, Controller, Command, Pass
  <1>1. Typed /\ Typed'
    BY PassOIs DEF Inv
  <1>2. CommandInv'
    BY <1>1, PassOIs DEF Inv, CommandInv, StreamOver, Ended, Over, Said, NewTrack, FlushPcs, SetupPcs, PassPcs
  <1>3. StreamInv'
    BY <1>1, PassOIs DEF Inv, StreamInv, StreamOver, Ended, Flowing, Said
  <1>4. DecodeInv'
    BY <1>1, PassOIs DEF Inv, DecodeInv, Said
  <1>5. StreambufInv'
    BY <1>p, <1>1, PassOIs DEF SamePlan, Inv, StreambufInv, Refused, StreamOver, Ended
  <1>6. OutputbufInv'
    BY <1>p, <1>1, PassOIs DEF SamePlan, Inv, OutputbufInv, Fresh, NoneLeft
  <1>7. FlushInv'
    BY <1>1, PassOIs DEF Inv, FlushInv, StreamOver, Ended
  <1> QED BY <1>1, <1>2, <1>3, <1>4, <1>5, <1>6, <1>7 DEF Inv

LEMMA PassCloseKeeps ==
  ASSUME PlayerAssumption, Inv, PassClose
  PROVE  Inv'
  <1>p. SamePlan
    BY PlanKept DEF Inv, Typed, Next, Controller, Command, Pass
  <1>1. Typed /\ Typed'
    BY PassCloseIs DEF Inv
  <1>2. CommandInv'
    BY <1>1, PassCloseIs DEF Inv, CommandInv, StreamOver, Ended, Over, Said, NewTrack, FlushPcs, SetupPcs, PassPcs
  <1>3. StreamInv'
    BY <1>1, PassCloseIs DEF Inv, StreamInv, StreamOver, Ended, Flowing, Said
  <1>4. DecodeInv'
    BY <1>1, PassCloseIs DEF Inv, DecodeInv, Said
  <1>5. StreambufInv'
    BY <1>p, <1>1, PassCloseIs DEF SamePlan, Inv, StreambufInv, Refused, StreamOver, Ended
  <1>6. OutputbufInv'
    BY <1>p, <1>1, PassCloseIs DEF SamePlan, Inv, OutputbufInv, Fresh, NoneLeft
  <1>7. FlushInv'
    BY <1>1, PassCloseIs DEF Inv, FlushInv, StreamOver, Ended
  <1> QED BY <1>1, <1>2, <1>3, <1>4, <1>5, <1>6, <1>7 DEF Inv

LEMMA PassSendKeeps ==
  ASSUME PlayerAssumption, Inv, PassSend
  PROVE  Inv'
  <1>p. SamePlan
    BY PlanKept DEF Inv, Typed, Next, Controller, Command, Pass
  <1>1. Typed /\ Typed'
    BY PassSendIs DEF Inv
  <1>2. /\ slim.pc = "send" /\ slim'.pc \in {"send", "idle"} /\ UNCHANGED <<stream, streambuf, decode, output, outputbuf>>
        /\ slim'.stream_state \in {slim.stream_state, "STOPPED"}
        /\ slim'.pc = "idle" => slim'.stream_state = "STOPPED"
        /\ server'.track = server.track /\ server'.cmd = server.cmd
        /\ Said' = Said /\ server.told \subseteq server'.told
        /\ "STMf" \in server'.told => "STMf" \in server.told
    <2>1. CASE Ends
      BY <1>1, <2>1, PassSendIs DEF Ends, Said
    <2>2. CASE \E m \in Messages : SendsMessage(m)
      <3>1. PICK m \in Messages : SendsMessage(m)
        BY <2>2
      <3> QED BY <1>1, <3>1, PassSendIs DEF SendsMessage, Said
    <2> QED BY <1>1, <2>1, <2>2, PassSendIs
  <1>3. CommandInv'
    BY <1>2 DEF Inv, CommandInv, StreamOver, Ended, Over, NewTrack, FlushPcs, SetupPcs, PassPcs
  <1>4. StreamInv'
    BY <1>2 DEF Inv, StreamInv, StreamOver, Ended, Flowing, Streaming
  <1>5. DecodeInv'
    BY <1>2 DEF Inv, DecodeInv
  <1>6. StreambufInv'
    BY <1>p, <1>2 DEF SamePlan, Inv, StreambufInv, Refused, StreamOver, Ended, Streaming
  <1>7. OutputbufInv'
    BY <1>p, <1>2 DEF SamePlan, Inv, OutputbufInv, Fresh, NoneLeft
  <1>8. FlushInv'
    BY <1>2 DEF Inv, FlushInv, StreamOver, Ended
  <1> QED BY <1>1, <1>3, <1>4, <1>5, <1>6, <1>7, <1>8 DEF Inv

LEMMA PassKeeps ==
  ASSUME PlayerAssumption, Inv, Pass
  PROVE  Inv'
  BY PassSKeeps, PassDKeeps, PassOKeeps, PassCloseKeeps, PassSendKeeps DEF Pass

-----------------------------------------------------------------------------
(* The decode thread, the callback, the stream thread and the server.       *)

\* The codec moves k units.
Decodes(k) ==
    /\ k \in 0 .. Len(streambuf) /\ k + Len(outputbuf) <= OutCap
    /\ decode'.state = "RUNNING" /\ decode'.new_stream = FALSE /\ decode'.track = decode.track
    /\ decode'.done = decode.done + k
    /\ output'.heard = output.heard /\ output'.state = output.state
    /\ output'.track_started = output.track_started
    /\ output'.track_start = (IF decode.new_stream THEN Len(outputbuf) ELSE output.track_start)
    /\ Len(outputbuf') = Len(outputbuf) + k /\ Len(streambuf') = Len(streambuf) - k
    /\ \A i \in 1 .. Len(outputbuf') :
          outputbuf'[i] = IF i <= Len(outputbuf) THEN outputbuf[i] ELSE streambuf[i - Len(outputbuf)]
    /\ \A i \in 1 .. Len(streambuf') : streambuf'[i] = streambuf[i + k]

\* It finds that there is no more, or fails.
Completes ==
    /\ Ended /\ streambuf = <<>> /\ decode'.state = "COMPLETE"
Fails ==
    /\ "codec" \in Faults /\ decode'.state = "ERROR"
Halts ==
    /\ Completes \/ Fails
    /\ decode'.new_stream = decode.new_stream /\ decode'.track = decode.track
    /\ decode'.done = decode.done
    /\ UNCHANGED <<streambuf, output, outputbuf>>

LEMMA CodecIs ==
  ASSUME PlayerAssumption, Typed, Len(outputbuf) <= OutCap, Codec, decode.state = "RUNNING"
  PROVE  /\ Halts \/ \E k \in Nat : Decodes(k)
         /\ decode' \in DecodeRec /\ output' \in OutputRec
         /\ streambuf' \in Seq(Int) /\ outputbuf' \in Seq(Int)
  <1>1. /\ decode \in DecodeRec /\ output \in OutputRec /\ streambuf \in Seq(Int) /\ outputbuf \in Seq(Int)
        /\ Len(streambuf) \in Nat /\ Len(outputbuf) \in Nat /\ OutCap \in Nat /\ MaxDecode \in Nat
    BY PlanIs DEF Typed, PlayerAssumption
  <1>2. CASE CodecAtEnd
    <2>1. decode' = [decode EXCEPT !.state = "COMPLETE"] /\ UNCHANGED <<streambuf, output, outputbuf>>
      BY <1>2 DEF Codec
    <2>2. /\ decode' \in DecodeRec /\ decode'.state = "COMPLETE" /\ decode'.new_stream = decode.new_stream
          /\ decode'.track = decode.track /\ decode'.done = decode.done
      BY <1>1, <2>1, Names DEF DecodeRec
    <2> QED BY <1>1, <1>2, <2>1, <2>2 DEF CodecAtEnd, Halts, Completes
  <1>3. CASE "codec" \in Faults /\ decode' = [decode EXCEPT !.state = "ERROR"]
               /\ UNCHANGED <<streambuf, output, outputbuf>>
    <2>1. /\ decode' \in DecodeRec /\ decode'.state = "ERROR" /\ decode'.new_stream = decode.new_stream
          /\ decode'.track = decode.track /\ decode'.done = decode.done
      BY <1>1, <1>3, Names DEF DecodeRec
    <2> QED BY <1>1, <1>3, <2>1 DEF Halts, Fails
  <1>4. CASE ~CodecAtEnd /\ ~("codec" \in Faults /\ decode' = [decode EXCEPT !.state = "ERROR"]
               /\ UNCHANGED <<streambuf, output, outputbuf>>)
    <2>1. PICK k \in Nat :
             /\ k \in 0 .. Len(streambuf) /\ k + Len(outputbuf) <= OutCap
             /\ output' = (IF decode.new_stream THEN [output EXCEPT !.track_start = Len(outputbuf)] ELSE output)
             /\ outputbuf' = outputbuf \o SubSeq(streambuf, 1, k)
             /\ streambuf' = Drop(streambuf, k)
             /\ decode' = [decode EXCEPT !.new_stream = FALSE, !.done = @ + k]
      <3> DEFINE k == Lesser(Lesser(Len(streambuf), OutCap - Len(outputbuf)), MaxDecode)
      <3>1. k \in Nat /\ k <= Len(streambuf) /\ k <= OutCap - Len(outputbuf)
        BY <1>1 DEF Lesser
      <3>2. /\ output' = (IF decode.new_stream THEN [output EXCEPT !.track_start = Len(outputbuf)] ELSE output)
            /\ outputbuf' = outputbuf \o SubSeq(streambuf, 1, k)
            /\ streambuf' = Drop(streambuf, k)
            /\ decode' = [decode EXCEPT !.new_stream = FALSE, !.done = @ + k]
        BY <1>4 DEF Codec
      <3> HIDE DEF k
      <3>3. k \in 0 .. Len(streambuf) /\ k + Len(outputbuf) <= OutCap
        BY <1>1, <3>1
      <3> QED BY <3>1, <3>2, <3>3
    <2>2. /\ streambuf' \in Seq(Int) /\ Len(streambuf') = Len(streambuf) - k
          /\ \A i \in 1 .. Len(streambuf') : streambuf'[i] = streambuf[i + k]
      BY <1>1, <2>1, DropIs
    <2>3. PICK u \in Seq(Int) : /\ Len(u) = k /\ \A i \in 1 .. k : u[i] = streambuf[i]
                                /\ outputbuf' = outputbuf \o u
      BY <1>1, <2>1, PrefixIs
    <2>4. /\ outputbuf' \in Seq(Int) /\ Len(outputbuf') = Len(outputbuf) + Len(u)
          /\ \A i \in 1 .. Len(outputbuf) + Len(u) :
                outputbuf'[i] = IF i <= Len(outputbuf) THEN outputbuf[i] ELSE u[i - Len(outputbuf)]
      BY <1>1, <2>3, JoinIs
    <2>5. \A i \in 1 .. Len(outputbuf') :
             outputbuf'[i] = IF i <= Len(outputbuf) THEN outputbuf[i] ELSE streambuf[i - Len(outputbuf)]
      BY <1>1, <2>3, <2>4
    <2>6. /\ output' \in OutputRec /\ output'.heard = output.heard /\ output'.state = output.state
          /\ output'.track_started = output.track_started
          /\ output'.track_start = (IF decode.new_stream THEN Len(outputbuf) ELSE output.track_start)
      <3>1. Len(outputbuf) \in Int
        BY <1>1
      <3>2. CASE decode.new_stream
        <4>1. output' = [output EXCEPT !.track_start = Len(outputbuf)]
          BY <2>1, <3>2
        <4> QED BY <1>1, <3>1, <3>2, <4>1 DEF OutputRec
      <3>3. CASE ~decode.new_stream
        BY <1>1, <2>1, <3>3
      <3> QED BY <3>2, <3>3
    <2>7. decode.done + k \in Nat
      BY <1>1, <2>1 DEF DecodeRec
    <2>8. /\ decode' \in DecodeRec /\ decode'.state = decode.state /\ decode'.new_stream = FALSE
          /\ decode'.track = decode.track /\ decode'.done = decode.done + k
      BY <1>1, <2>1, <2>7 DEF DecodeRec
    <2>9. Decodes(k)
      BY <1>1, <2>1, <2>2, <2>3, <2>4, <2>5, <2>6, <2>8 DEF Decodes
    <2> QED BY <2>2, <2>4, <2>6, <2>8, <2>9
  <1> QED BY <1>2, <1>3, <1>4

LEMMA DecodeThreadIs ==
  ASSUME PlayerAssumption, Typed, Len(outputbuf) <= OutCap, DecodeThread
  PROVE  /\ UNCHANGED <<stream, st, slim, server>> /\ Typed'
         /\ \/ UNCHANGED <<streambuf, decode, output, outputbuf>>
            \/ decode.state = "RUNNING" /\ (Halts \/ \E k \in Nat : Decodes(k))
  <1>1. /\ dt \in DtRec /\ Len(streambuf) \in Nat /\ Len(outputbuf) \in Nat /\ OutCap \in Nat
        /\ stream \in StreamRec /\ st \in StRec /\ slim \in SlimRec /\ server \in ServerRec
        /\ streambuf \in Seq(Int) /\ outputbuf \in Seq(Int) /\ decode \in DecodeRec /\ output \in OutputRec
    BY PlanIs DEF Typed, PlayerAssumption
  <1>2. CASE DecodeReadS
    <2>1. PICK e \in BOOLEAN : dt' = [dt EXCEPT !.pc = "O", !.bytes = Len(streambuf), !.toend = e]
      <3>1. Ended \in BOOLEAN
        BY DEF Ended
      <3> QED BY <1>2, <3>1 DEF DecodeReadS
    <2>2. dt' \in DtRec
      BY <1>1, <2>1 DEF DtRec
    <2> QED BY <1>1, <1>2, <2>2 DEF DecodeReadS, Typed
  <1>3. CASE DecodeReadO
    <2>1. OutCap - Len(outputbuf) \in Int
      BY <1>1
    <2>2. dt' \in DtRec
      BY <1>1, <1>3, <2>1 DEF DecodeReadO, DtRec
    <2> QED BY <1>1, <1>3, <2>2 DEF DecodeReadO, Typed
  <1>4. CASE DecodeRun
    <2>1. dt' \in DtRec
      BY <1>4 DEF DecodeRun, DtRec
    <2>2. CASE UNCHANGED <<streambuf, decode, output, outputbuf>>
      BY <1>1, <1>4, <2>1, <2>2 DEF DecodeRun, Typed
    <2>3. CASE decode.state = "RUNNING" /\ Codec
      BY <1>1, <1>4, <2>1, <2>3, CodecIs DEF DecodeRun, Typed
    <2> QED BY <1>4, <2>2, <2>3 DEF DecodeRun
  <1> QED BY <1>2, <1>3, <1>4 DEF DecodeThread


LEMMA DecodeThreadKeeps ==
  ASSUME PlayerAssumption, Inv, DecodeThread
  PROVE  Inv'
  <1>p. SamePlan
    BY PlanKept DEF Inv, Typed, Next, Controller, Command, Pass
  <1>1. Typed /\ Typed' /\ Len(outputbuf) <= OutCap
    BY DecodeThreadIs DEF Inv, OutputbufInv
  <1>2. /\ Len(streambuf) \in Nat /\ Len(outputbuf) \in Nat /\ OutCap \in Nat /\ StreamCap \in Nat
        /\ server.track \in Nat /\ decode.track \in Nat /\ output.track_start \in Int
        /\ \A i \in 1 .. Len(outputbuf) : outputbuf[i] \in Int
    <2>1. /\ streambuf \in Seq(Int) /\ outputbuf \in Seq(Int)
          /\ server \in ServerRec /\ decode \in DecodeRec /\ output \in OutputRec
      BY <1>1 DEF Typed
    <2>2. server.track \in Nat /\ decode.track \in Nat /\ output.track_start \in Int
      BY <2>1 DEF ServerRec, DecodeRec, OutputRec
    <2>3. OutCap \in Nat /\ StreamCap \in Nat
      BY PlanIs DEF Inv, Typed
    <2> QED BY <2>1, <2>2, <2>3
  <1>3. CASE UNCHANGED <<streambuf, decode, output, outputbuf>>
    <2>1. UNCHANGED <<stream, streambuf, decode, output, outputbuf, slim, server>>
      BY <1>1, <1>3, DecodeThreadIs
    <2> QED BY <1>p, <1>1, <2>1 DEF SamePlan, Inv, CommandInv, StreamInv, DecodeInv, StreambufInv, OutputbufInv, FlushInv,
               StreamOver, Ended, Over, Said, Flowing, Fresh, NoneLeft, Refused
  <1>4. ASSUME decode.state = "RUNNING"
        PROVE  /\ decode.track = server.track /\ server.track > 0 /\ Flowing /\ slim.pc \notin SetupPcs \cup FlushPcs
               /\ \A i \in 1 .. Len(streambuf) : streambuf[i] = server.track
               /\ "STMf" \notin server.told /\ "STMd" \notin Said
    <2>1. decode.track = server.track /\ server.track > 0 /\ Flowing /\ "STMd" \notin Said
      BY <1>2, <1>4 DEF Inv, DecodeInv, StreamInv
    <2>2. slim.pc \notin SetupPcs \cup FlushPcs
      BY <1>4, <2>1 DEF Inv, CommandInv
    <2>3. "STMf" \notin server.told /\ ~Refused /\ slim.pc # "connect"
      BY <1>4, <2>2 DEF Inv, FlushInv, Refused, SetupPcs
    <2> QED BY <2>1, <2>2, <2>3 DEF Inv, StreambufInv
  <1>5. CASE decode.state = "RUNNING" /\ Halts
    <2>1. /\ UNCHANGED <<stream, streambuf, output, outputbuf, slim, server>>
          /\ decode'.track = decode.track /\ decode'.new_stream = decode.new_stream
          /\ decode'.state \in {"COMPLETE", "ERROR"} /\ (decode'.state = "COMPLETE" => Ended)
      BY <1>1, <1>5, DecodeThreadIs DEF Halts, Completes, Fails
    <2>2. CommandInv'
      BY <1>4, <1>5, <2>1 DEF Inv, CommandInv, StreamOver, Ended, Over
    <2>3. StreamInv'
      BY <1>4, <1>5, <2>1 DEF Inv, StreamInv, StreamOver, Ended, Flowing, Said, Streaming
    <2>4. DecodeInv'
      BY <1>2, <1>4, <1>5, <2>1 DEF DecodeInv, Said
    <2>5. StreambufInv'
      BY <1>p, <1>4, <1>5, <2>1 DEF SamePlan, Inv, StreambufInv
    <2>6. OutputbufInv'
      BY <1>p, <1>5, <2>1 DEF SamePlan, Inv, OutputbufInv, Fresh, NoneLeft
    <2>7. FlushInv'
      BY <1>4, <1>5, <2>1 DEF Inv, FlushInv
    <2> QED BY <1>1, <2>2, <2>3, <2>4, <2>5, <2>6, <2>7 DEF Inv
  <1>6. ASSUME NEW k \in Nat, decode.state = "RUNNING", Decodes(k) PROVE Inv'
    <2>1. /\ UNCHANGED <<stream, slim, server>> /\ decode'.track = decode.track /\ ~decode'.new_stream
          /\ decode'.state = "RUNNING" /\ output'.heard = output.heard
      BY <1>1, <1>6, DecodeThreadIs DEF Decodes
    <2>2. CommandInv'
      BY <1>4, <1>6, <2>1 DEF Inv, CommandInv, StreamOver, Ended, Over
    <2>3. StreamInv'
      BY <1>4, <1>6, <2>1 DEF Inv, StreamInv, StreamOver, Ended, Flowing, Said
    <2>4. DecodeInv'
      BY <1>2, <1>4, <1>6, <2>1 DEF DecodeInv, Said
    <2>5. StreambufInv'
      <3>1. /\ Len(streambuf') = Len(streambuf) - k /\ k <= Len(streambuf)
            /\ \A i \in 1 .. Len(streambuf') : streambuf'[i] = streambuf[i + k]
        BY <1>6 DEF Decodes
      <3>2. \A i \in 1 .. Len(streambuf') : streambuf'[i] = server.track
        BY <1>2, <1>4, <1>6, <3>1
      <3>3. Len(streambuf') <= StreamCap /\ slim.pc # "open"
        BY <1>2, <1>4, <1>6, <3>1 DEF Inv, StreambufInv, SetupPcs
      <3> QED BY <1>p, <2>1, <3>2, <3>3 DEF SamePlan, StreambufInv
    <2>6. OutputbufInv'
      <3>1. /\ Len(outputbuf') = Len(outputbuf) + k /\ Len(outputbuf') <= OutCap
            /\ \A i \in 1 .. Len(outputbuf) : outputbuf'[i] = outputbuf[i]
            /\ \A i \in Len(outputbuf) + 1 .. Len(outputbuf') : outputbuf'[i] = server.track
            /\ output'.track_start = (IF decode.new_stream THEN Len(outputbuf) ELSE output.track_start)
        <4>1. /\ k <= Len(streambuf) /\ k + Len(outputbuf) <= OutCap /\ Len(outputbuf') = Len(outputbuf) + k
              /\ \A i \in 1 .. Len(outputbuf') :
                    outputbuf'[i] = IF i <= Len(outputbuf) THEN outputbuf[i] ELSE streambuf[i - Len(outputbuf)]
              /\ output'.track_start = (IF decode.new_stream THEN Len(outputbuf) ELSE output.track_start)
          BY <1>6 DEF Decodes
        <4>2. ASSUME NEW i \in Len(outputbuf) + 1 .. Len(outputbuf') PROVE outputbuf'[i] = server.track
          <5>1. i - Len(outputbuf) \in 1 .. Len(streambuf) /\ i \in 1 .. Len(outputbuf') /\ ~(i <= Len(outputbuf))
            BY <1>2, <4>1
          <5> QED BY <1>4, <1>6, <4>1, <5>1
        <4>3. ASSUME NEW i \in 1 .. Len(outputbuf) PROVE outputbuf'[i] = outputbuf[i]
          BY <1>2, <4>1
        <4>4. Len(outputbuf') <= OutCap
          BY <1>2, <4>1
        <4> QED BY <4>1, <4>2, <4>3, <4>4
      <3>2. \A i \in 1 .. Len(outputbuf') : outputbuf'[i] <= server.track
        BY <1>2, <3>1 DEF Inv, OutputbufInv
      <3>3. output'.track_start \in {None} \cup 0 .. Len(outputbuf')
        BY <1>2, <3>1 DEF Inv, OutputbufInv
      <3>4. ~Fresh'
        BY <1>4, <1>6, <2>1 DEF Fresh
      <3>5. CASE decode.new_stream
        <4>1. NoneLeft /\ output'.track_start = Len(outputbuf)
          BY <3>1, <3>5 DEF Inv, OutputbufInv, Fresh
        <4>2. \A i \in 1 .. Len(outputbuf') : outputbuf'[i] = server.track <=> i > output'.track_start
          BY <1>2, <3>1, <4>1 DEF NoneLeft
        <4>3. output'.track_start # None
          BY <1>2, <4>1 DEF None
        <4> QED BY <1>p, <2>1, <3>1, <3>2, <3>3, <3>4, <4>2, <4>3 DEF SamePlan, OutputbufInv
      <3>6. CASE ~decode.new_stream
        <4>1. ~Fresh /\ output'.track_start = output.track_start
          BY <1>4, <1>6, <3>1, <3>6 DEF Fresh
        <4>2. CASE output.track_start = None
          <5>1. output.heard = server.track
            BY <1>6, <4>1, <4>2 DEF Inv, OutputbufInv
          <5> QED BY <1>p, <2>1, <3>1, <3>2, <3>3, <3>4, <4>1, <4>2, <5>1 DEF SamePlan, OutputbufInv
        <4>3. CASE output.track_start # None
          <5>1. /\ output.track_start \in 0 .. Len(outputbuf)
                /\ \A i \in 1 .. Len(outputbuf) : outputbuf[i] = server.track <=> i > output.track_start
            BY <4>1, <4>3 DEF Inv, OutputbufInv
          <5>2. \A i \in 1 .. Len(outputbuf') : outputbuf'[i] = server.track <=> i > output.track_start
            BY <1>2, <3>1, <5>1
          <5> QED BY <1>p, <2>1, <3>1, <3>2, <3>3, <3>4, <4>1, <4>3, <5>2 DEF SamePlan, OutputbufInv
        <4> QED BY <4>2, <4>3
      <3> QED BY <3>5, <3>6
    <2>7. FlushInv'
      BY <1>4, <1>6, <2>1 DEF Inv, FlushInv, FlushPcs
    <2> QED BY <1>1, <2>2, <2>3, <2>4, <2>5, <2>6, <2>7 DEF Inv
  <1> QED BY <1>1, <1>3, <1>5, <1>6, DecodeThreadIs


\* The callback reaches the start of the track, or plays k units.
ReachesStart ==
    /\ output.track_start = 0 /\ output'.track_start = None /\ output'.track_started = TRUE
    /\ output'.heard = outputbuf[1] /\ outputbuf' = outputbuf
Plays(k) ==
    /\ k \in 1 .. Len(outputbuf) /\ output'.heard = output.heard
    /\ output'.track_started = output.track_started /\ Len(outputbuf') = Len(outputbuf) - k
    /\ output.track_start # None => k <= output.track_start
    /\ output'.track_start = (IF output.track_start = None THEN None ELSE output.track_start - k)
    /\ \A i \in 1 .. Len(outputbuf') : outputbuf'[i] = outputbuf[i + k]

LEMMA RenderIs ==
  ASSUME Typed, output.track_start \in {None} \cup 0 .. Len(outputbuf), Render
  PROVE  /\ UNCHANGED <<stream, streambuf, st, decode, dt, slim, server>> /\ Typed'
         /\ outputbuf # <<>> /\ output.state # "STOPPED"
         /\ ReachesStart \/ \E k \in Nat : Plays(k)
  <1>1. /\ output \in OutputRec /\ outputbuf \in Seq(Int) /\ Len(outputbuf) \in Nat /\ -1 \in Int
        /\ output.track_start \in Int /\ outputbuf # <<>> /\ outputbuf[1] \in Int
        /\ output.track_start # -1 => output.track_start \in 0 .. Len(outputbuf)
    <2>1. output \in OutputRec /\ outputbuf \in Seq(Int) /\ outputbuf # <<>>
      BY DEF Typed, Render
    <2> QED BY <2>1 DEF OutputRec, None
  <1>2. UNCHANGED <<stream, streambuf, st, decode, dt, slim, server>> /\ output.state # "STOPPED"
    BY DEF Render, Audible
  <1>3. CASE output.track_start = 0
    <2>1. /\ output' = [output EXCEPT !.state = "RUNNING", !.track_start = -1,
                                      !.track_started = TRUE, !.heard = outputbuf[1]]
          /\ outputbuf' = outputbuf
      BY <1>3 DEF Render, None
    <2>2. output' \in OutputRec /\ ReachesStart
      BY <1>1, <1>3, <2>1, Names DEF OutputRec, ReachesStart, None
    <2> QED BY <1>1, <1>2, <2>1, <2>2 DEF Typed
  <1>4. CASE output.track_start # 0
    <2>1. PICK k \in 1 .. IF output.track_start = None THEN Len(outputbuf) ELSE output.track_start :
             /\ outputbuf' = Drop(outputbuf, k)
             /\ output' = [output EXCEPT !.state = "RUNNING",
                             !.track_start = IF @ = None THEN None ELSE @ - k]
      BY <1>4 DEF Render
    <2>2. /\ k \in Nat /\ k \in 1 .. Len(outputbuf) /\ k \in 0 .. Len(outputbuf)
          /\ output.track_start # None => k <= output.track_start
      BY <1>1, <2>1 DEF None
    <2>3. /\ outputbuf' \in Seq(Int) /\ Len(outputbuf') = Len(outputbuf) - k
          /\ \A i \in 1 .. Len(outputbuf') : outputbuf'[i] = outputbuf[i + k]
      BY <1>1, <2>1, <2>2, DropIs
    <2>4. PICK n \in Int : /\ n = (IF output.track_start = None THEN None ELSE output.track_start - k)
                           /\ output' = [output EXCEPT !.state = "RUNNING", !.track_start = n]
      <3>1. (IF output.track_start = None THEN None ELSE output.track_start - k) \in Int
        BY <1>1, <2>2 DEF None
      <3> QED BY <2>1, <3>1
    <2>5. /\ output' \in OutputRec /\ output'.track_start = n /\ output'.heard = output.heard
          /\ output'.track_started = output.track_started
      BY <1>1, <2>4, Names DEF OutputRec
    <2>6. Plays(k)
      BY <2>2, <2>3, <2>4, <2>5 DEF Plays
    <2> QED BY <1>1, <1>2, <2>2, <2>3, <2>5, <2>6 DEF Typed
  <1> QED BY <1>3, <1>4

LEMMA RenderKeeps ==
  ASSUME PlayerAssumption, Inv, Render
  PROVE  Inv'
  <1>p. SamePlan
    BY PlanKept DEF Inv, Typed, Next, Controller, Command, Pass
  <1>1. /\ Typed /\ Typed' /\ UNCHANGED <<stream, streambuf, decode, slim, server>>
        /\ ReachesStart \/ \E k \in Nat : Plays(k)
        /\ outputbuf # <<>>
    BY RenderIs DEF Inv, OutputbufInv
  <1>2. /\ Len(outputbuf) \in Nat /\ OutCap \in Nat /\ server.track \in Nat /\ output.track_start \in Int
        /\ \A i \in 1 .. Len(outputbuf) : outputbuf[i] \in Int
    <2>1. outputbuf \in Seq(Int) /\ server \in ServerRec /\ output \in OutputRec
      BY <1>1 DEF Typed
    <2>2. server.track \in Nat /\ output.track_start \in Int
      BY <2>1 DEF ServerRec, OutputRec
    <2> QED BY PlanIs, <2>1, <2>2 DEF PlayerAssumption
  <1>3. CommandInv' /\ StreamInv' /\ DecodeInv' /\ StreambufInv'
    BY <1>p, <1>1 DEF SamePlan, Inv, CommandInv, StreamInv, DecodeInv, StreambufInv, StreamOver, Ended, Over, Said, Flowing, Refused
  <1>4. output.track_start = None => output'.track_start = None
    BY <1>1 DEF ReachesStart, Plays, None
  <1>5. FlushInv'
    BY <1>1, <1>4 DEF Inv, FlushInv, StreamOver, Ended
  <1>6. CASE ReachesStart
    <2>1. /\ output.track_start # None /\ output'.track_start = None /\ outputbuf' = outputbuf
          /\ output'.heard = outputbuf[1] /\ 1 \in 1 .. Len(outputbuf)
      <3>1. Len(outputbuf) # 0
        BY <1>1 DEF Typed
      <3> QED BY <1>2, <1>6, <3>1 DEF ReachesStart, None
    <2>2. ~Fresh => outputbuf[1] = server.track
      BY <1>2, <1>6, <2>1 DEF Inv, OutputbufInv, ReachesStart
    <2>3. OutputbufInv'
      BY <1>p, <1>1, <2>1, <2>2 DEF SamePlan, Inv, OutputbufInv, Fresh, NoneLeft
    <2> QED BY <1>1, <1>3, <1>5, <2>3 DEF Inv
  <1>7. ASSUME NEW k \in Nat, Plays(k) PROVE Inv'
    <2>1. /\ Len(outputbuf') = Len(outputbuf) - k /\ k <= Len(outputbuf) /\ Len(outputbuf') \in Nat
          /\ output'.heard = output.heard
          /\ output.track_start # None => k <= output.track_start
          /\ output'.track_start = (IF output.track_start = None THEN None ELSE output.track_start - k)
          /\ Fresh' = Fresh
      BY <1>1, <1>2, <1>7 DEF Plays, Fresh
    <2>2. ASSUME NEW i \in 1 .. Len(outputbuf')
          PROVE  i + k \in 1 .. Len(outputbuf) /\ outputbuf'[i] = outputbuf[i + k]
      BY <1>2, <1>7, <2>1 DEF Plays
    <2>3. NoneLeft => NoneLeft'
      BY <1>1, <2>2 DEF NoneLeft
    <2>4. Len(outputbuf') <= OutCap /\ \A i \in 1 .. Len(outputbuf') : outputbuf'[i] <= server.track
      BY <1>2, <2>1, <2>2 DEF Inv, OutputbufInv
    <2>5. output'.track_start \in {None} \cup 0 .. Len(outputbuf')
      BY <1>2, <2>1 DEF Inv, OutputbufInv, None
    <2>6. output'.track_start # None <=> output.track_start # None
      BY <1>2, <2>1 DEF None
    <2>7. ASSUME ~Fresh, output.track_start # None
          PROVE  \A i \in 1 .. Len(outputbuf') : outputbuf'[i] = server.track <=> i > output'.track_start
      <3>1. \A i \in 1 .. Len(outputbuf) : outputbuf[i] = server.track <=> i > output.track_start
        BY <2>7 DEF Inv, OutputbufInv
      <3>2. output'.track_start = output.track_start - k
        BY <2>1, <2>7
      <3> QED BY <1>2, <2>2, <3>1, <3>2
    <2>8. Fresh => NoneLeft'
      BY <2>3 DEF Inv, OutputbufInv
    <2>9. ~Fresh /\ output.track_start = None =>
             output.heard = server.track \/ (NoneLeft' /\ decode.state = "STOPPED")
      BY <2>3 DEF Inv, OutputbufInv
    <2>10. OutputbufInv'
      BY <1>p, <1>1, <2>1, <2>4, <2>5, <2>6, <2>7, <2>8, <2>9 DEF SamePlan, OutputbufInv
    <2> QED BY <1>1, <1>3, <1>5, <2>10 DEF Inv
  <1> QED BY <1>1, <1>6, <1>7

LEMMA StreamThreadKeeps ==
  ASSUME PlayerAssumption, Inv, StreamThread
  PROVE  Inv'
  <1>p. SamePlan
    BY PlanKept DEF Inv, Typed, Next, Controller, Command, Pass
  <1>1. /\ Typed /\ UNCHANGED <<decode, dt, output, outputbuf, slim, server>> /\ st' \in StRec
        /\ \/ UNCHANGED <<stream, streambuf>>
           \/ stream.fd # None /\ (Receives \/ GivesUp \/ Moves)
    BY StreamThreadIs DEF Inv
  <1>2. stream \in StreamRec /\ streambuf \in Seq(Int)
    BY <1>1 DEF Typed
  <1>3. DecodeInv' /\ OutputbufInv'
    BY <1>p, <1>1 DEF SamePlan, Inv, DecodeInv, OutputbufInv, Fresh, NoneLeft, Said
  <1>4. CASE UNCHANGED <<stream, streambuf>>
    BY <1>p, <1>1, <1>3, <1>4 DEF SamePlan, Inv, Typed, CommandInv, StreamInv, StreambufInv, FlushInv, StreamOver, Ended,
       Over, Said, Flowing, Refused
  <1>5. ASSUME stream.fd # None
        PROVE  /\ stream.fd = server.track /\ server.track > 0 /\ ~StreamOver /\ ~Refused
               /\ slim.pc \notin {"connect", "open"} /\ "STMf" \notin server.told /\ "STMd" \notin Said
               /\ decode.state # "COMPLETE" /\ server.track # 0
               /\ \A i \in 1 .. Len(streambuf) : streambuf[i] = server.track
    <2>1. stream.fd = server.track /\ server.track > 0 /\ ~StreamOver
      BY <1>5 DEF Inv, StreamInv, StreamOver
    <2>2. ~Refused /\ slim.pc \notin {"connect", "open"} /\ "STMf" \notin server.told
            /\ "STMd" \notin Said /\ decode.state # "COMPLETE"
      BY <2>1 DEF Inv, CommandInv, FlushInv, Refused, StreamInv
    <2> QED BY <1>1, <2>1, <2>2 DEF Inv, StreambufInv, Typed, ServerRec
  <1>6. ASSUME stream.fd # None, stream' \in StreamRec, streambuf' = streambuf,
               slim.stream_state = "DISCONNECT" => Ended',
               slim.stream_state \in Streaming \/ decode.state = "RUNNING" => Flowing',
               stream'.fd \in {None, stream.fd}, stream'.fd # None /\ Ended' => stream'.disconnect # "OK"
        PROVE  Inv'
    <2>1. Typed'
      BY <1>1, <1>6 DEF Typed
    <2>2. CommandInv'
      BY <1>1, <1>5, <1>6 DEF Inv, CommandInv, Over, Said
    <2>3. StreamInv'
      BY <1>1, <1>5, <1>6 DEF Inv, StreamInv, Said
    <2>4. StreambufInv'
      BY <1>p, <1>1, <1>5, <1>6 DEF SamePlan, Inv, StreambufInv
    <2>5. FlushInv'
      BY <1>1, <1>5, <1>6 DEF Inv, FlushInv
    <2> QED BY <1>3, <2>1, <2>2, <2>3, <2>4, <2>5 DEF Inv
  <1>7. CASE stream.fd # None /\ GivesUp
    <2>1. PICK state \in {"STOPPED", "DISCONNECT"}, reason \in {"OK", "LOCAL", "REMOTE"} :
             stream' = Disconnected(state, reason) /\ streambuf' = streambuf
      BY <1>7 DEF GivesUp
    <2>2. state \in States /\ reason \in Reasons
      BY <2>1, Names
    <2>3. stream' \in StreamRec /\ stream'.fd = None /\ stream'.state \in {"STOPPED", "DISCONNECT"}
      BY <1>1, <2>1, <2>2, DisconnectedIs
    <2> QED BY <1>6, <1>7, <2>1, <2>3 DEF Flowing, StreamOver, Ended
  <1>8. CASE stream.fd # None /\ Moves
    <2>0. stream.state \notin Streaming /\ ~Ended /\ ~Flowing /\ streambuf' = streambuf
      BY <1>5, <1>8 DEF Moves, Streaming, Ended, Flowing, StreamOver
    <2>1. slim.stream_state # "DISCONNECT" /\ slim.stream_state \notin Streaming /\ decode.state # "RUNNING"
      BY <2>0 DEF Inv, StreamInv
    <2>2. CASE stream' = [Disconnected("DISCONNECT", "LOCAL") EXCEPT !.fd = stream.fd]
      <3>1. PICK d \in StreamRec : /\ stream' = [d EXCEPT !.fd = stream.fd]
                                   /\ d.disconnect = "LOCAL" /\ d.state = "DISCONNECT"
        <4>1. "DISCONNECT" \in States /\ "LOCAL" \in Reasons
          BY Names
        <4> QED BY <1>1, <2>2, <4>1, DisconnectedIs
      <3>2. stream' \in StreamRec /\ stream'.fd = stream.fd /\ stream'.disconnect = "LOCAL"
        BY <1>2, <3>1 DEF StreamRec
      <3> QED BY <1>6, <1>8, <2>0, <2>1, <3>2
    <2>3. CASE stream' # [Disconnected("DISCONNECT", "LOCAL") EXCEPT !.fd = stream.fd]
      <3>1. PICK x \in {"RECV_HEADERS", "STREAMING_WAIT", "STREAMING_BUFFERING"} :
               stream' = [stream EXCEPT !.state = x]
        BY <1>8, <2>3 DEF Moves
      <3>2. stream' \in StreamRec /\ stream'.fd = stream.fd /\ stream'.state = x
        BY <1>2, <3>1, Names DEF StreamRec
      <3>3. ~Ended'
        BY <3>1, <3>2 DEF Ended
      <3> QED BY <1>6, <1>8, <2>0, <2>1, <3>2, <3>3
    <2> QED BY <2>2, <2>3
  <1>9. CASE stream.fd # None /\ Receives
    <2>0. PICK k \in Nat : k <= stream.left /\ k <= Room /\ Received(k)
      <3>1. PICK k \in 1 .. Lesser(Room, stream.left) : Received(k)
        BY <1>9 DEF Receives
      <3>2. /\ Lesser(Room, stream.left) \in Nat /\ Room \in Nat /\ stream.left \in Nat
            /\ Lesser(Room, stream.left) <= stream.left /\ Lesser(Room, stream.left) <= Room
        BY <1>1, <1>2, RoomIs DEF Inv, StreambufInv, StreamRec
      <3>3. k \in Nat /\ k <= stream.left /\ k <= Room
        BY <3>1, <3>2
      <3> QED BY <3>1, <3>3
    <2>1. /\ stream' \in StreamRec /\ streambuf' \in Seq(Int) /\ stream'.fd = stream.fd
          /\ stream.state \in {"STREAMING_BUFFERING"} \cup Streaming
          /\ stream'.state \in {stream.state, "STREAMING_HTTP"}
          /\ Len(streambuf') = Len(streambuf) + k
          /\ \A i \in 1 .. Len(streambuf') :
                streambuf'[i] = IF i <= Len(streambuf) THEN streambuf[i] ELSE stream.fd
      BY <1>1, <1>9, <2>0, ReceivedIs DEF Receives
    <2>2. ~Ended /\ ~Ended' /\ slim.stream_state # "DISCONNECT" /\ (Flowing => Flowing')
      BY <2>1 DEF Ended, Streaming, Flowing, StreamOver, Inv, StreamInv
    <2>3. Typed'
      BY <1>1, <2>1 DEF Typed
    <2>4. CommandInv'
      BY <1>1, <1>5, <1>9 DEF Inv, CommandInv, Over, Said
    <2>5. StreamInv'
      BY <1>1, <1>5, <1>9, <2>1, <2>2 DEF Inv, StreamInv, Said
    <2>6. StreambufInv'
      <3>1. Len(streambuf) \in Nat /\ StreamCap \in Nat /\ Room = StreamCap - Len(streambuf)
        BY PlanIs, <1>2 DEF Inv, Typed, Room
      <3>2. Len(streambuf') <= StreamCap
        BY <2>0, <2>1, <3>1
      <3>3. \A i \in 1 .. Len(streambuf') : streambuf'[i] = server.track
        BY <1>5, <1>9, <2>1, <3>1
      <3> QED BY <1>p, <1>1, <1>5, <1>9, <3>2, <3>3 DEF SamePlan, StreambufInv
    <2>7. FlushInv'
      BY <1>1, <1>5, <1>9 DEF Inv, FlushInv
    <2> QED BY <1>3, <2>3, <2>4, <2>5, <2>6, <2>7 DEF Inv
  <1> QED BY <1>1, <1>4, <1>7, <1>8, <1>9


\* The server sends command c.
Asks(c) ==
    /\ server.cmd = "none" /\ server'.cmd = c /\ server'.told = server.told
    /\ server'.track = server.track /\ server'.starts = server.starts /\ server'.ends = server.ends
    /\ c \in NewTrack => Over /\ server.track < Tracks
    /\ c = "codc" => decode.track # server.track /\ "STMf" \notin server.told
    /\ c \in {"q", "f"} => c \in Commands \/ server.told \cap {"STMn", "DSCO failed"} # {}
    /\ c \in {"p", "u"} => server.told # {}

LEMMA ServerIs ==
  ASSUME PlayerAssumption, Typed, Server
  PROVE  /\ UNCHANGED <<stream, streambuf, st, decode, dt, output, outputbuf, slim>> /\ Typed'
         /\ \E c \in Cmds : Asks(c)
  <1>1. PICK c \in Cmds :
           /\ Sends(c)
           /\ c \in NewTrack => Over /\ server.track < Tracks
           /\ c = "codc" => decode.track # server.track /\ "STMf" \notin server.told
           /\ c \in {"q", "f"} => c \in Commands \/ server.told \cap {"STMn", "DSCO failed"} # {}
           /\ c \in {"p", "u"} => server.told # {}
    <2>1. CASE Playlist
      <3>1. PICK kind \in Kinds : Sends(IF kind = "http" THEN "s" ELSE kind)
        BY <2>1 DEF Playlist
      <3>2. (IF kind = "http" THEN "s" ELSE kind) \in {"s", "file", "unknown"}
        BY <3>1, PlanIs DEF Typed
      <3>3. PICK c \in {"s", "file", "unknown"} : Sends(c)
        BY <3>1, <3>2
      <3>4. c \in Cmds /\ c \notin {"codc", "cont", "q", "f", "p", "u"} /\ Over /\ server.track < Tracks
        BY <2>1, <3>3 DEF Cmds, Playlist, Over
      <3> QED BY <3>3, <3>4
    <2>2. CASE Answer
      BY <2>2 DEF Answer, Cmds, NewTrack
    <2>3. CASE GiveUp
      BY <2>3 DEF GiveUp, Cmds, NewTrack
    <2>4. CASE Listener
      BY <2>4 DEF Listener, Cmds, NewTrack
    <2> QED BY <2>1, <2>2, <2>3, <2>4 DEF Server
  <1>2. server \in ServerRec /\ server' = [server EXCEPT !.cmd = c] /\ server.cmd = "none"
    BY <1>1 DEF Typed, Sends
  <1>3. /\ server' \in ServerRec /\ server'.cmd = c /\ server'.told = server.told
        /\ server'.track = server.track /\ server'.starts = server.starts /\ server'.ends = server.ends
    BY <1>1, <1>2 DEF ServerRec
  <1>4. UNCHANGED <<stream, streambuf, st, decode, dt, output, outputbuf, slim>>
    BY <1>1 DEF Sends
  <1>5. Asks(c)
    BY <1>1, <1>2, <1>3 DEF Asks
  <1> QED BY <1>1, <1>3, <1>4, <1>5 DEF Typed

LEMMA ServerKeeps ==
  ASSUME PlayerAssumption, Inv, Server
  PROVE  Inv'
  <1>p. SamePlan
    BY PlanKept DEF Inv, Typed, Next, Controller, Command, Pass
  <1>1. PICK c \in Cmds : Asks(c)
    BY ServerIs DEF Inv
  <1>2. /\ UNCHANGED <<stream, streambuf, decode, output, outputbuf, slim>> /\ Typed'
        /\ server.cmd = "none" /\ server'.cmd = c /\ server'.told = server.told
        /\ server'.track = server.track /\ (c \in NewTrack => Over)
        /\ c = "codc" => decode.track # server.track /\ "STMf" \notin server.told
    BY <1>1, ServerIs DEF Asks, Inv
  <1>3. CommandInv'
    <2>1. slim.pc \notin FlushPcs /\ slim.pc \notin SetupPcs
      BY <1>2 DEF Inv, CommandInv, NewTrack
    <2> QED BY <1>2, <2>1 DEF Inv, CommandInv, SetupPcs, StreamOver, Ended, Over
  <1>4. StreamInv' /\ DecodeInv' /\ StreambufInv' /\ FlushInv'
    BY <1>p, <1>2 DEF SamePlan, Inv, StreamInv, DecodeInv, StreambufInv, FlushInv, StreamOver, Ended, Said, Flowing, Refused
  <1>5. OutputbufInv'
    BY <1>p, <1>2 DEF SamePlan, Inv, OutputbufInv, Fresh, NoneLeft
  <1> QED BY <1>2, <1>3, <1>4, <1>5 DEF Inv
-----------------------------------------------------------------------------
(* The invariant, and what follows from it.                                 *)

LEMMA InitIs ==
  ASSUME PlayerAssumption, Init
  PROVE  Inv
  <1>1. Typed
    <2>1. stream \in StreamRec /\ st \in StRec /\ decode \in DecodeRec /\ dt \in DtRec /\ output \in OutputRec
      BY Names DEF Init, StreamRec, StRec, DecodeRec, DtRec, OutputRec, None
    <2>2. slim \in SlimRec
      BY Names, PcNames DEF Init, SlimRec
    <2>3. server \in ServerRec
      <3>1. PICK plan \in Plans : server = [track |-> 0, cmd |-> "none", told |-> {}, starts |-> 0, ends |-> 0,
                                          plan |-> plan]
        BY DEF Init
      <3>2. "none" \in Cmds /\ {} \in SUBSET Messages
        BY CmdNames
      <3> QED BY <3>1, <3>2 DEF ServerRec
    <2> QED BY <2>1, <2>2, <2>3 DEF Init, Typed
  <1>2. CommandInv /\ StreamInv /\ DecodeInv
    BY DEF Init, CommandInv, StreamInv, DecodeInv, StreamOver, Ended, Over, Said, NewTrack, Flowing, Streaming,
       FlushPcs, SetupPcs, PassPcs
  <1>3. StreambufInv /\ OutputbufInv /\ FlushInv
    <2>1. StreamCap \in Nat /\ OutCap \in Nat
      BY <1>1, PlanIs DEF Typed
    <2> QED BY <2>1 DEF Init, StreambufInv, OutputbufInv, FlushInv, Fresh, NoneLeft, None
  <1> QED BY <1>1, <1>2, <1>3 DEF Inv

LEMMA InvKept ==
  ASSUME PlayerAssumption, Inv, [Next]_vars
  PROVE  Inv'
  <1>1. CASE UNCHANGED vars
    BY <1>1, PlanKept DEF SamePlan, vars, Inv, Typed, CommandInv, StreamInv, DecodeInv, StreambufInv, OutputbufInv, FlushInv,
       StreamOver, Ended, Over, Said, Flowing, Refused, Fresh, NoneLeft
  <1> QED BY <1>1, StreamThreadKeeps, DecodeThreadKeeps, RenderKeeps, PassKeeps, CommandKeeps, ServerKeeps
          DEF Next, Controller

LEMMA InvAlways ==
  ASSUME PlayerAssumption
  PROVE  Spec => []Inv
  <1>1. Init => Inv
    BY InitIs
  <1>2. Inv /\ [Next]_vars => Inv'
    BY InvKept
  <1> QED BY <1>1, <1>2, PTL DEF Spec

LEMMA Bounded ==
  ASSUME Inv
  PROVE  TypeOK
  <1>1. output.state \in {"STOPPED", "BUFFER", "RUNNING"}
          /\ decode.state \in {"STOPPED", "READY", "RUNNING", "COMPLETE", "ERROR"}
    BY DEF Inv, Typed, OutputRec, DecodeRec, OutputStates, DecodeStates
  <1> QED BY <1>1 DEF Inv, StreambufInv, OutputbufInv, StreamInv, TypeOK

\* The buffers stay within their bounds although the space is measured in one critical section and
\* used in another, track_start stays inside outputbuf (output.c), and the socket is that of the
\* last strm s, whatever the server commands and whatever fails.
THEOREM BoundsHold == ASSUME PlayerAssumption PROVE Spec => []TypeOK
  <1>1. Inv => TypeOK
    BY Bounded
  <1> QED BY <1>1, InvAlways, PTL

\* Once a flush (strm q or f, slimproto.c) is reported, outputbuf holds nothing of a track that was
\* not heard yet, whatever the stream and decode threads were about to do, and the bounds hold.
THEOREM FlushHolds == ASSUME PlayerAssumption PROVE Spec => []FlushedIsGone
  <1>1. Inv => FlushedIsGone
    BY Bounded DEF Inv, FlushInv, OutputbufInv, NoneLeft, FlushedIsGone
  <1> QED BY <1>1, InvAlways, PTL
-----------------------------------------------------------------------------
(* While the tracks play on.                                                *)

\* No command of the flush is under way.
LEMMA NoFlush ==
  ASSUME Inv, SoundInv
  PROVE  slim.pc \notin FlushPcs /\ "STMf" \notin Said /\ "STMn" \notin Said /\ "DSCO failed" \notin Said
  BY DEF Inv, CommandInv, SoundInv

LEMMA ServerPlaysOn ==
  ASSUME PlayerAssumption, PlaysOn, Inv, PlaysOnInv, Server
  PROVE  PlaysOnInv' /\ UNCHANGED ReportsSpec!vars
  <1>1. PICK c \in Cmds : Asks(c)
    BY ServerIs DEF Inv
  <1>2. /\ UNCHANGED <<stream, streambuf, st, decode, output, outputbuf, slim>>
        /\ server'.cmd = c /\ server'.told = server.told /\ server.cmd = "none"
        /\ server'.track = server.track /\ server'.starts = server.starts /\ server'.ends = server.ends
        /\ c \notin {"q", "f"} /\ (c \in NewTrack => server.track < Tracks)
        /\ c \in {"p", "u"} => server.told # {}
    <2>1. c \in {"q", "f"} => c \in Commands \/ server.told \cap {"STMn", "DSCO failed"} # {}
      BY <1>1 DEF Asks
    <2>2. "STMn" \notin server.told /\ "DSCO failed" \notin server.told
      BY NoFlush DEF PlaysOnInv, Said
    <2>3. c \notin {"q", "f"}
      BY <2>1, <2>2 DEF PlaysOn
    <2> QED BY <1>1, <2>3, ServerIs DEF Inv, Asks
  <1>3. SoundInv'
    BY <1>2 DEF PlaysOnInv, SoundInv, Said, Ended
  <1>4. LengthInv'
    BY <1>2 DEF PlaysOnInv, LengthInv, Said, Ended, Done
  <1>5. LateInv'
    <2>1. slim.pc \notin {"connect", "open"}
      BY <1>2 DEF Inv, CommandInv, SetupPcs, NewTrack
    <2> QED BY <1>2, <2>1 DEF PlaysOnInv, LateInv
  <1>6. TurnInv'
    <2>1. server.told # {} => server.track > 0
      <3>1. server.track \in Nat
        BY DEF Inv, Typed, ServerRec
      <3> QED BY <3>1 DEF PlaysOnInv, OnceInv, Said
    <2> QED BY <1>2, <2>1 DEF PlaysOnInv, TurnInv
  <1>7. OnceInv'
    BY <1>2 DEF PlaysOnInv, OnceInv, Said, Fresh
  <1>8. UNCHANGED ReportsSpec!vars
    BY <1>2 DEF ReportsSpec!vars
  <1> QED BY <1>3, <1>4, <1>5, <1>6, <1>7, <1>8 DEF PlaysOnInv

LEMMA RenderPlaysOn ==
  ASSUME PlayerAssumption, PlaysOn, Inv, PlaysOnInv, Render
  PROVE  PlaysOnInv' /\ UNCHANGED ReportsSpec!vars
  <1>1. /\ Typed /\ Typed' /\ UNCHANGED <<stream, streambuf, st, decode, slim, server>>
        /\ ReachesStart \/ \E k \in Nat : Plays(k)
        /\ outputbuf # <<>> /\ output.state # "STOPPED"
    BY RenderIs DEF Inv, OutputbufInv
  <1>2. SoundInv' /\ LengthInv' /\ LateInv' /\ TurnInv' /\ UNCHANGED ReportsSpec!vars
    <2>1. SoundInv' /\ LengthInv' /\ TurnInv' /\ UNCHANGED ReportsSpec!vars
      BY <1>1 DEF PlaysOnInv, SoundInv, LengthInv, TurnInv, Said, Ended, Done, ReportsSpec!vars
    <2>2. LateInv'
      BY <1>1 DEF PlaysOnInv, LateInv
    <2> QED BY <2>1, <2>2
  <1>3. Fresh' = Fresh /\ Said' = Said /\ server.track # 0
    BY <1>1 DEF Fresh, Said, PlaysOnInv, OnceInv
  <1>4. CASE ReachesStart
    <2>1. output.track_start # None /\ output'.track_start = None /\ output'.track_started = TRUE
      BY <1>4 DEF ReachesStart, None
    <2>2. ~Fresh /\ "STMs" \notin Said
      BY <2>1 DEF PlaysOnInv, OnceInv
    <2>3. output'.heard = server.track
      <3>1. 1 \in 1 .. Len(outputbuf) /\ 1 > 0
        BY <1>1 DEF Typed
      <3> QED BY <1>4, <2>1, <2>2, <3>1 DEF Inv, OutputbufInv, ReachesStart
    <2>4. OnceInv'
      BY <1>1, <1>3, <2>1, <2>2, <2>3 DEF PlaysOnInv, OnceInv
    <2> QED BY <1>2, <2>4 DEF PlaysOnInv
  <1>5. ASSUME NEW k \in Nat, Plays(k) PROVE PlaysOnInv'
    <2>1. /\ output'.track_started = output.track_started /\ output'.heard = output.heard
          /\ output'.track_start = (IF output.track_start = None THEN None ELSE output.track_start - k)
          /\ Len(outputbuf') = Len(outputbuf) - k
          /\ output.track_start # None => k <= output.track_start
      BY <1>5 DEF Plays
    <2>2. PICK l \in Nat : l = Len(outputbuf)
      BY <1>1 DEF Typed
    <2>3. /\ output'.track_start = None <=> output.track_start = None
          /\ output.track_start # None =>
                Len(outputbuf') - output'.track_start = Len(outputbuf) - output.track_start
      <3>1. CASE output.track_start = None
        BY <2>1, <3>1
      <3>2. CASE output.track_start # None
        <4>1. PICK t \in Nat : t = output.track_start
          BY <1>1, <3>2 DEF Inv, OutputbufInv, Typed
        <4>2. output'.track_start = t - k /\ Len(outputbuf') = l - k /\ k <= t
          BY <2>1, <2>2, <3>2, <4>1
        <4>3. output'.track_start # None /\ Len(outputbuf') - output'.track_start = l - t
          BY <4>1, <4>2 DEF None
        <4> QED BY <2>2, <3>2, <4>1, <4>3
      <3> QED BY <3>1, <3>2
    <2>4. OnceInv'
      BY <1>1, <1>3, <2>1, <2>3 DEF PlaysOnInv, OnceInv
    <2> QED BY <1>2, <2>4 DEF PlaysOnInv
  <1> QED BY <1>1, <1>2, <1>4, <1>5


LEMMA PassSPlaysOn ==
  ASSUME PlayerAssumption, PlaysOn, Inv, PlaysOnInv, PassS
  PROVE  PlaysOnInv' /\ UNCHANGED ReportsSpec!vars
  <1>1. /\ slim.pc = "idle" /\ slim'.pc = "D" /\ slim'.stream_state = stream.state
        /\ slim'.say \subseteq {"DSCO", "DSCO failed", "RESP"} /\ "DSCO failed" \notin slim'.say
        /\ slim'.autostart = slim.autostart /\ slim'.sentSTMu = slim.sentSTMu
        /\ slim'.missed = (slim.missed \/ (stream.state = "DISCONNECT" /\ decode.track # server.track))
        /\ slim'.start = slim.start /\ slim'.close = slim.close
        /\ stream'.state = (IF stream.state = "DISCONNECT" THEN "STOPPED" ELSE stream.state)
        /\ stream'.fd = stream.fd /\ stream'.disconnect = stream.disconnect
        /\ stream'.left = stream.left /\ stream'.cont_wait = stream.cont_wait
        /\ UNCHANGED <<streambuf, st, decode, dt, output, outputbuf, server>>
    BY PassSIs DEF Inv, PlaysOnInv, SoundInv
  <1>2. slim.say = {} /\ ~slim.close
    BY <1>1 DEF PlaysOnInv, TurnInv, PassPcs
  <1>3. SoundInv'
    BY <1>1, <1>2 DEF PlaysOnInv, SoundInv, Said, Ended
  <1>4. LengthInv'
    BY <1>1, <1>2 DEF PlaysOnInv, LengthInv, Said, Ended, Done
  <1>5. LateInv'
    BY <1>1 DEF PlaysOnInv, LateInv, PassPcs
  <1>6. TurnInv'
    BY <1>1, <1>2 DEF PlaysOnInv, TurnInv, SetupPcs, PassPcs
  <1>7. OnceInv'
    <2>1. {"STMs", "STMd", "STMu"} \cap slim'.say = {}
      BY <1>1
    <2>2. \A m \in {"STMs", "STMd", "STMu"} : m \in Said' <=> m \in Said
      BY <1>1, <1>2, <2>1 DEF Said
    <2>3. server.track = 0 => Said' = {}
      <3>1. ASSUME server.track = 0 PROVE slim'.say = {} /\ server.told = {}
        <4>1. stream.state = "STOPPED" /\ server.told = {}
          BY <3>1 DEF PlaysOnInv, OnceInv, Said
        <4>2. slim'.say = {}
          BY <4>1 DEF PassS, DisconnectReport
        <4> QED BY <4>1, <4>2
      <3> QED BY <1>1, <3>1 DEF Said
    <2> QED BY <1>1, <1>2, <2>1, <2>2, <2>3 DEF PlaysOnInv, OnceInv, Fresh
  <1>8. UNCHANGED ReportsSpec!vars
    BY <1>1 DEF ReportsSpec!vars
  <1> QED BY <1>3, <1>4, <1>5, <1>6, <1>7, <1>8 DEF PlaysOnInv

LEMMA PassDPlaysOn ==
  ASSUME PlayerAssumption, PlaysOn, Inv, PlaysOnInv, PassD
  PROVE  PlaysOnInv' /\ UNCHANGED ReportsSpec!vars
  <1>1. /\ slim.pc = "D" /\ slim'.pc = "O" /\ (Starts \/ Finds \/ Leaves)
        /\ slim'.stream_state = slim.stream_state /\ slim'.decode_state = decode'.state
        /\ slim'.autostart = slim.autostart /\ slim'.missed = slim.missed /\ slim'.sentSTMu = slim.sentSTMu
        /\ decode'.new_stream = decode.new_stream /\ decode'.track = decode.track
        /\ decode'.done = decode.done
        /\ UNCHANGED <<stream, streambuf, st, output, outputbuf, server>>
    BY PassDIs DEF Inv
  <1>2. \/ /\ decode.state \notin {"STOPPED", "COMPLETE"} /\ decode'.state \notin {"STOPPED", "COMPLETE", "ERROR"}
           /\ slim'.say \in {slim.say, slim.say \cup {"STMl"}} /\ ~slim'.close
        \/ /\ decode.state = "COMPLETE" /\ decode'.state = "STOPPED" /\ ~slim'.start
           /\ slim'.say = slim.say \cup {"STMd"}
        \/ /\ decode.state = "STOPPED" /\ decode'.state = "STOPPED" /\ ~slim'.start /\ ~slim'.close
           /\ slim'.say = slim.say
    <2>1. decode.state # "ERROR"
      BY DEF PlaysOnInv, SoundInv
    <2>2. CASE Starts
      BY <2>1, <2>2 DEF Starts
    <2>3. CASE Finds
      BY <2>1, <2>3 DEF Finds
    <2>4. CASE Leaves
      BY <2>1, <2>4 DEF Leaves
    <2> QED BY <1>1, <2>2, <2>3, <2>4
  <1>9. /\ decode.state # "STOPPED" => decode.track = server.track /\ server.track # 0 /\ "STMd" \notin Said
        /\ decode.state = "COMPLETE" => decode.done = TrackLen
    BY DEF Inv, DecodeInv, PlaysOnInv, LengthInv
  <1>10. /\ Said \subseteq Said' /\ Said' \subseteq Said \cup {"STMl", "STMd"}
         /\ decode.state = "STOPPED" => Said' = Said
         /\ "STMd" \in Said' <=> "STMd" \in Said \/ decode.state = "COMPLETE"
         /\ "STMs" \in Said' <=> "STMs" \in Said
         /\ "STMu" \in Said' <=> "STMu" \in Said
         /\ "STMu" \in slim'.say <=> "STMu" \in slim.say
    BY <1>1, <1>2, <1>9 DEF Said
  <1>3. SoundInv'
    BY <1>1, <1>2, <1>10 DEF PlaysOnInv, SoundInv, Ended
  <1>4. LengthInv'
    BY <1>1, <1>2, <1>9, <1>10 DEF PlaysOnInv, LengthInv, Ended, Done
  <1>5. LateInv'
    BY <1>1 DEF PlaysOnInv, LateInv, PassPcs
  <1>6. TurnInv'
    BY <1>1 DEF PlaysOnInv, TurnInv, SetupPcs, PassPcs
  <1>7. OnceInv'
    <2>1. slim'.say \cap server'.told \cap {"STMs", "STMd", "STMu"} = {}
      BY <1>1, <1>2, <1>9 DEF PlaysOnInv, OnceInv, Said
    <2>2. server.track = 0 => ~slim'.start
      BY <1>2, <1>9
    <2> QED BY <1>1, <1>2, <1>9, <1>10, <2>1, <2>2 DEF PlaysOnInv, OnceInv, Fresh, PassPcs
  <1>8. UNCHANGED ReportsSpec!vars
    BY <1>1 DEF ReportsSpec!vars
  <1> QED BY <1>3, <1>4, <1>5, <1>6, <1>7, <1>8 DEF PlaysOnInv


\* Everything was played once nothing of the last track is left to decode or to hear.
LEMMA UnderrunIs ==
  ASSUME PlayerAssumption, PlaysOn, Inv, PlaysOnInv, slim.pc = "O", Underrun
  PROVE  /\ "STMd" \in Said /\ "STMu" \notin Said
         /\ output.track_started \/ "STMs" \in Said
  <1>1. /\ output.state = "RUNNING" /\ outputbuf = <<>> /\ ~slim.sentSTMu
        /\ slim.stream_state \in {"STOPPED", "DISCONNECT"} /\ slim.decode_state = "STOPPED"
    BY DEF Underrun
  <1>2. decode.state = "STOPPED" /\ server.track # 0 /\ server.track > 0
    <2>1. server.track \in Nat
      BY DEF Inv, Typed, ServerRec
    <2> QED BY <1>1, <2>1 DEF PlaysOnInv, OnceInv
  <1>3. decode.track = server.track
    BY <1>1 DEF PlaysOn, PlaysOnInv, LateInv, PassPcs
  <1>4. "STMd" \in Said /\ decode.done = TrackLen /\ "STMu" \notin Said
    BY <1>1, <1>2, <1>3 DEF PlaysOnInv, OnceInv, LengthInv
  <1>5. ~Fresh
    <2>1. TrackLen # 0
      BY DEF PlayerAssumption
    <2> QED BY <1>3, <1>4, <2>1 DEF PlaysOnInv, LengthInv, Fresh
  <1>6. output.track_start = None
    <2>1. Len(outputbuf) = 0
      BY <1>1
    <2>2. output.track_start # None => 0 - output.track_start = TrackLen /\ output.track_start \in 0 .. 0
      BY <1>4, <1>5, <2>1 DEF PlaysOnInv, OnceInv, Inv, OutputbufInv
    <2> QED BY <2>2 DEF PlayerAssumption
  <1> QED BY <1>4, <1>5, <1>6 DEF PlaysOnInv, OnceInv

LEMMA PassOPlaysOn ==
  ASSUME PlayerAssumption, PlaysOn, Inv, PlaysOnInv, PassO
  PROVE  PlaysOnInv' /\ UNCHANGED ReportsSpec!vars
  <1>1. /\ slim.pc = "O" /\ slim'.pc = (IF slim.close THEN "close" ELSE "send")
        /\ slim'.sentSTMu = (slim.sentSTMu \/ Underrun)
        /\ slim'.stream_state = slim.stream_state /\ slim'.decode_state = slim.decode_state
        /\ slim'.autostart = slim.autostart /\ slim'.missed = slim.missed /\ slim'.start = slim.start /\ slim'.close = slim.close
        /\ output'.track_start = output.track_start /\ output'.heard = output.heard
        /\ output'.track_started = FALSE
        /\ output'.state # "STOPPED" => output.state # "STOPPED" \/ slim.start
        /\ UNCHANGED <<stream, streambuf, st, decode, dt, outputbuf, server>>
        /\ Typed
    BY PassOIs DEF Inv
  <1>2. PICK more \in SUBSET {"STMo"} :
               slim'.say = slim.say \cup (IF output.track_started THEN {"STMs"} ELSE {})
                             \cup (IF Underrun THEN {"STMu"} ELSE {}) \cup more
    BY PassOIs DEF Inv
  <1>9. /\ Underrun => "STMd" \in Said /\ "STMu" \notin Said
        /\ Underrun => output.track_started \/ "STMs" \in Said
        /\ output.track_started => "STMs" \notin Said
    BY <1>1, UnderrunIs DEF PlaysOnInv, OnceInv
  <1>10. /\ Said \subseteq Said' /\ Said' \subseteq Said \cup {"STMs", "STMu", "STMo"}
         /\ "STMd" \in Said' <=> "STMd" \in Said
         /\ "STMs" \in Said' <=> "STMs" \in Said \/ output.track_started
         /\ "STMu" \in Said' <=> "STMu" \in Said \/ Underrun
         /\ "STMu" \in slim'.say <=> "STMu" \in slim.say \/ Underrun
    <2> HIDE DEF Underrun
    <2> QED BY <1>1, <1>2 DEF Said
  <1>3. SoundInv'
    BY <1>1, <1>10 DEF PlaysOnInv, SoundInv, Ended
  <1>4. LengthInv'
    BY <1>1, <1>10 DEF PlaysOnInv, LengthInv, Ended, Done
  <1>5. LateInv'
    BY <1>1 DEF PlaysOnInv, LateInv, PassPcs
  <1>6. TurnInv'
    BY <1>1 DEF PlaysOnInv, TurnInv, SetupPcs, PassPcs
  <1>7. OnceInv'
    <2>1. slim'.say \cap server'.told \cap {"STMs", "STMd", "STMu"} = {}
      BY <1>1, <1>2, <1>9 DEF PlaysOnInv, OnceInv, Said
    <2>2. server.track = 0 => /\ ~Underrun /\ more = {} /\ ~output.track_started /\ slim.say = {}
                              /\ server.told = {} /\ output'.state = "STOPPED" /\ ~slim.start
      <3>1. ASSUME server.track = 0
            PROVE  /\ output.state = "STOPPED" /\ ~slim.start /\ slim.say = {} /\ server.told = {}
                   /\ Fresh
        BY <3>1 DEF PlaysOnInv, OnceInv, Said
      <3>2. ASSUME server.track = 0 PROVE ~Underrun /\ ~output.track_started /\ output'.state = "STOPPED"
        BY <1>1, <3>1, <3>2 DEF PlaysOnInv, OnceInv, Underrun
      <3>3. ASSUME server.track = 0 PROVE more = {}
        <4>1. output.state = "STOPPED" /\ ~slim.start /\ slim.say = {} /\ slim \in SlimRec
          BY <1>1, <3>1, <3>3 DEF Typed
        <4>2. "STMo" \notin slim'.say
          BY <4>1 DEF PassO, SlimRec
        <4> QED BY <1>2, <4>2
      <3> QED BY <3>1, <3>2, <3>3
    <2>3. server.track = 0 => Said' = {}
      BY <1>1, <1>2, <2>2 DEF Said
    <2>4. "STMu" \in slim'.say => {"STMs", "STMd"} \subseteq Said'
      BY <1>9, <1>10 DEF PlaysOnInv, OnceInv
    <2> HIDE DEF Underrun
    <2> QED BY <1>1, <1>9, <1>10, <2>1, <2>2, <2>3, <2>4 DEF PlaysOnInv, OnceInv, Fresh, PassPcs
  <1>8. UNCHANGED ReportsSpec!vars
    BY <1>1 DEF ReportsSpec!vars
  <1> QED BY <1>3, <1>4, <1>5, <1>6, <1>7, <1>8 DEF PlaysOnInv

LEMMA PassClosePlaysOn ==
  ASSUME PlayerAssumption, PlaysOn, Inv, PlaysOnInv, PassClose
  PROVE  PlaysOnInv' /\ UNCHANGED ReportsSpec!vars
  <1>1. /\ slim.pc = "close" /\ slim'.pc = "send" /\ slim'.say = slim.say
        /\ slim'.stream_state = slim.stream_state /\ slim'.decode_state = slim.decode_state
        /\ slim'.autostart = slim.autostart /\ slim'.missed = slim.missed /\ slim'.start = slim.start /\ slim'.close = slim.close
        /\ slim'.sentSTMu = slim.sentSTMu
        /\ stream'.state = "STOPPED" /\ stream'.fd = None /\ stream'.disconnect = stream.disconnect
        /\ stream'.left = stream.left /\ stream'.cont_wait = stream.cont_wait
        /\ UNCHANGED <<streambuf, st, decode, dt, output, outputbuf, server>>
    BY PassCloseIs DEF Inv
  <1>2. "STMd" \in Said /\ decode.track = server.track /\ Ended /\ stream.fd = None
    <2>1. "STMd" \in Said
      BY <1>1 DEF PlaysOnInv, OnceInv, PassPcs
    <2> QED BY <2>1 DEF Inv, DecodeInv, StreamInv, StreamOver
  <1>3. SoundInv'
    BY <1>1, <1>2 DEF PlaysOnInv, SoundInv, Said, Ended
  <1>4. LengthInv'
    BY <1>1, <1>2 DEF PlaysOnInv, LengthInv, Said, Ended, Done
  <1>5. LateInv'
    BY <1>1, <1>2 DEF PlaysOnInv, LateInv
  <1>6. TurnInv'
    BY <1>1 DEF PlaysOnInv, TurnInv, SetupPcs, PassPcs
  <1>7. OnceInv'
    BY <1>1 DEF PlaysOnInv, OnceInv, Said, Fresh, PassPcs
  <1>8. UNCHANGED ReportsSpec!vars
    BY <1>1 DEF ReportsSpec!vars
  <1> QED BY <1>3, <1>4, <1>5, <1>6, <1>7, <1>8 DEF PlaysOnInv


\* What has been played out is reported in the order of Reports.
LEMMA PassSendPlaysOn ==
  ASSUME PlayerAssumption, PlaysOn, Inv, PlaysOnInv, PassSend
  PROVE  PlaysOnInv' /\ (ReportsSpec!Next \/ UNCHANGED ReportsSpec!vars)
  <1>1. /\ slim.pc = "send" /\ (Ends \/ \E m \in Messages : SendsMessage(m))
        /\ slim'.autostart = slim.autostart /\ slim'.missed = slim.missed /\ slim'.sentSTMu = slim.sentSTMu
        /\ UNCHANGED <<stream, streambuf, st, decode, dt, output, outputbuf>>
        /\ Typed
    BY PassSendIs DEF Inv
  <1>2. CASE Ends
    <2>1. /\ slim.say = {} /\ slim'.pc = "idle" /\ slim'.say = {} /\ slim'.stream_state = "STOPPED"
          /\ ~slim'.start /\ ~slim'.close /\ server' = server /\ Said' = Said
      BY <1>2 DEF Ends, Said
    <2>2. SoundInv' /\ LengthInv'
      BY <1>1, <2>1 DEF PlaysOnInv, SoundInv, LengthInv, Ended, Done
    <2>3. LateInv'
      BY <1>1, <2>1 DEF PlaysOnInv, LateInv, PassPcs
    <2>4. TurnInv'
      <3>1. server.cmd \notin NewTrack \/ server.track < Tracks
        BY <1>1 DEF PlaysOnInv, TurnInv, SetupPcs
      <3> QED BY <2>1, <3>1 DEF PlaysOnInv, TurnInv
    <2>5. OnceInv'
      BY <1>1, <2>1 DEF PlaysOnInv, OnceInv, Fresh, PassPcs
    <2> QED BY <2>1, <2>2, <2>3, <2>4, <2>5 DEF PlaysOnInv, ReportsSpec!vars
  <1>3. ASSUME NEW m \in Messages, SendsMessage(m)
        PROVE  PlaysOnInv' /\ (ReportsSpec!Next \/ UNCHANGED ReportsSpec!vars)
    <2>1. /\ m \in slim.say /\ slim'.pc = "send" /\ slim'.say = slim.say \ {m}
          /\ m = "STMu" => "STMs" \notin slim.say /\ "STMd" \notin slim.say
          /\ slim'.stream_state = slim.stream_state /\ slim'.start = slim.start /\ slim'.close = slim.close
          /\ server'.told = server.told \cup {m} /\ server'.track = server.track /\ server'.cmd = server.cmd
          /\ server'.starts = server.starts + (IF m = "STMs" THEN 1 ELSE 0)
          /\ server'.ends = server.ends + (IF m = "STMd" THEN 1 ELSE 0)
          /\ Said' = Said
      BY <1>3 DEF SendsMessage, Said
    <2>2. m \in {"STMs", "STMd", "STMu"} => m \notin server.told
      BY <2>1 DEF PlaysOnInv, OnceInv
    <2>3. /\ server.track > 0 /\ server.track \in Nat
          /\ server.starts = server.track - 1 + One("STMs" \in server.told)
          /\ server.ends = server.track - 1 + One("STMd" \in server.told)
      <3>1. server.track # 0
        BY <2>1 DEF PlaysOnInv, OnceInv, Said
      <3>2. server.track > 0 /\ server.track \in Nat
        BY <1>1, <3>1 DEF Typed, ServerRec
      <3> QED BY <3>2 DEF PlaysOnInv, OnceInv
    <2>4. /\ server'.starts = server.track - 1 + One("STMs" \in server'.told)
          /\ server'.ends = server.track - 1 + One("STMd" \in server'.told)
      BY <2>1, <2>2, <2>3 DEF One
    <2>5. SoundInv' /\ LengthInv'
      BY <1>1, <2>1 DEF PlaysOnInv, SoundInv, LengthInv, Ended, Done
    <2>6. LateInv' /\ TurnInv'
      BY <1>1, <2>1 DEF PlaysOnInv, LateInv, TurnInv, PassPcs, SetupPcs
    <2>7. OnceInv'
      BY <1>1, <2>1, <2>3, <2>4 DEF PlaysOnInv, OnceInv, Fresh, PassPcs
    <2>8. ReportsSpec!Next \/ UNCHANGED ReportsSpec!vars
      <3>1. CASE m = "STMs"
        <4>1. /\ server.starts = server.track - 1 /\ server'.starts = server.starts + 1
              /\ server'.ends = server.ends /\ server'.track = server.track
              /\ ("STMu" \in server.told)' = ("STMu" \in server.told)
          BY <2>1, <2>2, <2>3, <3>1 DEF One
        <4> QED BY <2>3, <4>1 DEF ReportsSpec!Next, ReportsSpec!STMs
      <3>2. CASE m = "STMd"
        <4>1. /\ server.ends = server.track - 1 /\ server'.ends = server.ends + 1
              /\ server'.starts = server.starts /\ server'.track = server.track
              /\ ("STMu" \in server.told)' = ("STMu" \in server.told)
          BY <2>1, <2>2, <2>3, <3>2 DEF One
        <4> QED BY <2>3, <4>1 DEF ReportsSpec!Next, ReportsSpec!STMd
      <3>3. CASE m = "STMu"
        <4>1. {"STMs", "STMd"} \subseteq server.told
          BY <2>1, <3>3 DEF PlaysOnInv, OnceInv, Said
        <4>2. server.starts = server.track /\ server.ends = server.track
          BY <2>3, <4>1 DEF One
        <4>3. server'.starts = server.starts /\ server'.ends = server.ends
          BY <2>1, <2>3, <3>3, <4>2
        <4>4. ("STMu" \in server.told)' = TRUE /\ "STMu" \notin server.told
          BY <2>1, <2>2, <3>3
        <4> QED BY <2>1, <2>3, <4>2, <4>3, <4>4 DEF ReportsSpec!Next, ReportsSpec!STMu, ReportsSpec!Complete
      <3>4. CASE m \notin {"STMs", "STMd", "STMu"}
        <4>1. server'.starts = server.starts /\ server'.ends = server.ends
          BY <2>1, <2>3, <2>4, <3>4 DEF One
        <4>2. ("STMu" \in server.told)' = ("STMu" \in server.told)
          BY <2>1, <3>4
        <4> QED BY <2>1, <4>1, <4>2 DEF ReportsSpec!vars
      <3> QED BY <3>1, <3>2, <3>3, <3>4
    <2> QED BY <2>5, <2>6, <2>7, <2>8 DEF PlaysOnInv
  <1> QED BY <1>1, <1>2, <1>3

\* The server's next track is a step of Reports, taken once the last one is reported.
LEMMA OpenCodecPlaysOn ==
  ASSUME PlayerAssumption, PlaysOn, Inv, PlaysOnInv, OpenCodec
  PROVE  PlaysOnInv' /\ ReportsSpec!Next
  <1>1. server \in ServerRec /\ slim \in SlimRec /\ server.track \in Nat /\ decode.track \in Nat
    BY DEF Inv, Typed, ServerRec, DecodeRec
  <1>2. /\ slim.pc = "idle" /\ server.cmd \in NewTrack /\ server'.cmd = server.cmd /\ server'.told = {}
        /\ server'.track = server.track + 1
        /\ server'.starts = server.starts /\ server'.ends = server.ends
        /\ IF server.cmd = "unknown" THEN decode' = decode
           ELSE decode'.state = "READY" /\ decode'.new_stream /\ decode'.track = server'.track /\ decode'.done = 0
        /\ UNCHANGED <<stream, streambuf, st, output, outputbuf>>
    BY <1>1 DEF OpenCodec, CodecOpened, ServerRec, NewTrack
  <1>3. \E n : slim' = [slim EXCEPT !.pc = "connect", !.say = {}, !.autostart = n]
    BY DEF OpenCodec
  <1>4. /\ slim'.pc = "connect" /\ slim'.say = {} /\ slim'.start = slim.start /\ slim'.close = slim.close
        /\ slim'.stream_state = slim.stream_state /\ slim'.decode_state = slim.decode_state
        /\ slim'.sentSTMu = slim.sentSTMu /\ slim'.missed = slim.missed
    BY <1>1, <1>3 DEF SlimRec
  <1>5. /\ server.track < Tracks /\ slim.say = {} /\ ~slim.close /\ Over
        /\ server.track = 0 \/ {"STMs", "STMd"} \subseteq server.told
    <2>1. slim.pc \notin SetupPcs /\ slim.pc \notin PassPcs
      BY <1>2 DEF SetupPcs, PassPcs
    <2>2. Over /\ "STMf" \notin server.told
      BY <1>2, <2>1, NoFlush DEF Inv, CommandInv, PlaysOnInv, Said
    <2> QED BY <1>2, <2>1, <2>2 DEF PlaysOnInv, TurnInv, Over
  <1>6. /\ decode.state = "STOPPED" /\ StreamOver /\ decode.track <= server.track
        /\ ~output.track_started /\ output.track_start = None
        /\ server.starts = server.track /\ server.ends = server.track
    <2>1. decode.state = "STOPPED" /\ StreamOver /\ decode.track <= server.track
      BY <1>5, OverIs DEF Inv, DecodeInv
    <2>2. CASE server.track = 0
      <3>1. /\ Said = {} /\ Fresh /\ server.starts = 0 /\ server.ends = 0
        BY <2>2 DEF PlaysOnInv, OnceInv
      <3>2. output.track_start = None /\ ~output.track_started
        BY <3>1 DEF PlaysOnInv, OnceInv
      <3> QED BY <2>1, <2>2, <3>1, <3>2
    <2>3. CASE server.track # 0
      <3>1. {"STMs", "STMd"} \subseteq server.told /\ server.track > 0
        BY <1>1, <1>5, <2>3
      <3>2. server.starts = server.track /\ server.ends = server.track
        BY <1>1, <3>1 DEF PlaysOnInv, OnceInv, One
      <3> QED BY <2>1, <3>1, <3>2 DEF PlaysOnInv, OnceInv, Said
    <2> QED BY <2>1, <2>2, <2>3
  <1>7. /\ Said' = {} /\ Fresh' /\ server'.track > 0 /\ server'.track - 1 = server.track
        /\ decode'.state # "COMPLETE" /\ decode'.state # "ERROR"
        /\ decode'.state = "STOPPED" => decode'.track # server'.track
        /\ decode'.track # server'.track => server.cmd = "unknown"
        /\ decode'.new_stream => decode'.done = 0
    <2>1. decode.new_stream => decode.done = 0
      BY DEF PlaysOnInv, LengthInv
    <2>2. decode.track # server.track + 1
      BY <1>1, <1>6
    <2> QED BY <1>1, <1>2, <1>4, <1>6, <2>1, <2>2 DEF Said, Fresh
  <1>8. SoundInv'
    BY <1>2, <1>4, <1>7 DEF PlaysOnInv, SoundInv, Ended, NewTrack
  <1>9. LengthInv'
    BY <1>4, <1>7 DEF LengthInv
  <1>10. LateInv'
    BY <1>2, <1>4, <1>7 DEF LateInv, NewTrack, PassPcs
  <1>11. TurnInv'
    BY <1>2, <1>4, <1>5 DEF TurnInv, NewTrack, SetupPcs
  <1>12. OnceInv'
    <2>1. /\ server'.starts = server'.track - 1 + One("STMs" \in server'.told)
          /\ server'.ends = server'.track - 1 + One("STMd" \in server'.told)
      BY <1>1, <1>2, <1>6, <1>7 DEF One
    <2>2. server'.track # 0 /\ slim'.say = {} /\ server'.told = {}
      BY <1>2, <1>4, <1>7
    <2> QED BY <1>2, <1>4, <1>6, <1>7, <2>1, <2>2 DEF OnceInv, PassPcs
  <1>13. ReportsSpec!Next
    BY <1>2, <1>5, <1>6 DEF ReportsSpec!Next, ReportsSpec!Stream, ReportsSpec!Complete
  <1> QED BY <1>8, <1>9, <1>10, <1>11, <1>12, <1>13 DEF PlaysOnInv


LEMMA ConnectPlaysOn ==
  ASSUME PlayerAssumption, PlaysOn, Inv, PlaysOnInv, Connect
  PROVE  PlaysOnInv' /\ UNCHANGED ReportsSpec!vars
  <1>1. /\ slim.pc = "connect" /\ slim'.pc = "open" /\ slim'.say = slim.say
        /\ slim'.stream_state = slim.stream_state /\ slim'.decode_state = slim.decode_state
        /\ slim'.autostart = slim.autostart /\ slim'.missed = slim.missed /\ slim'.start = slim.start /\ slim'.close = slim.close
        /\ slim'.sentSTMu = slim.sentSTMu
        /\ UNCHANGED <<stream, st, decode, output, outputbuf, server>>
    <2>1. slim \in SlimRec /\ slim' = [slim EXCEPT !.pc = "open"] /\ stream' = stream
      BY DEF Connect, Inv, Typed, PlaysOn
    <2> QED BY <2>1 DEF Connect, SlimRec
  <1>2. SoundInv'
    BY <1>1 DEF PlaysOnInv, SoundInv, Said, Ended
  <1>3. LengthInv'
    BY <1>1 DEF PlaysOnInv, LengthInv, Said
  <1>4. LateInv'
    BY <1>1 DEF PlaysOnInv, LateInv, PassPcs
  <1>5. TurnInv'
    BY <1>1 DEF PlaysOnInv, TurnInv, SetupPcs, PassPcs
  <1>6. OnceInv'
    BY <1>1 DEF PlaysOnInv, OnceInv, Said, Fresh, PassPcs
  <1>7. UNCHANGED ReportsSpec!vars
    BY <1>1 DEF ReportsSpec!vars
  <1> QED BY <1>2, <1>3, <1>4, <1>5, <1>6, <1>7 DEF PlaysOnInv

LEMMA OpenStreamPlaysOn ==
  ASSUME PlayerAssumption, PlaysOn, Inv, PlaysOnInv, OpenStream
  PROVE  PlaysOnInv' /\ UNCHANGED ReportsSpec!vars
  <1>1. stream \in StreamRec /\ slim \in SlimRec /\ TrackLen \in Nat /\ server.track \in Nat /\ slim.autostart \in Int
    BY DEF Inv, Typed, PlayerAssumption, ServerRec, SlimRec
  <1>2. /\ slim.pc = "open" /\ slim'.pc = "begin" /\ slim'.say = slim.say
        /\ slim'.stream_state = slim.stream_state /\ slim'.decode_state = slim.decode_state
        /\ slim'.autostart = slim.autostart /\ slim'.missed = slim.missed /\ slim'.start = slim.start /\ slim'.close = slim.close
        /\ slim'.sentSTMu = slim.sentSTMu
        /\ UNCHANGED <<streambuf, st, decode, output, outputbuf, server>>
    BY <1>1 DEF OpenStream, SlimRec
  <1>3. /\ stream'.state = (IF server.cmd = "file" THEN "STREAMING_FILE" ELSE "SEND_HEADERS")
        /\ stream'.left = TrackLen /\ stream'.disconnect = stream.disconnect /\ stream'.fd = server.track
        /\ stream'.cont_wait = (server.cmd # "file" /\ slim.autostart >= 2)
    BY <1>1 DEF OpenStream, StreamRec
  <1>4. /\ ~Ended' /\ Said' = Said /\ server.track # 0 /\ server.cmd \in NewTrack /\ StreamOver
        /\ decode.state = "READY" \/ decode.track # server.track
        /\ streambuf = <<>> /\ Done = 0
    <2>1. server.cmd \in NewTrack /\ server.track > 0 /\ StreamOver /\ streambuf = <<>>
            /\ (decode.state = "READY" \/ decode.track # server.track)
      BY <1>2 DEF Inv, CommandInv, StreambufInv, SetupPcs
    <2>2. Done = 0
      BY <2>1 DEF Done, Inv, DecodeInv, PlaysOnInv, LengthInv
    <2> QED BY <1>2, <1>3, <2>1, <2>2 DEF Ended, Said
  <1>5. SoundInv'
    <2>1. st.pc # "polled"
      BY <1>4 DEF PlaysOnInv, SoundInv, StreamOver
    <2> QED BY <1>2, <1>3, <1>4, <2>1 DEF PlaysOnInv, SoundInv
  <1>6. LengthInv'
    <2>1. Done' = 0 /\ Len(streambuf') = 0
      BY <1>2, <1>4 DEF Done
    <2> QED BY <1>1, <1>2, <1>3, <1>4, <2>1 DEF PlaysOnInv, LengthInv
  <1>7. LateInv'
    BY <1>2, <1>3 DEF LateInv, PassPcs
  <1>8. TurnInv'
    BY <1>2 DEF PlaysOnInv, TurnInv, SetupPcs, PassPcs
  <1>9. OnceInv'
    BY <1>2, <1>4 DEF PlaysOnInv, OnceInv, Fresh, PassPcs
  <1>10. UNCHANGED ReportsSpec!vars
    BY <1>2 DEF ReportsSpec!vars
  <1> QED BY <1>5, <1>6, <1>7, <1>8, <1>9, <1>10 DEF PlaysOnInv

LEMMA BeginPlaysOn ==
  ASSUME PlayerAssumption, PlaysOn, Inv, PlaysOnInv, Begin
  PROVE  PlaysOnInv' /\ UNCHANGED ReportsSpec!vars
  <1>1. /\ slim.pc = "begin" /\ slim'.pc = "idle" /\ slim'.say = slim.say
        /\ slim'.stream_state = slim.stream_state /\ slim'.decode_state = slim.decode_state
        /\ slim'.autostart = slim.autostart /\ slim'.missed = slim.missed /\ slim'.start = slim.start /\ slim'.close = slim.close
        /\ server'.told = server.told \cup {"STMc"} /\ server'.track = server.track /\ server'.cmd = "none"
        /\ server'.starts = server.starts /\ server'.ends = server.ends
        /\ UNCHANGED <<stream, streambuf, st, decode, output, outputbuf>>
    BY DEF Begin, Inv, Typed, SlimRec, ServerRec
  <1>2. Said = {} /\ Said' = {"STMc"} /\ slim'.say = {} /\ server.track # 0 /\ server.told = {}
    <2>1. Said = {} /\ server.track > 0
      BY <1>1 DEF Inv, CommandInv, SetupPcs
    <2> QED BY <1>1, <2>1 DEF Said
  <1>3. SoundInv'
    BY <1>1, <1>2 DEF PlaysOnInv, SoundInv, Ended
  <1>4. LengthInv'
    BY <1>1, <1>2 DEF PlaysOnInv, LengthInv, Done, Ended
  <1>5. LateInv'
    BY <1>1 DEF PlaysOnInv, LateInv, PassPcs
  <1>6. TurnInv'
    BY <1>1, <1>2 DEF PlaysOnInv, TurnInv, NewTrack, PassPcs
  <1>7. OnceInv'
    BY <1>1, <1>2 DEF PlaysOnInv, OnceInv, Fresh, PassPcs, One
  <1>8. UNCHANGED ReportsSpec!vars
    BY <1>1, <1>2 DEF ReportsSpec!vars
  <1> QED BY <1>3, <1>4, <1>5, <1>6, <1>7, <1>8 DEF PlaysOnInv

LEMMA ContPlaysOn ==
  ASSUME PlayerAssumption, PlaysOn, Inv, PlaysOnInv, Cont
  PROVE  PlaysOnInv' /\ UNCHANGED ReportsSpec!vars
  <1>1. stream \in StreamRec /\ slim \in SlimRec /\ server \in ServerRec
    BY DEF Inv, Typed
  <1>2. /\ slim.pc = "idle" /\ slim'.pc = slim.pc /\ slim'.say = slim.say
        /\ slim'.stream_state = slim.stream_state /\ slim'.decode_state = slim.decode_state
        /\ slim'.start = slim.start /\ slim'.close = slim.close
        /\ slim'.sentSTMu = slim.sentSTMu /\ slim'.missed = slim.missed /\ server.cmd = "cont"
        /\ server'.told = server.told /\ server'.track = server.track /\ server'.cmd = "none"
        /\ server'.starts = server.starts /\ server'.ends = server.ends
        /\ stream'.fd = stream.fd /\ stream'.disconnect = stream.disconnect /\ stream'.left = stream.left
        /\ \/ stream'.state = stream.state
           \/ stream.state = "STREAMING_WAIT" /\ stream'.state = "STREAMING_BUFFERING"
        /\ UNCHANGED <<streambuf, st, decode, output, outputbuf>>
    BY <1>1 DEF Cont, SlimRec, ServerRec, StreamRec
  <1>3. (Ended' <=> Ended) /\ Said' = Said
    BY <1>2 DEF Ended, Said
  <1>4. SoundInv'
    BY <1>2, <1>3 DEF PlaysOnInv, SoundInv
  <1>5. LengthInv'
    BY <1>2, <1>3 DEF PlaysOnInv, LengthInv, Done
  <1>6. LateInv'
    BY <1>2, <1>3 DEF PlaysOnInv, LateInv
  <1>7. TurnInv'
    BY <1>2 DEF PlaysOnInv, TurnInv, NewTrack, PassPcs
  <1>8. OnceInv'
    BY <1>2, <1>3 DEF PlaysOnInv, OnceInv, Fresh
  <1>9. UNCHANGED ReportsSpec!vars
    BY <1>2 DEF ReportsSpec!vars
  <1> QED BY <1>4, <1>5, <1>6, <1>7, <1>8, <1>9 DEF PlaysOnInv

LEMMA CodcPlaysOn ==
  ASSUME PlayerAssumption, PlaysOn, Inv, PlaysOnInv, Codc
  PROVE  PlaysOnInv' /\ UNCHANGED ReportsSpec!vars
  <1>1. /\ slim.pc = "idle" /\ server.cmd = "codc"
        /\ server'.told = server.told /\ server'.track = server.track /\ server'.cmd = "none"
        /\ server'.starts = server.starts /\ server'.ends = server.ends
        /\ decode'.state = "READY" /\ decode'.new_stream = TRUE /\ decode'.track = server.track
        /\ decode'.done = 0
        /\ UNCHANGED <<stream, streambuf, st, output, outputbuf, slim>>
    BY DEF Codc, CodecOpened, Inv, Typed, ServerRec
  <1>2. decode.track # server.track /\ Fresh /\ Fresh' /\ "STMd" \notin Said /\ Said' = Said /\ Done = 0 /\ Done' = 0
    <2>1. decode.track # server.track
      BY <1>1 DEF Inv, CommandInv
    <2> QED BY <1>1, <2>1 DEF Inv, DecodeInv, Fresh, Said, Done
  <1>3. SoundInv'
    BY <1>1, <1>2 DEF PlaysOnInv, SoundInv, Ended
  <1>4. LengthInv'
    BY <1>1, <1>2 DEF PlaysOnInv, LengthInv, Ended
  <1>5. LateInv'
    BY <1>1 DEF LateInv
  <1>6. TurnInv'
    BY <1>1 DEF PlaysOnInv, TurnInv, NewTrack, PassPcs
  <1>7. OnceInv'
    BY <1>1, <1>2 DEF PlaysOnInv, OnceInv, PassPcs
  <1>8. UNCHANGED ReportsSpec!vars
    BY <1>1 DEF ReportsSpec!vars
  <1> QED BY <1>3, <1>4, <1>5, <1>6, <1>7, <1>8 DEF PlaysOnInv

LEMMA PausePlaysOn ==
  ASSUME PlayerAssumption, PlaysOn, Inv, PlaysOnInv, Pause \/ Unpause
  PROVE  PlaysOnInv' /\ UNCHANGED ReportsSpec!vars
  <1>1. /\ slim.pc = "idle" /\ server.cmd \in {"p", "u"} /\ server'.track = server.track /\ server'.cmd = "none"
        /\ server'.told \ {"paused", "resumed"} = server.told \ {"paused", "resumed"}
        /\ server'.starts = server.starts /\ server'.ends = server.ends
        /\ output'.track_start = output.track_start /\ output'.heard = output.heard
        /\ output'.track_started = output.track_started
        /\ UNCHANGED <<stream, streambuf, st, decode, outputbuf, slim>>
    BY DEF Inv, Typed, Pause, Unpause, SetOutput, ServerRec, OutputRec
  <1>2. server.track > 0
    BY <1>1 DEF PlaysOnInv, TurnInv
  <1>3. \A m \in {"STMs", "STMd", "STMu", "STMf", "STMn", "DSCO failed"} :
           (m \in server'.told <=> m \in server.told) /\ (m \in Said' <=> m \in Said)
    BY <1>1 DEF Said
  <1>4. SoundInv'
    BY <1>1, <1>3 DEF PlaysOnInv, SoundInv, Ended
  <1>5. LengthInv'
    BY <1>1, <1>3 DEF PlaysOnInv, LengthInv, Done, Ended
  <1>6. LateInv'
    BY <1>1 DEF PlaysOnInv, LateInv
  <1>7. TurnInv'
    BY <1>1 DEF PlaysOnInv, TurnInv, NewTrack
  <1>8. OnceInv'
    <2>1. server.track # 0
      BY <1>2
    <2>2. slim'.say \cap server'.told \cap {"STMs", "STMd", "STMu"} = {}
      BY <1>1, <1>3 DEF PlaysOnInv, OnceInv
    <2>3. {"STMs", "STMd"} \subseteq Said' <=> {"STMs", "STMd"} \subseteq Said
      BY <1>3
    <2>4. One("STMs" \in server'.told) = One("STMs" \in server.told)
            /\ One("STMd" \in server'.told) = One("STMd" \in server.told)
      BY <1>3 DEF One
    <2> QED BY <1>1, <1>2, <1>3, <2>1, <2>2, <2>3, <2>4 DEF PlaysOnInv, OnceInv, Fresh
  <1>9. UNCHANGED ReportsSpec!vars
    <2>1. "STMu" \in server'.told <=> "STMu" \in server.told
      BY <1>3
    <2>2. ("STMu" \in server.told)' = ("STMu" \in server.told)
      BY <2>1
    <2> QED BY <1>1, <2>2 DEF ReportsSpec!vars
  <1> QED BY <1>4, <1>5, <1>6, <1>7, <1>8, <1>9 DEF PlaysOnInv

LEMMA ControllerPlaysOn ==
  ASSUME PlayerAssumption, PlaysOn, Inv, PlaysOnInv, Controller
  PROVE  PlaysOnInv' /\ (ReportsSpec!Next \/ UNCHANGED ReportsSpec!vars)
  <1>1. CASE Pass
    BY <1>1, PassSPlaysOn, PassDPlaysOn, PassOPlaysOn, PassClosePlaysOn, PassSendPlaysOn DEF Pass
  <1>2. ~(FlushDecode \/ FlushOutput \/ StopOutput \/ FlushStreaming \/ FlushStream \/ FlushDrain)
    <2>1. slim.pc \notin FlushPcs /\ server.cmd \notin {"q", "f"}
      BY NoFlush DEF PlaysOnInv, SoundInv
    <2> QED BY <2>1 DEF FlushPcs, FlushDecode, FlushOutput, StopOutput, FlushStreaming, FlushStream, FlushDrain
  <1>3. CASE OpenCodec
    BY <1>3, OpenCodecPlaysOn
  <1>4. CASE Connect \/ OpenStream \/ Begin
    BY <1>4, ConnectPlaysOn, OpenStreamPlaysOn, BeginPlaysOn
  <1>5. CASE Cont \/ Codc \/ Pause \/ Unpause
    BY <1>5, ContPlaysOn, CodcPlaysOn, PausePlaysOn
  <1> QED BY <1>1, <1>2, <1>3, <1>4, <1>5 DEF Controller, Command


\* What is taken from one side is put on the other.
LEMMA Balance ==
  ASSUME NEW a \in Int, NEW b \in Int, NEW c \in Int, NEW k \in Int
  PROVE  a + (b - k) + (c + k) = a + b + c /\ (a - k) + (b + k) + c = a + b + c
  OBVIOUS

LEMMA DecodeThreadPlaysOn ==
  ASSUME PlayerAssumption, PlaysOn, Inv, PlaysOnInv, DecodeThread
  PROVE  PlaysOnInv' /\ UNCHANGED ReportsSpec!vars
  <1>1. /\ UNCHANGED <<stream, st, slim, server>> /\ Typed
        /\ \/ UNCHANGED <<streambuf, decode, output, outputbuf>>
           \/ decode.state = "RUNNING" /\ (Halts \/ \E k \in Nat : Decodes(k))
    BY DecodeThreadIs DEF Inv, OutputbufInv
  <1>2. Said' = Said /\ Ended' = Ended /\ UNCHANGED ReportsSpec!vars
    BY <1>1 DEF Said, Ended, ReportsSpec!vars
  <1>3. CASE UNCHANGED <<streambuf, decode, output, outputbuf>>
    <2>1. SoundInv'
      BY <1>1, <1>2, <1>3 DEF PlaysOnInv, SoundInv
    <2>2. LengthInv'
      <3>1. Done' = Done
        BY <1>1, <1>3 DEF Done
      <3> QED BY <1>1, <1>2, <1>3, <3>1 DEF PlaysOnInv, LengthInv
    <2>3. LateInv'
      BY <1>1, <1>2, <1>3 DEF PlaysOnInv, LateInv
    <2>4. TurnInv'
      BY <1>1, <1>2, <1>3 DEF PlaysOnInv, TurnInv
    <2>5. OnceInv'
      BY <1>1, <1>2, <1>3 DEF PlaysOnInv, OnceInv, Fresh
    <2> QED BY <1>2, <2>1, <2>2, <2>3, <2>4, <2>5 DEF PlaysOnInv
  <1>4. CASE decode.state = "RUNNING" /\ (Halts \/ \E k \in Nat : Decodes(k))
    <2>1. /\ decode.track = server.track /\ server.track # 0 /\ server.track > 0 /\ "STMd" \notin Said
          /\ server.track \in Nat /\ decode.done \in Nat /\ stream.left \in Nat /\ Len(streambuf) \in Nat
          /\ Len(outputbuf) \in Nat
      <3>1. decode.track = server.track /\ server.track # 0 /\ "STMd" \notin Said
        BY <1>4 DEF Inv, DecodeInv
      <3>2. /\ server.track \in Nat /\ decode.done \in Nat /\ stream.left \in Nat /\ Len(streambuf) \in Nat
            /\ Len(outputbuf) \in Nat
        BY <1>1 DEF Typed, ServerRec, DecodeRec, StreamRec
      <3> QED BY <3>1, <3>2
    <2>2. slim.pc \notin {"connect", "open"}
      <3>1. slim.pc \in SetupPcs => decode.state = "READY" \/ decode.track # server.track
        BY DEF Inv, CommandInv
      <3> QED BY <1>4, <2>1, <3>1 DEF SetupPcs
    <2>3. /\ stream.left + Len(streambuf) + decode.done = TrackLen
          /\ Ended => stream.left = 0
      BY <2>1, <2>2 DEF PlaysOnInv, LengthInv, Done
    <2>4. CASE Halts
      <3>1. /\ Ended /\ streambuf = <<>> /\ decode'.state = "COMPLETE"
            /\ decode'.new_stream = decode.new_stream /\ decode'.track = decode.track
            /\ decode'.done = decode.done
            /\ UNCHANGED <<streambuf, output, outputbuf>>
        BY <2>4 DEF Halts, Completes, Fails, PlaysOn
      <3>2. decode'.done = TrackLen
        <4>1. stream.left = 0 /\ Len(streambuf) = 0
          BY <2>3, <3>1
        <4> QED BY <2>1, <2>3, <3>1, <4>1
      <3>3. SoundInv' /\ LateInv' /\ TurnInv'
        BY <1>1, <1>2, <3>1 DEF PlaysOnInv, SoundInv, LateInv, TurnInv
      <3>4. LengthInv'
        <4>1. Done' = decode.done
          BY <1>1, <2>1, <3>1 DEF Done
        <4> QED BY <1>1, <1>2, <2>1, <2>3, <3>1, <3>2, <4>1 DEF PlaysOnInv, LengthInv
      <3>5. OnceInv'
        BY <1>1, <1>2, <1>4, <3>1 DEF PlaysOnInv, OnceInv, Fresh
      <3> QED BY <1>2, <3>3, <3>4, <3>5 DEF PlaysOnInv
    <2>5. ASSUME NEW k \in Nat, Decodes(k) PROVE PlaysOnInv'
      <3>1. /\ decode'.state = "RUNNING" /\ decode'.new_stream = FALSE /\ decode'.track = decode.track
            /\ decode'.done = decode.done + k
            /\ output'.heard = output.heard /\ output'.state = output.state
            /\ output'.track_started = output.track_started
            /\ output'.track_start = (IF decode.new_stream THEN Len(outputbuf) ELSE output.track_start)
            /\ Len(outputbuf') = Len(outputbuf) + k /\ Len(streambuf') = Len(streambuf) - k
        BY <2>5 DEF Decodes
      <3>2. SoundInv' /\ LateInv' /\ TurnInv'
        BY <1>1, <1>2, <3>1 DEF PlaysOnInv, SoundInv, LateInv, TurnInv
      <3>3. LengthInv'
        <4>1. Done' = decode.done + k
          BY <1>1, <2>1, <3>1 DEF Done
        <4>2. stream.left + Len(streambuf') + Done' = TrackLen
          <5>1. PICK a \in Nat, b \in Nat, c \in Nat :
                   a = stream.left /\ b = Len(streambuf) /\ c = decode.done
            BY <2>1
          <5>2. a + b + c = TrackLen /\ Len(streambuf') = b - k /\ Done' = c + k
            BY <2>3, <3>1, <4>1, <5>1
          <5>3. a + (b - k) + (c + k) = a + b + c
            BY Balance
          <5> QED BY <5>1, <5>2, <5>3
        <4> QED BY <1>1, <1>2, <2>1, <2>3, <3>1, <4>2 DEF LengthInv
      <3>4. ~Fresh'
        BY <1>1, <2>1, <3>1 DEF Fresh
      <3>5. OnceInv'
        <4>1. CASE decode.new_stream
          <5>1. Fresh /\ decode.done = 0 /\ output'.track_start = Len(outputbuf) /\ output'.track_start # None
            BY <2>1, <3>1, <4>1 DEF Fresh, PlaysOnInv, LengthInv, None
          <5>2. ~output.track_started /\ "STMs" \notin Said
            BY <5>1 DEF PlaysOnInv, OnceInv
          <5>3. Len(outputbuf') - output'.track_start = decode'.done
            BY <2>1, <3>1, <5>1
          <5> QED BY <1>1, <1>2, <1>4, <2>1, <3>1, <3>4, <5>1, <5>2, <5>3 DEF PlaysOnInv, OnceInv
        <4>2. CASE ~decode.new_stream
          <5>1. ~Fresh /\ output'.track_start = output.track_start
            BY <2>1, <3>1, <4>2 DEF Fresh
          <5>2. output.track_start # None => Len(outputbuf') - output'.track_start = decode'.done
            <6>1. output.track_start \in Int
              BY <1>1 DEF Typed, OutputRec
            <6>2. output.track_start # None => Len(outputbuf) - output.track_start = decode.done
              BY <5>1 DEF PlaysOnInv, OnceInv
            <6> QED BY <2>1, <3>1, <5>1, <6>1, <6>2
          <5> QED BY <1>1, <1>2, <1>4, <2>1, <3>1, <3>4, <5>1, <5>2 DEF PlaysOnInv, OnceInv
        <4> QED BY <4>1, <4>2
      <3> QED BY <1>2, <3>2, <3>3, <3>5 DEF PlaysOnInv
    <2> QED BY <1>2, <1>4, <2>4, <2>5
  <1> QED BY <1>1, <1>3, <1>4

\* Nothing is lost between the network and streambuf.
LEMMA StreamThreadPlaysOn ==
  ASSUME PlayerAssumption, PlaysOn, Inv, PlaysOnInv, StreamThread
  PROVE  PlaysOnInv' /\ UNCHANGED ReportsSpec!vars
  <1>1. /\ UNCHANGED <<decode, dt, output, outputbuf, slim, server>> /\ Typed
        /\ \/ UNCHANGED <<stream, streambuf>>
           \/ stream.fd # None /\ (Receives \/ GivesUp \/ Moves)
        /\ st'.pc = "polled" => /\ stream' = stream /\ stream.fd # None /\ ~Ended
                                /\ stream.state # "STREAMING_FILE"
    BY StreamThreadIs DEF Inv
  <1>2. Said' = Said /\ UNCHANGED ReportsSpec!vars
    BY <1>1 DEF Said, ReportsSpec!vars
  <1>3. CASE UNCHANGED <<stream, streambuf>>
    <2>1. SoundInv'
      BY <1>1, <1>2, <1>3 DEF PlaysOnInv, SoundInv, Ended
    <2>2. LengthInv' /\ LateInv' /\ TurnInv'
      BY <1>1, <1>2, <1>3 DEF PlaysOnInv, LengthInv, LateInv, TurnInv, Done, Ended
    <2>3. OnceInv'
      BY <1>1, <1>2, <1>3 DEF PlaysOnInv, OnceInv, Fresh
    <2> QED BY <1>2, <2>1, <2>2, <2>3 DEF PlaysOnInv
  <1>4. CASE stream.fd # None /\ (Receives \/ GivesUp \/ Moves)
    <2>1. /\ server.track > 0 /\ slim.pc \notin {"connect", "open"} /\ stream.left \in Nat /\ Len(streambuf) \in Nat
          /\ Done \in Nat
      BY <1>1, <1>4 DEF Inv, StreamInv, CommandInv, StreamOver, Typed, StreamRec, DecodeRec, Done
    <2>2. PICK k \in Nat :
             /\ stream'.left = stream.left - k /\ Len(streambuf') = Len(streambuf) + k
             /\ stream'.disconnect = "OK" /\ stream'.cont_wait = stream.cont_wait
             /\ Ended' => stream'.left = 0
             /\ stream'.state # "STOPPED"
      <3>1. CASE Receives
        <4>1. PICK k \in 1 .. Lesser(Room, stream.left) : Received(k)
          BY <3>1 DEF Receives
        <4>2. k \in Nat /\ k <= stream.left
          BY <2>1, <4>1, RoomIs DEF Inv, StreambufInv
        <4>3. /\ stream'.left = stream.left - k /\ Len(streambuf') = Len(streambuf) + k
              /\ stream'.disconnect = stream.disconnect /\ stream'.cont_wait = stream.cont_wait
              /\ stream'.state \in {stream.state, "STREAMING_HTTP"}
          BY <1>1, <4>1, <4>2, ReceivedIs
        <4>4. ~Ended'
          BY <3>1, <4>3 DEF Receives, Streaming, Ended
        <4>5. stream.disconnect = "OK"
          BY DEF PlaysOnInv, SoundInv
        <4> QED BY <4>2, <4>3, <4>4, <4>5 DEF Ended
      <3>2. CASE GivesUp
        <4>1. /\ stream.left = 0 /\ stream' = Disconnected("DISCONNECT", "OK") /\ streambuf' = streambuf
              /\ stream.state \in {"STREAMING_BUFFERING"} \cup Streaming
          <5>1. ~(stream.state = "STREAMING_FILE" /\ st.pc = "polled")
            BY DEF PlaysOnInv, SoundInv
          <5> QED BY <3>2, <5>1 DEF GivesUp, PlaysOn
        <4>2. /\ stream'.left = stream.left /\ stream'.disconnect = "OK" /\ stream'.cont_wait = stream.cont_wait
              /\ stream'.left = 0 /\ stream'.state = "DISCONNECT"
          BY <1>1, <4>1, Names, DisconnectedIs
        <4>3. stream'.left = stream.left - 0 /\ Len(streambuf') = Len(streambuf) + 0
          BY <2>1, <4>1, <4>2
        <4>4. 0 \in Nat
          OBVIOUS
        <4> QED BY <4>2, <4>3, <4>4
      <3>3. CASE Moves
        <4>1. /\ streambuf' = streambuf
              /\ \/ stream.state = "SEND_HEADERS" /\ stream' = [stream EXCEPT !.state = "RECV_HEADERS"]
                 \/ stream.state = "RECV_HEADERS"
                       /\ stream' = [stream EXCEPT !.state = IF stream.cont_wait THEN "STREAMING_WAIT"
                                                             ELSE "STREAMING_BUFFERING"]
          BY <3>3 DEF Moves, PlaysOn
        <4>2. /\ stream'.left = stream.left /\ stream'.disconnect = stream.disconnect
              /\ stream'.cont_wait = stream.cont_wait /\ ~Ended'
          BY <1>1, <4>1 DEF Typed, StreamRec, Ended
        <4>3. stream'.left = stream.left - 0 /\ Len(streambuf') = Len(streambuf) + 0
          BY <2>1, <4>1, <4>2
        <4>4. stream.disconnect = "OK"
          BY DEF PlaysOnInv, SoundInv
        <4> QED BY <4>2, <4>3, <4>4 DEF Ended
      <3> QED BY <1>4, <3>1, <3>2, <3>3
    <2>3. SoundInv'
      <3>1. st'.pc = "polled" => stream'.fd # None /\ ~Ended' /\ stream'.state # "STREAMING_FILE"
        BY <1>1 DEF Ended
      <3> QED BY <1>1, <1>2, <2>2, <3>1 DEF PlaysOnInv, SoundInv
    <2>4. LengthInv'
      <3>1. stream'.left + Len(streambuf') + Done' = TrackLen
        <4>1. PICK a \in Nat, b \in Nat, c \in Nat : a = stream.left /\ b = Len(streambuf) /\ c = Done
          BY <2>1
        <4>2. a + b + c = TrackLen
          BY <2>1, <4>1 DEF PlaysOnInv, LengthInv
        <4>3. stream'.left = a - k /\ Len(streambuf') = b + k /\ Done' = c
          BY <1>1, <2>2, <4>1 DEF Done
        <4>4. (a - k) + (b + k) + c = a + b + c
          BY Balance
        <4> QED BY <4>2, <4>3, <4>4
      <3> QED BY <1>1, <1>2, <2>2, <3>1 DEF PlaysOnInv, LengthInv
    <2>5. LateInv' /\ TurnInv'
      BY <1>1, <2>1, <2>2 DEF PlaysOnInv, LateInv, TurnInv
    <2>6. OnceInv'
      <3>1. server.track # 0
        <4>1. server.track \in Nat
          BY <1>1 DEF Typed, ServerRec
        <4> QED BY <2>1, <4>1
      <3> QED BY <1>1, <1>2, <3>1 DEF PlaysOnInv, OnceInv, Fresh
    <2> QED BY <1>2, <2>3, <2>4, <2>5, <2>6 DEF PlaysOnInv
  <1> QED BY <1>1, <1>3, <1>4

-----------------------------------------------------------------------------
(* What follows from it.                                                    *)

LEMMA InitPlaysOn ==
  ASSUME PlayerAssumption, Init
  PROVE  PlaysOnInv /\ ReportsSpec!Init
  <1>1. server.track = 0 /\ Said = {} /\ stream.state = "STOPPED" /\ decode.state = "STOPPED" /\ decode.track = 0
          /\ decode.done = 0 /\ slim.pc = "idle" /\ slim.say = {} /\ Fresh /\ output.track_start = None
    BY DEF Init, Said, Fresh
  <1>2. SoundInv
    BY <1>1 DEF Init, SoundInv
  <1>3. LengthInv
    BY <1>1 DEF Init, LengthInv
  <1>4. LateInv
    BY <1>1 DEF Init, LateInv
  <1>5. TurnInv
    BY <1>1 DEF Init, TurnInv, NewTrack
  <1>6. OnceInv
    BY <1>1 DEF Init, OnceInv, PassPcs
  <1>7. ReportsSpec!Init
    BY DEF Init, ReportsSpec!Init
  <1> QED BY <1>2, <1>3, <1>4, <1>5, <1>6, <1>7 DEF PlaysOnInv

LEMMA PlaysOnKept ==
  ASSUME PlayerAssumption, PlaysOn, Inv, PlaysOnInv, [Next]_vars
  PROVE  PlaysOnInv' /\ [ReportsSpec!Next]_(ReportsSpec!vars)
  <1>1. CASE UNCHANGED vars
    <2>1. Said' = Said /\ Ended' = Ended /\ Done' = Done /\ Fresh' = Fresh
            /\ UNCHANGED <<stream, streambuf, st, decode, output, outputbuf, slim, server>>
      BY <1>1 DEF vars, Said, Ended, Done, Fresh
    <2>2. SoundInv' /\ LengthInv' /\ LateInv' /\ TurnInv'
      BY <2>1 DEF PlaysOnInv, SoundInv, LengthInv, LateInv, TurnInv
    <2>3. OnceInv'
      BY <2>1 DEF PlaysOnInv, OnceInv
    <2>4. UNCHANGED ReportsSpec!vars
      BY <2>1 DEF ReportsSpec!vars
    <2> QED BY <2>2, <2>3, <2>4 DEF PlaysOnInv
  <1> QED BY <1>1, StreamThreadPlaysOn, DecodeThreadPlaysOn, RenderPlaysOn, ControllerPlaysOn, ServerPlaysOn
          DEF Next

\* Nothing takes it back that a stream was over before its codec.
LEMMA MissedKept ==
  ASSUME Typed, [Next]_vars
  PROVE  slim.missed => slim'.missed
  <1>1. slim \in SlimRec
    BY DEF Typed
  <1>2. CASE Pass
    BY <1>1, <1>2 DEF Pass, PassS, PassD, PassO, PassClose, PassSend, SlimRec
  <1>3. CASE Command
    BY <1>1, <1>3 DEF Command, FlushDecode, FlushOutput, StopOutput, FlushStreaming, FlushStream, FlushDrain,
                      OpenCodec, Connect, OpenStream, Begin, Cont, Codc, Pause, Unpause, SetOutput, SlimRec
  <1>4. CASE StreamThread \/ DecodeThread \/ Render \/ Server \/ UNCHANGED vars
    BY <1>4 DEF StreamThread, StreamCheck, StreamAct, DecodeThread, DecodeReadS, DecodeReadO, DecodeRun, Render,
                Server, Playlist, Answer, GiveUp, Listener, Sends, vars
  <1> QED BY <1>2, <1>3, <1>4 DEF Next, Controller

LEMMA PlaysOnAlways ==
  ASSUME PlayerAssumption
  PROVE  Spec => [](Inv /\ (PlaysOn => PlaysOnInv))
  <1>1. Init => Inv /\ (PlaysOn => PlaysOnInv)
    BY InitIs, InitPlaysOn
  <1>2. ASSUME Inv, PlaysOn => PlaysOnInv, [Next]_vars PROVE Inv' /\ (PlaysOn' => PlaysOnInv')
    <2>1. PlaysOn' => PlaysOn
      BY <1>2, PlanKept, MissedKept DEF Inv, Typed, SamePlan, PlaysOn
    <2> QED BY <1>2, <2>1, InvKept, PlaysOnKept
  <1> QED BY <1>1, <1>2, PTL DEF Spec

\* While the tracks play on, STMd is sent of a track that was decoded to its last unit, although the
\* decode thread acts on a stream state and a byte count it read earlier (decode.c), and STMs of the
\* track that the server streamed last (slimproto.c).
THEOREM ReportsTrue == ASSUME PlayerAssumption PROVE Spec => []ReportsAreTrue
  <1>1. Inv /\ (PlaysOn => PlaysOnInv) => ReportsAreTrue
    <2>1. ASSUME Inv, PlaysOnInv, "STMd" \in server.told PROVE decode.done = TrackLen
      BY <2>1 DEF PlaysOnInv, LengthInv, Said
    <2>2. ASSUME Inv, PlaysOnInv, "STMs" \in server.told PROVE output.heard = server.track
      BY <2>2 DEF PlaysOnInv, OnceInv, Said
    <2> QED BY <2>1, <2>2 DEF ReportsAreTrue, DecodedMeansAll, StartsAreTrue
  <1> QED BY <1>1, PlaysOnAlways, PTL

\* While the tracks play on, the controller's reports (slimproto_run) are a behaviour of Reports:
\* each track is reported as heard and as decoded once, and an underrun only after both.
THEOREM Ordered == ASSUME PlayerAssumption PROVE Spec => InOrder
  <1>1. Init => (PlaysOn => ReportsSpec!Init)
    BY InitPlaysOn
  <1>2. Inv /\ (PlaysOn => PlaysOnInv) /\ [Next]_vars => [PlaysOn => ReportsSpec!Next]_(ReportsSpec!vars)
    BY PlaysOnKept
  <1> QED BY <1>1, <1>2, PlaysOnAlways, PTL DEF Spec, InOrder
=============================================================================
