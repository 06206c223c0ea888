--------------------------- MODULE HttpStreamProofs ---------------------------
(* Proofs about HttpStream, for every sequence of connections, every response, *)
(* every size of the buffer and of stream.header and every way the reads and   *)
(* the threads fall.                                                           *)
EXTENDS HttpStream, TLAPS

HttpStates == {"SEND_HEADERS", "RECV_HEADERS", "STREAMING_WAIT", "STREAMING_BUFFERING", "STREAMING_HTTP"}
States == HttpStates \cup {"STOPPED", "DISCONNECT", "STREAMING_FILE"}
Answered == {"STREAMING_WAIT", "STREAMING_BUFFERING", "STREAMING_HTTP"}

\* The connection: what is read was sent, and what poll() said of it is still so.
Polls == [ready : {"none", "in", "out"}, turn : Nat]
ConnTyped ==
    /\ wires \in Wires /\ turn \in Nat /\ turn <= Len(wires) /\ Len(wires) \in Nat /\ at \in Nat
    /\ state \in States /\ tls \in Nat /\ tls <= turn
    /\ polled \in Polls /\ polled.turn <= turn
Conn ==
    /\ ConnTyped
    /\ turn = 0 => state = "STOPPED"
    /\ Live => fd /\ at <= Delivers
    /\ turn > 0 => at <= Wire.cut
    /\ state = "STREAMING_FILE" => Wire.asked = "file"
    /\ state \in HttpStates => Wire.asked # "file"
    /\ state = "SEND_HEADERS" => at = 0
    /\ state = "RECV_HEADERS" => len = at
    /\ polled.ready = "in" /\ polled.turn = turn => state \notin {"SEND_HEADERS", "STREAMING_FILE"}

\* The numbers that say how much may be read.
Sized ==
    /\ Space \in Int /\ BodySpace \in Int /\ meta.left \in Int
    /\ Streaming /\ AtMeta /\ meta.left = 0 /\ ~Gone => Units[at + 1].left \in Nat

LEMMA WireIs == ASSUME NEW ws \in Wires, NEW t \in 1 .. Len(ws) PROVE IsWire(ws[t])
  BY HttpAssumption

\* What the steps of a connection need of it.
LEMMA WireSizes ==
  ASSUME NEW w, IsWire(w)
  PROVE  /\ w.cut \in Nat /\ w.cut <= Len(w.units) /\ Len(w.units) \in Nat
         /\ DOMAIN w.units = 1 .. Len(w.units) /\ w.metaint \in Nat
         /\ w.how \in {"close", "reset"} /\ w.wait \in BOOLEAN
  BY DEF IsWire

LEMMA DeliversSome == Conn /\ turn > 0 => IsWire(Wire) /\ Delivers \in Nat /\ Delivers <= Wire.cut
<1> SUFFICES ASSUME Conn, turn > 0 PROVE IsWire(Wire) /\ Delivers \in Nat /\ Delivers <= Wire.cut
  OBVIOUS
<1>1. turn \in 1 .. Len(wires) /\ Wire = wires[turn]
  BY HttpAssumption DEF Conn, ConnTyped, Wire
<1>2. IsWire(Wire)
  BY <1>1, WireIs DEF Conn, ConnTyped
<1> QED BY <1>2, WireSizes DEF Delivers

LEMMA ConnInit == Init => Conn
<1> SUFFICES ASSUME Init PROVE Conn
  OBVIOUS
<1>1. wires \in Seq(Range(wires))
  BY HttpAssumption DEF Init
<1>2. Len(wires) \in Nat
  BY <1>1
<1>3. polled \in Polls /\ polled.turn = 0
  BY DEF Init, NoPoll, Polls
<1>4. ConnTyped
  BY <1>2, <1>3 DEF Init, ConnTyped, HttpStates, States
<1> QED BY <1>4 DEF Init, Conn, Live, NoPoll, HttpStates

\* A step that leaves the connection alone.
LEMMA ConnKept ==
  Conn /\ UNCHANGED <<netVars, connVars, polled>> /\ (state = "RECV_HEADERS" => len' = len) => Conn'
<1> SUFFICES ASSUME Conn, UNCHANGED <<netVars, connVars, polled>>, state = "RECV_HEADERS" => len' = len PROVE Conn'
  OBVIOUS
<1>1. UNCHANGED <<wires, turn, at, state, fd, tls, polled>>
  BY DEF netVars, connVars
<1>2. Wire' = Wire /\ Delivers' = Delivers
  BY <1>1 DEF Wire, Delivers, Fits
<1> QED BY <1>1, <1>2 DEF Conn, ConnTyped, Live

LEMMA ConnNew ==
  ASSUME Conn, StartConnection, IsWire(wires[turn + 1]), UNCHANGED <<wires, polled>>,
         \/ state' = "SEND_HEADERS" /\ fd'
         \/ state' = "DISCONNECT"
  PROVE  Conn'
<1>1. turn' \in 1 .. Len(wires) /\ turn' = turn + 1 /\ wires' = wires /\ at' = 0 /\ wires[turn'].asked # "file"
  BY DEF StartConnection, Conn, ConnTyped
<1>2. Wire' = wires[turn'] /\ IsWire(Wire')
  BY <1>1 DEF Wire, Conn, ConnTyped
<1>3. tls' \in Nat /\ tls' <= turn'
  BY <1>1 DEF StartConnection, SslAfter, Conn, ConnTyped
<1>4. 0 <= Delivers' /\ 0 <= Wire'.cut
  BY <1>2, WireSizes DEF Delivers
<1>5. ConnTyped'
  BY <1>1, <1>3 DEF ConnTyped, Conn, States, HttpStates, Polls
<1>6. polled'.turn # turn'
  BY <1>1, <1>5 DEF ConnTyped, Conn, Polls
<1> QED BY <1>1, <1>2, <1>4, <1>5, <1>6 DEF Conn, Live, HttpStates

LEMMA ConnController == Conn /\ (Controller \/ Consume) => Conn'
<1> SUFFICES ASSUME Conn, Controller \/ Consume PROVE Conn'
  OBVIOUS
<1>w. ASSUME turn < Len(wires) PROVE IsWire(wires[turn + 1])
  BY <1>w, WireIs, HttpAssumption DEF Conn, ConnTyped
<1>1. CASE StreamSock
  BY <1>1, <1>w, ConnNew DEF StreamSock, StartConnection
<1>2. CASE Unreachable
  BY <1>2, <1>w, ConnNew DEF Unreachable, StartConnection, Conn, ConnTyped
<1>3. CASE StreamFile
  <2>1. turn' \in 1 .. Len(wires) /\ turn' > turn /\ wires' = wires /\ at' = 0 /\ wires[turn'].asked = "file"
    BY <1>3 DEF StreamFile, Conn, ConnTyped
  <2>2. Wire' = wires[turn'] /\ IsWire(Wire')
    BY <1>3, <2>1, <1>w DEF Wire, Conn, ConnTyped, StreamFile
  <2>3. ConnTyped'
    BY <1>3, <2>1 DEF ConnTyped, Conn, States, HttpStates, Polls, StreamFile
  <2>4. 0 <= Delivers' /\ 0 <= Wire'.cut
    BY <2>2, WireSizes DEF Delivers
  <2>5. polled'.turn # turn'
    BY <1>3, <2>1, <2>3 DEF ConnTyped, Conn, Polls, StreamFile
  <2> QED BY <1>3, <2>1, <2>2, <2>3, <2>4, <2>5 DEF Conn, Live, HttpStates, StreamFile
<1>4. CASE Quit
  <2>1. UNCHANGED <<wires, turn, at, polled>> /\ state' = "STOPPED" /\ fd' = FALSE /\ tls' = 0
    BY <1>4 DEF Quit, netVars
  <2>2. Wire' = Wire
    BY <2>1 DEF Wire
  <2> QED BY <2>1, <2>2 DEF Conn, ConnTyped, Live, States, HttpStates
<1>5. CASE Report
  <2>1. /\ UNCHANGED <<netVars, cause, fd, tls, polled, len>>
        /\ state' = IF state = "DISCONNECT" THEN "STOPPED" ELSE state
    BY <1>5 DEF Report, headVars
  <2> QED BY <2>1 DEF netVars, Conn, ConnTyped, Live, Wire, Delivers, Fits, States, HttpStates
<1>6. CASE Cont
  <2>1. UNCHANGED <<netVars, cause, fd, tls, polled, len>> /\ state = "STREAMING_WAIT" /\ state' = "STREAMING_BUFFERING"
    BY <1>6 DEF Cont, headVars
  <2> QED BY <2>1 DEF netVars, Conn, ConnTyped, Live, Wire, Delivers, Fits, States, HttpStates
<1>7. CASE Consume
  BY <1>7, ConnKept DEF Consume, headVars
<1> QED BY <1>1, <1>2, <1>3, <1>4, <1>5, <1>6, <1>7 DEF Controller

\* The thread reads no more than is sent, of the connection that is open.
LEMMA ConnRead ==
  ASSUME Conn, UNCHANGED <<wires, turn, fd, tls>>, Live, state' \in Answered \cup {"RECV_HEADERS", "STREAMING_FILE"},
         state' = "STREAMING_FILE" => state = "STREAMING_FILE",
         state' \in HttpStates => state \in HttpStates,
         at' \in Nat, at' <= Delivers, state' = "RECV_HEADERS" => len' = at',
         polled' = NoPoll \/ polled' = polled
  PROVE  Conn'
<1>1. turn > 0 /\ Delivers' = Delivers /\ Wire' = Wire
  BY DEF Conn, ConnTyped, Live, Delivers, Fits, Wire
<1>2. Delivers <= Wire.cut /\ Delivers \in Nat /\ Wire.cut \in Nat
  BY <1>1, DeliversSome, WireSizes
<1> QED BY <1>1, <1>2 DEF Conn, ConnTyped, Live, NoPoll, Polls, HttpStates, States, Answered

\* It closes its socket.
LEMMA ConnClosed ==
  ASSUME Conn, UNCHANGED <<wires, turn>>, NEW c, \E s \in {"STOPPED", "DISCONNECT"} : Disconnected(s, c),
         turn > 0, at' \in Nat, at' <= Delivers \/ at' = at, polled' = NoPoll \/ polled' = polled
  PROVE  Conn'
<1>1. Wire' = Wire /\ Delivers <= Wire.cut /\ Delivers \in Nat /\ Wire.cut \in Nat
  BY DeliversSome, WireSizes DEF Wire
<1>2. state' \in {"STOPPED", "DISCONNECT"} /\ fd' = FALSE /\ tls' = 0
  BY DEF Disconnected
<1>3. ConnTyped'
  BY <1>2 DEF Conn, ConnTyped, NoPoll, Polls, HttpStates, States
<1> QED BY <1>1, <1>2, <1>3 DEF Conn, ConnTyped, Live, HttpStates

LEMMA ConnThread == Conn /\ Sized /\ StreamThread => Conn'
<1> SUFFICES ASSUME Conn, Sized, StreamThread PROVE Conn'
  OBVIOUS
<1>a. /\ at \in Nat /\ (Live => turn > 0)
      /\ (turn > 0 => Delivers \in Nat)
  BY DeliversSome DEF Conn, ConnTyped, Live
<1>b. ASSUME NEW a \in Int, NEW n \in Nat, n <= Least(a, Delivers - at), turn > 0
      PROVE  at + n \in Nat /\ at + n <= Delivers
  BY <1>a, <1>b DEF Least
<1>1. CASE Poll
  <2>1. UNCHANGED <<netVars, connVars, headVars>> /\ turn > 0 /\ turn \in Nat
    BY <1>1, <1>a DEF Poll, MayPoll, Conn, ConnTyped
  <2>2. /\ UNCHANGED <<wires, turn, at, state, fd, tls, len>>
        /\ polled' = [ready |-> IF state = "SEND_HEADERS" THEN "out" ELSE "in", turn |-> turn]
        /\ state # "STREAMING_FILE"
    BY <1>1 DEF Poll, netVars, connVars, headVars
  <2>3. Wire' = Wire /\ Delivers' = Delivers
    BY <2>2 DEF Wire, Delivers, Fits
  <2>4. polled' \in Polls /\ polled'.turn = turn /\ (polled'.ready = "in" => state # "SEND_HEADERS")
    BY <2>1, <2>2 DEF Polls
  <2> QED BY <2>2, <2>3, <2>4 DEF Conn, ConnTyped, Live
<1>2. CASE ReadFile
  <2>1. /\ UNCHANGED <<wires, turn, len, polled>> /\ state = "STREAMING_FILE" /\ Live /\ turn > 0
        /\ \/ \E n \in 1 .. Least(Space, Delivers - at) : at' = at + n /\ UNCHANGED connVars
           \/ at' = at /\ \E c \in {"OK", "REMOTE"} : Disconnected("DISCONNECT", c)
    BY <1>2, <1>a DEF ReadFile, MayPoll, headVars
  <2>2. CASE \E n \in 1 .. Least(Space, Delivers - at) : at' = at + n /\ UNCHANGED connVars
    <3>1. UNCHANGED connVars /\ at' \in Nat /\ at' <= Delivers
      BY <1>b, <2>1, <2>2 DEF Sized
    <3> QED BY <2>1, <3>1, ConnRead DEF connVars, Answered
  <2>3. CASE at' = at /\ \E c \in {"OK", "REMOTE"} : Disconnected("DISCONNECT", c)
    BY <1>a, <2>1, <2>3, ConnClosed
  <2> QED BY <2>1, <2>2, <2>3
<1>3. CASE ClosedInPoll
  <2>1. UNCHANGED <<wires, turn, at, state, fd, tls, len>> /\ polled' = NoPoll
    BY <1>3 DEF ClosedInPoll, netVars, connVars, headVars
  <2>2. Wire' = Wire /\ Delivers' = Delivers
    BY <2>1 DEF Wire, Delivers, Fits
  <2> QED BY <2>1, <2>2 DEF Conn, ConnTyped, Live, NoPoll, Polls
<1>4. CASE SendHeaders
  <2>1. /\ UNCHANGED <<wires, turn, at, fd, tls>> /\ polled' = NoPoll /\ len' = 0 /\ at = 0 /\ Live /\ turn > 0
        /\ state = "SEND_HEADERS" /\ state' \in {"RECV_HEADERS", "DISCONNECT"}
    BY <1>4, <1>a DEF SendHeaders, Polled, netVars, Conn, Live
  <2>2. CASE state' = "RECV_HEADERS"
    BY <1>a, <2>1, <2>2, ConnRead DEF Answered, HttpStates
  <2>3. CASE state' = "DISCONNECT"
    <3>1. Wire' = Wire
      BY <2>1 DEF Wire
    <3> QED BY <2>1, <2>3, <3>1 DEF Conn, ConnTyped, Live, NoPoll, Polls, HttpStates, States
  <2> QED BY <2>1, <2>2, <2>3
<1>5. CASE RecvHeader
  <2>1. /\ UNCHANGED <<wires, turn>> /\ polled' = NoPoll /\ state = "RECV_HEADERS" /\ Live /\ turn > 0 /\ len = at
        /\ at' = at + 1 /\ at # Delivers
        /\ \/ Disconnected("DISCONNECT", "LOCAL")
           \/ len' = len + 1 /\ state' \in Answered \cup {"RECV_HEADERS"} /\ UNCHANGED <<fd, tls>>
    BY <1>5, <1>a DEF RecvHeader, Polled, Conn, Live, Gone, Answered
  <2>2. at' \in Nat /\ at' <= Delivers
    BY <1>a, <2>1 DEF Conn
  <2>3. CASE Disconnected("DISCONNECT", "LOCAL")
    BY <2>1, <2>2, <2>3, ConnClosed
  <2>4. CASE len' = len + 1 /\ state' \in Answered \cup {"RECV_HEADERS"} /\ UNCHANGED <<fd, tls>>
    BY <1>a, <2>1, <2>2, <2>4, ConnRead DEF Answered, HttpStates
  <2> QED BY <2>1, <2>3, <2>4
<1>6. CASE HeaderClosed
  <2>1. /\ UNCHANGED <<wires, turn, at>> /\ polled' = NoPoll /\ state = "RECV_HEADERS" /\ fd /\ Live /\ turn > 0
        /\ \/ TriesTls /\ state' = "SEND_HEADERS" /\ tls' = turn /\ UNCHANGED fd
           \/ Disconnected("STOPPED", "LOCAL")
    BY <1>6, <1>a DEF HeaderClosed, Polled, netVars, Live
  <2>2. CASE TriesTls /\ state' = "SEND_HEADERS" /\ tls' = turn /\ UNCHANGED fd
    <3>1. at = 0 /\ Wire' = Wire
      BY <2>1, <2>2 DEF TriesTls, Conn, Wire
    <3>2. Wire.cut \in Nat
      BY <2>1, DeliversSome, WireSizes
    <3>3. 0 <= Delivers'
      BY <3>1, <3>2 DEF Delivers
    <3> QED BY <2>1, <2>2, <3>1, <3>3 DEF Conn, ConnTyped, Live, NoPoll, Polls, HttpStates, States
  <2>3. CASE Disconnected("STOPPED", "LOCAL")
    BY <1>a, <2>1, <2>3, ConnClosed
  <2> QED BY <2>1, <2>2, <2>3
<1>7. CASE IcyLength \/ IcyMeta \/ Body
  <2>1. /\ UNCHANGED <<wires, turn, fd, tls>> /\ polled' = NoPoll /\ Streaming
        /\ state' = state \/ (state = "STREAMING_BUFFERING" /\ state' = "STREAMING_HTTP")
    BY <1>7 DEF IcyLength, IcyMeta, Body, Polled, connVars
  <2>2. turn > 0 /\ at <= Delivers /\ Live
    BY <1>a, <2>1 DEF Streaming, Live, Conn
  <2>3. at' \in Nat /\ at' <= Delivers
    <3>1. CASE IcyLength
      <4>1. at # Delivers
        BY <3>1 DEF IcyLength, Gone
      <4>2. PICK n \in 0 .. Least(Units[at + 1].left, Delivers - at - 1) : at' = at + 1 + n
        BY <3>1 DEF IcyLength
      <4>3. Units[at + 1].left \in Nat
        BY <3>1 DEF IcyLength, Sized
      <4>4. n \in Nat /\ Delivers - at \in Int /\ Delivers - at > 0 /\ n <= Delivers - at - 1
        BY <1>a, <2>2, <4>1, <4>2, <4>3 DEF Least
      <4> QED BY <1>a, <2>2, <4>2, <4>4
    <3>2. CASE IcyMeta
      <4>1. PICK n \in 1 .. Least(meta.left, Delivers - at) : at' = at + n
        BY <3>2 DEF IcyMeta
      <4> QED BY <1>b, <2>2, <4>1 DEF Sized
    <3>3. CASE Body
      <4>1. PICK n \in 1 .. Least(BodySpace, Delivers - at) : at' = at + n
        BY <3>3 DEF Body
      <4> QED BY <1>b, <2>2, <4>1 DEF Sized
    <3> QED BY <1>7, <3>1, <3>2, <3>3
  <2> QED BY <2>1, <2>2, <2>3, ConnRead DEF Streaming, Answered, HttpStates
<1>8. CASE IcyClosed \/ BodyClosed
  <2>1. /\ UNCHANGED <<wires, turn, at>> /\ polled' = NoPoll /\ Live
        /\ \E s \in {"STOPPED", "DISCONNECT"}, c \in {"LOCAL", EndCause} : Disconnected(s, c)
    BY <1>8 DEF IcyClosed, BodyClosed, Polled, netVars, Streaming, Live
  <2> QED BY <1>a, <2>1, ConnClosed
<1>9. CASE StaleBody
  <2>1. /\ UNCHANGED <<netVars, headVars>> /\ polled' = NoPoll /\ Live
        /\ UNCHANGED connVars \/ \E c \in {"REMOTE", EndCause} : Disconnected("DISCONNECT", c)
    BY <1>9 DEF StaleBody, Polled, Live
  <2>2. CASE UNCHANGED connVars
    <3>1. UNCHANGED <<wires, turn, at, state, fd, tls, len>>
      BY <2>1, <2>2 DEF netVars, connVars, headVars
    <3>2. Wire' = Wire /\ Delivers' = Delivers
      BY <3>1 DEF Wire, Delivers, Fits
    <3> QED BY <2>1, <3>1, <3>2 DEF Conn, ConnTyped, Live, NoPoll, Polls
  <2>3. CASE \E c \in {"REMOTE", EndCause} : Disconnected("DISCONNECT", c)
    BY <1>a, <2>1, <2>3, ConnClosed DEF netVars
  <2> QED BY <2>1, <2>2, <2>3
<1> QED BY <1>1, <1>2, <1>3, <1>4, <1>5, <1>6, <1>7, <1>8, <1>9 DEF StreamThread

LEMMA ConnStep == Conn /\ Sized /\ [Next]_vars => Conn'
<1>1. Conn /\ UNCHANGED vars => Conn'
  BY ConnKept DEF vars, netVars, headVars
<1> QED BY <1>1, ConnController, ConnThread DEF Next

----------------------------------------------------------------------------
(* The response header ends at its empty line. *)

HeadAt(w, e) == e \in DOMAIN w.units /\ EndsHeader(w.units, e) /\ InHeader(w.units, e)

\* tok counts the newline characters that end the first n of a header, but for its first one.
Run(u, n, tok) ==
    n > 0 =>
        /\ tok \in 0 .. 3 /\ tok < n
        /\ \A j \in (n - tok + 1) .. n : u[j].k = "n"
        /\ tok + 1 < n => u[n - tok].k # "n"

\* While the header is read it has no end yet; once it was answered it has one, behind which at is.
Heads ==
    /\ state \in Answered => HeadAt(Wire, HeadLen) /\ HeadLen <= at
    /\ state = "STREAMING_WAIT" => at = HeadLen
    /\ state = "RECV_HEADERS" => InHeader(Units, at + 1) /\ Run(Units, at, endtok)

LEMMA HeadEnds ==
  ASSUME NEW w, IsWire(w), w.asked # "file", NEW e, HeadAt(w, e)
  PROVE  Max({0} \cup {i \in DOMAIN w.units : w.units[i].k \in {"c", "n"}}) = e
<1> DEFINE S == {0} \cup {i \in DOMAIN w.units : w.units[i].k \in {"c", "n"}}
<1>1. e \in DOMAIN w.units /\ EndsHeader(w.units, e) /\ InHeader(w.units, e)
  BY DEF HeadAt
<1>2. DOMAIN w.units = 1 .. Len(w.units) /\ Len(w.units) \in Nat
  BY WireSizes
<1>3. \A i \in DOMAIN w.units : w.units[i].k \in {"c", "n"} <=> InHeader(w.units, i)
  BY DEF IsWire, IsResponse
<1>4. e \in S
  BY <1>1, <1>3
<1>5. ASSUME NEW i \in S PROVE i <= e
  <2>1. SUFFICES ASSUME i \in DOMAIN w.units, InHeader(w.units, i) PROVE i <= e
    BY <1>1, <1>2, <1>3
  <2> QED BY <1>1, <1>2, <2>1 DEF InHeader
<1>6. S \subseteq Int
  BY <1>2
<1> HIDE DEF S
<1>7. \A x \in S : (\A y \in S : x >= y) => x = e
  BY <1>4, <1>5, <1>6
<1>8. \A y \in S : e >= y
  BY <1>4, <1>5, <1>6
<1>9. Max(S) = e
  BY <1>4, <1>7, <1>8 DEF Max
<1> QED BY <1>9 DEF S

LEMMA RunStep ==
  ASSUME NEW u, NEW n \in Nat, NEW tok, Run(u, n, tok),
         NEW t, t = IF n > 0 /\ u[n + 1].k = "n" THEN tok + 1 ELSE 0
  PROVE  (t = HeaderEnd <=> EndsHeader(u, n + 1)) /\ (t # HeaderEnd => Run(u, n + 1, t))
<1>1. CASE n = 0
  BY <1>1 DEF EndsHeader, Run, HeaderEnd
<1>2. CASE n > 0 /\ u[n + 1].k # "n"
  BY <1>2 DEF EndsHeader, Run, HeaderEnd
<1>3. CASE n > 0 /\ u[n + 1].k = "n"
  <2>1. t = tok + 1 /\ tok \in 0 .. 3 /\ tok < n
    BY <1>3 DEF Run
  <2>2. \A j \in (n - tok + 1) .. (n + 1) : u[j].k = "n"
    <3> SUFFICES ASSUME NEW j \in (n - tok + 1) .. (n + 1) PROVE u[j].k = "n"
      OBVIOUS
    <3>1. j = n + 1 \/ j \in (n - tok + 1) .. n
      BY <2>1
    <3> QED BY <1>3, <3>1 DEF Run
  <2>3. tok + 1 < n => u[n - tok].k # "n"
    BY <1>3 DEF Run
  <2>4. CASE tok = 3
    BY <2>1, <2>2, <2>4 DEF EndsHeader, HeaderEnd
  <2>5. CASE tok < 3
    <3>1. ~EndsHeader(u, n + 1)
      <4>1. CASE n + 1 >= 5
        <5>1. n - tok \in (n + 1 - 3) .. (n + 1) /\ tok + 1 < n
          BY <2>1, <2>5, <4>1
        <5> QED BY <2>3, <5>1 DEF EndsHeader
      <4> QED BY <4>1 DEF EndsHeader
    <3>2. (n + 1) - t = n - tok /\ (n + 1) - t + 1 = n - tok + 1 /\ t \in 0 .. 3 /\ t < n + 1 /\ t + 1 < n + 1 <=> tok + 1 < n
      BY <2>1, <2>5
    <3> QED BY <2>1, <2>2, <2>3, <2>5, <3>1, <3>2 DEF Run, HeaderEnd
  <2> QED BY <2>1, <2>4, <2>5
<1> QED BY <1>1, <1>2, <1>3

LEMMA HeadsStep == Conn /\ Sized /\ Heads /\ [Next]_vars => Heads'
<1> SUFFICES ASSUME Conn, Sized, Heads, [Next]_vars PROVE Heads'
  OBVIOUS
<1>a. Conn'
  BY ConnStep
<1>1. CASE UNCHANGED <<wires, turn, at, state, endtok>>
  <2>1. Wire' = Wire /\ Units' = Units /\ HeadLen' = HeadLen
    BY <1>1 DEF Wire, Units, HeadLen
  <2> QED BY <1>1, <2>1 DEF Heads
<1>2. CASE state' \notin Answered \cup {"RECV_HEADERS"}
  BY <1>2 DEF Heads, Answered
<1>3. CASE /\ UNCHANGED <<wires, turn>> /\ state \in Answered
           /\ state' \in {"STREAMING_BUFFERING", "STREAMING_HTTP"} /\ at' >= at
  <2>1. Wire' = Wire /\ Units' = Units /\ HeadLen' = HeadLen
    BY <1>3 DEF Wire, Units, HeadLen
  <2>2. HeadLen \in Nat /\ HeadLen <= at /\ HeadAt(Wire, HeadLen)
    <3>1. HeadAt(Wire, HeadLen) /\ HeadLen <= at
      BY <1>3 DEF Heads
    <3>2. turn > 0
      BY <1>3 DEF Conn, ConnTyped, Answered
    <3>3. DOMAIN Wire.units = 1 .. Len(Wire.units) /\ Len(Wire.units) \in Nat
      BY <3>2, DeliversSome, WireSizes
    <3> QED BY <3>1, <3>3 DEF HeadAt
  <2> QED BY <1>a, <1>3, <2>1, <2>2 DEF Heads, Conn, ConnTyped
<1>4. CASE SendHeaders
  <2>1. CASE state' = "RECV_HEADERS"
    <3>1. at' = 0
      BY <1>4 DEF SendHeaders, Conn, netVars
    <3> QED BY <2>1, <3>1 DEF Heads, Answered, InHeader, Run
  <2>2. state' \in {"RECV_HEADERS", "DISCONNECT"}
    BY <1>4 DEF SendHeaders
  <2> QED BY <1>2, <2>1, <2>2 DEF Answered
<1>5. CASE RecvHeader
  <2>1. CASE state' = "DISCONNECT"
    BY <1>2, <2>1 DEF Answered
  <2>2. CASE state' # "DISCONNECT"
    <3>1. /\ UNCHANGED <<wires, turn>> /\ at' = at + 1 /\ at # Delivers /\ state = "RECV_HEADERS"
          /\ endtok' = IF len > 0 /\ Units[at'].k = "n" THEN endtok + 1 ELSE 0
          /\ state' = IF endtok' # HeaderEnd THEN state
                      ELSE IF Wire.wait THEN "STREAMING_WAIT" ELSE "STREAMING_BUFFERING"
      BY <1>5, <2>2 DEF RecvHeader, Disconnected, Gone
    <3>2. Wire' = Wire /\ Units' = Units /\ HeadLen' = HeadLen
      BY <3>1 DEF Wire, Units, HeadLen
    <3>3. at \in Nat /\ turn > 0 /\ at' <= Delivers' /\ len = at /\ Wire.asked # "file"
      BY <1>a, <3>1 DEF Conn, ConnTyped, Live, HttpStates, HeaderEnd
    <3>4. IsWire(Wire) /\ at + 1 \in DOMAIN Units
      BY <1>a, <3>1, <3>2, <3>3, DeliversSome, WireSizes DEF Conn, ConnTyped, Units
    <3>5. Run(Units, at, endtok) /\ InHeader(Units, at + 1)
      BY <3>1 DEF Heads
    <3>6. /\ endtok' = HeaderEnd <=> EndsHeader(Units, at + 1)
          /\ endtok' # HeaderEnd => Run(Units, at + 1, endtok')
      BY <3>1, <3>3, <3>5, RunStep
    <3>7. CASE endtok' # HeaderEnd
      <4>1. InHeader(Units, at + 1 + 1)
        BY <3>3, <3>5, <3>6, <3>7 DEF InHeader
      <4> QED BY <3>1, <3>2, <3>6, <3>7, <4>1 DEF Heads, Answered
    <3>8. CASE endtok' = HeaderEnd
      <4>1. HeadAt(Wire, at + 1)
        BY <3>4, <3>5, <3>6, <3>8 DEF HeadAt, Units
      <4>2. HeadLen = at + 1
        BY <3>3, <3>4, <4>1, HeadEnds DEF HeadLen, Units
      <4>3. state' # "RECV_HEADERS"
        BY <3>1, <3>8
      <4> QED BY <3>1, <3>2, <3>3, <4>1, <4>2, <4>3 DEF Heads
    <3> QED BY <3>7, <3>8
  <2> QED BY <2>1, <2>2
<1>6. CASE StreamThread
  <2>1. CASE Poll \/ ClosedInPoll \/ ReadFile \/ StaleBody \/ HeaderClosed \/ IcyClosed \/ BodyClosed
    <3>1. CASE Poll \/ ClosedInPoll
      BY <1>1, <3>1 DEF Poll, ClosedInPoll, netVars, connVars, headVars
    <3>2. CASE ReadFile
      BY <1>2, <3>2 DEF ReadFile, Disconnected, Answered, connVars
    <3>3. CASE StaleBody
      BY <1>2, <3>3 DEF StaleBody, Disconnected, Answered, connVars
    <3>4. CASE HeaderClosed
      BY <1>2, <3>4 DEF HeaderClosed, Disconnected, Answered
    <3>5. CASE IcyClosed \/ BodyClosed
      BY <1>2, <3>5 DEF IcyClosed, BodyClosed, Disconnected, Answered
    <3> QED BY <2>1, <3>1, <3>2, <3>3, <3>4, <3>5
  <2>2. CASE IcyLength \/ IcyMeta \/ Body
    <3>1. /\ UNCHANGED <<wires, turn>> /\ Streaming
          /\ state' = state \/ (state = "STREAMING_BUFFERING" /\ state' = "STREAMING_HTTP")
      BY <2>2 DEF IcyLength, IcyMeta, Body, connVars
    <3>2. at' >= at
      <4>1. \/ \E k \in Int : \E n \in 0 .. k : at' = at + 1 + n
            \/ \E k \in Int : \E n \in 1 .. k : at' = at + n
        <5>d. Live /\ turn > 0
          BY <3>1 DEF Streaming, Live, Conn, ConnTyped
        <5>e. Delivers \in Nat /\ at \in Nat
          BY <5>d, DeliversSome DEF Conn, ConnTyped
        <5>f. \A a, b \in Int : Least(a, b) \in Int
          BY DEF Least
        <5>1. CASE IcyLength
          <6>1. Units[at + 1].left \in Int /\ Delivers - at - 1 \in Int
            BY <5>1, <5>e DEF IcyLength, Sized
          <6> QED BY <5>1, <5>f, <6>1 DEF IcyLength
        <5>2. CASE IcyMeta
          <6>1. meta.left \in Int /\ Delivers - at \in Int
            BY <5>e DEF Sized
          <6> QED BY <5>2, <5>f, <6>1 DEF IcyMeta
        <5>3. CASE Body
          <6>1. BodySpace \in Int /\ Delivers - at \in Int
            BY <5>e DEF Sized
          <6> QED BY <5>3, <5>f, <6>1 DEF Body
        <5> QED BY <2>2, <5>1, <5>2, <5>3
      <4> QED BY <4>1 DEF Conn, ConnTyped
    <3> QED BY <1>3, <3>1, <3>2 DEF Streaming, Answered
  <2> QED BY <1>4, <1>5, <1>6, <2>1, <2>2 DEF StreamThread
<1>7. CASE Controller \/ Consume
  <2>1. CASE StreamSock
    BY <1>2, <2>1 DEF StreamSock, Answered
  <2>2. CASE Unreachable \/ Quit
    BY <1>2, <2>2 DEF Unreachable, Quit, Answered
  <2>3. CASE StreamFile
    BY <1>2, <2>3 DEF StreamFile, Answered
  <2>4. CASE Report
    BY <1>1, <1>2, <2>4 DEF Report, netVars, headVars, Answered
  <2>5. CASE Cont
    BY <1>3, <2>5 DEF Cont, netVars, Answered, Conn, ConnTyped
  <2>6. CASE Consume
    BY <1>1, <2>6 DEF Consume, netVars, connVars, headVars
  <2> QED BY <1>7, <2>1, <2>2, <2>3, <2>4, <2>5, <2>6 DEF Controller
<1>8. CASE UNCHANGED vars
  BY <1>1, <1>8 DEF vars, netVars, connVars, headVars
<1> QED BY <1>6, <1>7, <1>8 DEF Next

----------------------------------------------------------------------------
(* What the controller is told of the end. *)

\* What DSCO will say is so, whatever has been said before.
Told ==
    state = "DISCONNECT" /\ ~NotFound =>
        /\ ~stale => (cause = "OK" => at = Wire.cut /\ Wire.how = "close" /\ (Wire.asked = "file" \/ at >= HeadLen))
        /\ ~stale => (cause = "REMOTE" => at = Wire.cut /\ Wire.how = "reset")
        /\ cause = "UNREACHABLE" => heard = {}

\* A body that came to its end was sent whole.
LEMMA AllCame ==
  Conn /\ Heads /\ state \in Answered /\ Gone => at = Wire.cut /\ at >= HeadLen
<1> SUFFICES ASSUME Conn, Heads, state \in Answered, Gone PROVE at = Wire.cut /\ at >= HeadLen
  OBVIOUS
<1>1. turn > 0 /\ Live /\ at = Delivers
  BY DEF Conn, ConnTyped, Answered, Live, Gone
<1>2. HeadAt(Wire, HeadLen) /\ HeadLen <= at
  BY DEF Heads
<1>3. HeadLen \in Int /\ HeadLen >= 5
  BY <1>1, <1>2, DeliversSome, WireSizes DEF HeadAt, EndsHeader
<1>4. Delivers # 0
  BY <1>1, <1>2, <1>3
<1> QED BY <1>1, <1>2, <1>3, <1>4 DEF Delivers, Conn, ConnTyped

LEMMA ToldStep == Conn /\ Heads /\ Told /\ [Next]_vars => Told'
<1> SUFFICES ASSUME Conn, Heads, Told, [Next]_vars PROVE Told'
  OBVIOUS
<1>1. CASE UNCHANGED <<wires, turn, at, state, cause, heard, stale>>
  <2>1. Wire' = Wire /\ HeadLen' = HeadLen /\ NotFound' = NotFound
    BY <1>1 DEF Wire, Units, HeadLen, NotFound
  <2> QED BY <1>1, <2>1 DEF Told
<1>2. CASE state' # "DISCONNECT"
  BY <1>2 DEF Told
<1>3. CASE cause' = "LOCAL"
  BY <1>3 DEF Told
<1>4. CASE Unreachable
  <2>1. heard' = {} /\ cause' = "UNREACHABLE"
    BY <1>4 DEF Unreachable, StartConnection
  <2> QED BY <2>1 DEF Told
<1>5. CASE StreamFile
  <2>1. CASE wires[turn + 1].peer = "down"
    <3>1. Wire' = wires[turn + 1] /\ wires[turn + 1].asked = "file"
      BY <1>5 DEF StreamFile, Wire, Conn, ConnTyped
    <3> QED BY <2>1, <3>1 DEF Told, NotFound
  <2>2. CASE wires[turn + 1].peer # "down"
    BY <1>2, <1>5, <2>2 DEF StreamFile
  <2> QED BY <2>1, <2>2
<1>6. CASE ReadFile
  <2>1. CASE state' = "DISCONNECT"
    <3>1. /\ UNCHANGED <<wires, turn, at, heard, stale>> /\ state = "STREAMING_FILE" /\ at = Delivers
          /\ cause' = IF Wire.how = "close" THEN "OK" ELSE "REMOTE"
      BY <1>6, <2>1 DEF ReadFile, Gone, connVars, histVars, Disconnected
    <3>2. Wire' = Wire /\ turn > 0 /\ Wire.asked = "file"
      BY <3>1 DEF Wire, Conn, ConnTyped
    <3>3. Wire.how \in {"close", "reset"} /\ at = Wire.cut
      BY <3>1, <3>2, DeliversSome, WireSizes DEF Delivers, Fits
    <3> QED BY <3>1, <3>2, <3>3 DEF Told
  <2> QED BY <1>2, <2>1
<1>7. CASE BodyClosed
  <2>1. /\ UNCHANGED <<wires, turn, at, heard>> /\ state \in Answered /\ Gone /\ stale' = (stale \/ polled.turn # turn)
        /\ cause' = IF Wire.how = "close" THEN "OK" ELSE "REMOTE"
    BY <1>7 DEF BodyClosed, Polled, Streaming, Answered, netVars, Disconnected, EndCause
  <2>2. Wire' = Wire /\ HeadLen' = HeadLen
    BY <2>1 DEF Wire, Units, HeadLen
  <2>3. turn > 0
    BY <2>1 DEF Conn, ConnTyped, Answered
  <2>4. Wire.how \in {"close", "reset"}
    BY <2>3, DeliversSome, WireSizes
  <2> QED BY <2>1, <2>2, <2>4, AllCame DEF Told
<1>8. CASE StaleBody
  <2>1. polled.ready = "in" /\ state \in {"SEND_HEADERS", "STREAMING_FILE"} /\ stale' = (stale \/ polled.turn # turn)
    BY <1>8 DEF StaleBody, Polled
  <2>2. stale'
    BY <2>1 DEF Conn
  <2>3. cause' \in {"OK", "REMOTE"} \/ UNCHANGED <<state, cause>>
    BY <1>8 DEF StaleBody, Disconnected, EndCause, connVars
  <2> QED BY <2>1, <2>2, <2>3 DEF Told
<1>9. CASE Poll \/ ClosedInPoll \/ SendHeaders \/ RecvHeader \/ HeaderClosed \/ IcyLength \/ IcyMeta \/ IcyClosed \/ Body
  <2>1. CASE Poll \/ ClosedInPoll
    BY <1>1, <2>1 DEF Poll, ClosedInPoll, netVars, connVars, histVars
  <2>2. CASE SendHeaders
    BY <1>2, <1>3, <2>2 DEF SendHeaders
  <2>3. CASE RecvHeader
    BY <1>2, <1>3, <2>3 DEF RecvHeader, Disconnected
  <2>4. CASE HeaderClosed \/ IcyClosed
    BY <1>2, <2>4 DEF HeaderClosed, IcyClosed, Disconnected
  <2>5. CASE IcyLength \/ IcyMeta
    BY <1>2, <2>5 DEF IcyLength, IcyMeta, Streaming, connVars
  <2>6. CASE Body
    BY <1>2, <2>6 DEF Body, Streaming
  <2> QED BY <1>9, <2>1, <2>2, <2>3, <2>4, <2>5, <2>6
<1>10. CASE StreamSock \/ Quit \/ Report \/ Cont \/ Consume
  <2>1. CASE StreamSock \/ Quit
    BY <1>2, <2>1 DEF StreamSock, Quit
  <2>2. CASE Report
    BY <1>2, <2>2 DEF Report
  <2>3. CASE Cont
    BY <1>2, <2>3 DEF Cont
  <2>4. CASE Consume
    BY <1>1, <2>4 DEF Consume, netVars, connVars, histVars
  <2> QED BY <1>10, <2>1, <2>2, <2>3, <2>4
<1>11. CASE UNCHANGED vars
  BY <1>1, <1>11 DEF vars, netVars, connVars, histVars
<1> QED BY <1>4, <1>5, <1>6, <1>7, <1>8, <1>9, <1>10, <1>11 DEF Next, StreamThread, Controller

----------------------------------------------------------------------------
(* What is read is of the body where the counters say so, and metadata elsewhere. *)

\* The units that come next belong to the piece of metadata whose length is unit l.
Copied(l) ==
    /\ Units[l].k = "l" /\ l <= at /\ at + meta.left = l + Units[l].left
    /\ len = at - l /\ \A i \in 1 .. len : mem[i] = l + i
Framed ==
    IF meta.left = 0 THEN Sounds(Wire, at + meta.next - meta.interval)
    ELSE meta.next = 0 /\ \E l \in DOMAIN Units : Copied(l)
Counters(send) == [interval : Nat, next : Nat, left : 0 .. (MaxHeader - 1), send : {send}]
Metas ==
    /\ meta \in Counters(meta.send) /\ meta.next <= meta.interval
    /\ state \in {"SEND_HEADERS", "RECV_HEADERS", "STREAMING_WAIT"} => meta.interval = 0 /\ meta.left = 0
    /\ Streaming => meta.interval = Wire.metaint
    /\ Streaming /\ meta.interval > 0 => Framed

\* The buffer does not overflow, and holds what the body consists of.
InOrder ==
    /\ \A i, j \in DOMAIN body : i < j => body[i] < body[j]
    /\ Range(body) = {i \in 1 .. at : InBody(Units[i].k)}
Buffers ==
    /\ body \in Seq(Nat) /\ taken \in Nat /\ taken <= Len(body) /\ Len(body) - taken <= SCap
    /\ Live \/ at > 0 => InOrder

LEMMA LeastIs == ASSUME NEW a \in Int, NEW b \in Int PROVE Least(a, b) \in Int /\ Least(a, b) <= a /\ Least(a, b) <= b
  BY DEF Least

LEMMA SpaceIs ==
  Buffers => Space \in Int /\ Space <= SCap - (Len(body) - taken)
<1> SUFFICES ASSUME Buffers PROVE Space \in Int /\ Space <= SCap - (Len(body) - taken)
  OBVIOUS
<1>1. Len(body) \in Nat /\ taken \in Nat /\ SCap \in Nat \ {0}
  BY HttpAssumption DEF Buffers
<1>2. WriteIndex \in Int
  BY <1>1 DEF WriteIndex
<1>3. SCap - (Len(body) - taken) \in Int /\ SCap - WriteIndex \in Int
  BY <1>1, <1>2
<1> QED BY <1>3, LeastIs DEF Space

\* At a length, with more to come, the next unit is one, of a piece that has room.
LEMMA LengthNext ==
  Conn /\ Metas /\ Streaming /\ AtMeta /\ meta.left = 0 /\ ~Gone =>
    /\ at + 1 \in DOMAIN Units /\ Units[at + 1].k = "l" /\ Units[at + 1].left \in 0 .. (MaxHeader - 1)
    /\ \A i \in (at + 2) .. (at + 1 + Units[at + 1].left) : i \in DOMAIN Units => Units[i].k = "m"
    /\ Sounds(Wire, at + 1 + Units[at + 1].left)
<1> SUFFICES ASSUME Conn, Metas, Streaming, AtMeta, meta.left = 0, ~Gone
             PROVE  /\ at + 1 \in DOMAIN Units /\ Units[at + 1].k = "l" /\ Units[at + 1].left \in 0 .. (MaxHeader - 1)
                    /\ \A i \in (at + 2) .. (at + 1 + Units[at + 1].left) : i \in DOMAIN Units => Units[i].k = "m"
                    /\ Sounds(Wire, at + 1 + Units[at + 1].left)
  OBVIOUS
<1>1. Live /\ turn > 0 /\ at \in Nat /\ at <= Delivers /\ at # Delivers /\ Wire.asked # "file"
  BY DEF Streaming, Live, Conn, ConnTyped, Gone, HttpStates
<1>2. IsWire(Wire) /\ Delivers \in Nat /\ Delivers <= Wire.cut
  BY <1>1, DeliversSome
<1>3. at + 1 \in DOMAIN Units
  BY <1>1, <1>2, WireSizes DEF Units
<1>4. meta.next = 0 /\ meta.interval = Wire.metaint /\ Wire.metaint > 0 /\ Wire.metaint \in Nat
  BY <1>2, WireSizes DEF AtMeta, Metas
<1>5. Sounds(Wire, at - Wire.metaint)
  BY <1>1, <1>4 DEF Metas, Framed
<1>6. Units[at + 1].k = "l"
  <2>1. at - Wire.metaint + Wire.metaint + 1 = at + 1
    BY <1>1, <1>4
  <2> QED BY <1>3, <1>5, <2>1 DEF Sounds, Units
<1>7. IsResponse(Wire)
  BY <1>1, <1>2 DEF IsWire
<1> DEFINE l == at + 1
<1>8. l \in DOMAIN Wire.units /\ Wire.units[l].k = "l"
  BY <1>3, <1>6 DEF Units
<1>9. /\ Wire.units[l].left \in 0 .. (MaxHeader - 1)
      /\ \A i \in (l + 1) .. (l + Wire.units[l].left) : i \in DOMAIN Wire.units => Wire.units[i].k = "m"
      /\ Sounds(Wire, l + Wire.units[l].left)
  <2> HIDE DEF l
  <2> QED BY <1>4, <1>7, <1>8 DEF IsResponse
<1> QED BY <1>1, <1>3, <1>6, <1>9 DEF Units

LEMMA SizedIs == Conn /\ Metas /\ Buffers => Sized
<1> SUFFICES ASSUME Conn, Metas, Buffers PROVE Sized
  OBVIOUS
<1>1. meta.left \in Int /\ meta.next \in Int
  BY HttpAssumption DEF Metas, Counters
<1>2. Space \in Int
  BY SpaceIs
<1>3. BodySpace \in Int
  BY <1>1, <1>2, LeastIs DEF BodySpace
<1>4. Streaming /\ AtMeta /\ meta.left = 0 /\ ~Gone => Units[at + 1].left \in Nat
  BY LengthNext, HttpAssumption
<1> QED BY <1>1, <1>2, <1>3, <1>4 DEF Sized

\* What may be read of the body is of the body.
LEMMA BodyNext ==
  ASSUME Conn, Heads, Metas, Buffers, Streaming, ~AtMeta, NEW n \in 1 .. Least(BodySpace, Delivers - at)
  PROVE  /\ at \in Nat /\ n \in Nat /\ n <= Space /\ (meta.interval > 0 => n <= meta.next /\ meta.left = 0)
         /\ \A i \in (at + 1) .. (at + n) : i \in DOMAIN Units /\ InBody(Units[i].k)
<1>1. turn > 0 /\ at \in Nat /\ Wire.asked # "file" /\ state \in Answered
  BY DEF Streaming, Conn, ConnTyped, HttpStates, Answered
<1>2. IsWire(Wire) /\ Delivers \in Nat /\ Delivers <= Wire.cut /\ IsResponse(Wire)
  BY <1>1, DeliversSome DEF IsWire
<1>3. meta.next \in Nat /\ meta.left \in Nat /\ meta.interval \in Nat
  BY HttpAssumption DEF Metas, Counters
<1>4. Space \in Int /\ BodySpace \in Int /\ BodySpace <= Space /\ (meta.interval > 0 => BodySpace <= meta.next)
  <2>1. Space \in Int
    BY SpaceIs
  <2>2. CASE meta.interval > 0
    BY <1>3, <2>1, <2>2 DEF BodySpace, Least
  <2>3. CASE ~(meta.interval > 0)
    BY <2>1, <2>3 DEF BodySpace
  <2> QED BY <2>2, <2>3
<1>5. n \in Nat /\ n <= BodySpace /\ n <= Delivers - at
  <2>1. Least(BodySpace, Delivers - at) <= BodySpace /\ Least(BodySpace, Delivers - at) <= Delivers - at
        /\ Least(BodySpace, Delivers - at) \in Int
    BY <1>1, <1>2, <1>4, LeastIs
  <2> QED BY <1>1, <1>2, <1>4, <2>1
<1>6. meta.interval > 0 => meta.left = 0
  BY DEF AtMeta, Metas, Framed
<1>7. ASSUME NEW i \in (at + 1) .. (at + n) PROVE i \in DOMAIN Units /\ InBody(Units[i].k)
  <2>1. i \in DOMAIN Units
    BY <1>1, <1>2, <1>5, WireSizes DEF Units
  <2>2. CASE meta.interval = 0
    <3>1. Wire.metaint = 0
      BY <2>2 DEF Metas
    <3>2. HeadAt(Wire, HeadLen) /\ HeadLen <= at
      BY <1>1 DEF Heads
    <3>3. HeadLen \in Int /\ HeadLen >= 5
      BY <1>2, <3>2, WireSizes DEF HeadAt, EndsHeader
    <3>4. ~InHeader(Units, i)
      BY <1>1, <3>2, <3>3 DEF InHeader, HeadAt, Units
    <3> QED BY <1>2, <2>1, <3>1, <3>4 DEF IsResponse, InBody, Units
  <2>3. CASE meta.interval > 0
    <3>1. Sounds(Wire, at + meta.next - meta.interval) /\ meta.interval = Wire.metaint
      BY <1>6, <2>3 DEF Metas, Framed
    <3>2. i \in (at + meta.next - meta.interval + 1) .. (at + meta.next - meta.interval + Wire.metaint)
      <4>1. meta.next <= meta.interval
        BY DEF Metas
      <4> QED BY <1>1, <1>3, <1>4, <1>5, <2>3, <3>1, <4>1
    <3> QED BY <2>1, <3>1, <3>2 DEF Sounds, Units
  <2> QED BY <1>3, <2>1, <2>2, <2>3
<1>8. n <= Space /\ (meta.interval > 0 => n <= meta.next)
  BY <1>3, <1>4, <1>5
<1> QED BY <1>1, <1>5, <1>6, <1>7, <1>8

\* What is read of a piece of metadata belongs to it.
LEMMA PieceNext ==
  ASSUME Conn, Metas, Streaming, AtMeta, meta.left > 0, ~Gone,
         NEW n \in 1 .. Least(meta.left, Delivers - at)
  PROVE  /\ n \in Nat /\ n <= meta.left /\ at \in Nat /\ meta.left \in Nat
         /\ \A i \in (at + 1) .. (at + n) : i \in DOMAIN Units /\ Units[i].k = "m"
         /\ \E l \in DOMAIN Units :
               Copied(l) /\ Sounds(Wire, l + Units[l].left) /\ Units[l].left \in 0 .. (MaxHeader - 1)
<1>1. turn > 0 /\ at \in Nat /\ Wire.asked # "file"
  BY DEF Streaming, Conn, ConnTyped, HttpStates
<1>2. IsWire(Wire) /\ Delivers \in Nat /\ Delivers <= Wire.cut /\ IsResponse(Wire)
  BY <1>1, DeliversSome DEF IsWire
<1>3. meta.left \in Nat /\ Wire.metaint > 0
  BY HttpAssumption DEF Metas, Counters, AtMeta
<1>4. n \in Nat /\ n <= meta.left /\ n <= Delivers - at
  <2>1. /\ Least(meta.left, Delivers - at) <= meta.left /\ Least(meta.left, Delivers - at) <= Delivers - at
        /\ Least(meta.left, Delivers - at) \in Int
    <3>1. Delivers - at \in Int
      BY <1>1, <1>2
    <3> QED BY <1>3, <3>1 DEF Least
  <2> QED BY <1>1, <1>2, <1>3, <2>1
<1>5. PICK l \in DOMAIN Units : Copied(l)
  BY <1>3 DEF AtMeta, Metas, Framed
<1>6. /\ Units[l].left \in 0 .. (MaxHeader - 1)
      /\ \A i \in (l + 1) .. (l + Units[l].left) : i \in DOMAIN Units => Units[i].k = "m"
      /\ Sounds(Wire, l + Units[l].left)
  BY <1>2, <1>3, <1>5 DEF IsResponse, Copied, Units
<1>7. l \in Int /\ DOMAIN Units = 1 .. Len(Wire.units) /\ Wire.cut <= Len(Wire.units) /\ Len(Wire.units) \in Nat /\ Wire.cut \in Nat
  BY <1>2, WireSizes DEF Units
<1>8. ASSUME NEW i \in (at + 1) .. (at + n) PROVE i \in DOMAIN Units /\ Units[i].k = "m"
  <2>1. i \in DOMAIN Units
    BY <1>1, <1>2, <1>4, <1>7
  <2>2. at + meta.left = l + Units[l].left /\ l <= at /\ Units[l].left \in Int
    BY <1>5, <1>6, HttpAssumption DEF Copied
  <2>3. i \in (l + 1) .. (l + Units[l].left)
    BY <1>1, <1>3, <1>4, <1>7, <2>2
  <2> QED BY <1>6, <2>1, <2>3
<1> QED BY <1>1, <1>3, <1>4, <1>5, <1>6, <1>8

LEMMA MetasInit == Init => Metas
<1> SUFFICES ASSUME Init PROVE Metas
  OBVIOUS
<1>1. meta = [interval |-> 0, next |-> 0, left |-> 0, send |-> FALSE] /\ ~Streaming
  BY DEF Init, NoMeta, Streaming
<1>2. 0 \in 0 .. (MaxHeader - 1)
  BY HttpAssumption
<1> QED BY <1>1, <1>2 DEF Metas, Counters

LEMMA MetasIdle ==
  ASSUME meta' \in Counters(meta'.send), meta'.next <= meta'.interval, state' \notin HttpStates
  PROVE  Metas'
  BY DEF Metas, HttpStates, Streaming

LEMMA MetasKept ==
  ASSUME Metas, UNCHANGED <<wires, turn, at, len, mem>>, state' \in {state, "STOPPED", "DISCONNECT"},
         meta' = meta \/ meta' = [meta EXCEPT !.send = FALSE]
  PROVE  Metas'
<1>1. /\ meta' \in Counters(meta'.send) /\ meta'.interval = meta.interval /\ meta'.next = meta.next
      /\ meta'.left = meta.left
  BY DEF Metas, Counters
<1>2. Wire' = Wire /\ Units' = Units
  BY DEF Wire, Units
<1>3. meta'.next <= meta'.interval
  BY <1>1 DEF Metas
<1>4. CASE state' = state
  <2>1. Framed => Framed'
    BY <1>1, <1>2 DEF Framed, Copied
  <2> QED BY <1>1, <1>2, <1>3, <1>4, <2>1 DEF Metas, Streaming
<1>5. CASE state' # state
  BY <1>1, <1>3, <1>5, MetasIdle DEF HttpStates
<1> QED BY <1>4, <1>5

LEMMA MetasController == Conn /\ Heads /\ Metas /\ (Controller \/ Consume) => Metas'
<1> SUFFICES ASSUME Conn, Heads, Metas, Controller \/ Consume PROVE Metas'
  OBVIOUS
<1>n. NoMeta \in Counters(NoMeta.send) /\ NoMeta.next <= NoMeta.interval /\ NoMeta.interval = 0 /\ NoMeta.left = 0
  BY HttpAssumption DEF NoMeta, Counters
<1>1. CASE StreamSock
  BY <1>1, <1>n DEF StreamSock, Metas, Streaming
<1>2. CASE Unreachable
  BY <1>2, MetasIdle DEF Unreachable, Metas, HttpStates
<1>3. CASE StreamFile
  <2>1. meta' = NoMeta /\ state' \in {"STREAMING_FILE", "DISCONNECT"}
    BY <1>3 DEF StreamFile
  <2> QED BY <1>n, <2>1, MetasIdle DEF HttpStates
<1>4. CASE Quit
  BY <1>4, MetasKept DEF Quit, netVars, headVars
<1>5. CASE Report
  <2>1. state' \in {state, "STOPPED"} /\ meta' = [meta EXCEPT !.send = FALSE] /\ UNCHANGED <<wires, turn, at, len, mem>>
    BY <1>5 DEF Report, netVars, headVars
  <2> QED BY <2>1, MetasKept
<1>6. CASE Cont
  <2>1. /\ UNCHANGED <<wires, turn, at>> /\ state = "STREAMING_WAIT" /\ state' = "STREAMING_BUFFERING"
        /\ meta' = [meta EXCEPT !.interval = Wire.metaint, !.next = Wire.metaint]
    BY <1>6 DEF Cont, netVars
  <2>2. turn > 0 /\ Wire.asked # "file" /\ at \in Nat
    BY <2>1 DEF Conn, ConnTyped, HttpStates
  <2>3. IsWire(Wire) /\ IsResponse(Wire) /\ Wire.metaint \in Nat
    BY <2>2, DeliversSome, WireSizes DEF IsWire
  <2>4. /\ meta' \in Counters(meta'.send) /\ meta'.interval = Wire.metaint /\ meta'.next = Wire.metaint
        /\ meta'.left = 0
    BY <2>1, <2>3 DEF Metas, Counters
  <2>5. Wire' = Wire
    BY <2>1 DEF Wire
  <2>6. ASSUME Wire.metaint > 0 PROVE Sounds(Wire, at)
    BY <2>1, <2>3, <2>6 DEF Heads, HeadAt, IsResponse, Answered
  <2>7. at' + meta'.next - meta'.interval = at
    BY <2>1, <2>2, <2>3, <2>4
  <2>8. meta'.interval > 0 => Framed'
    BY <2>4, <2>5, <2>6, <2>7 DEF Framed
  <2> QED BY <2>1, <2>3, <2>4, <2>5, <2>8 DEF Metas, Streaming
<1>7. CASE Consume
  BY <1>7, MetasKept DEF Consume, netVars, headVars, connVars
<1> QED BY <1>1, <1>2, <1>3, <1>4, <1>5, <1>6, <1>7 DEF Controller

\* What MetaRead makes of the counters.
LEMMA MetaReadIs ==
  ASSUME Metas, AtMeta, NEW left \in 0 .. (MaxHeader - 1), NEW n \in Nat, n <= left, NEW m, m = MetaRead(left, n)
  PROVE  /\ m \in Counters(m.send) /\ m.interval = meta.interval /\ m.next <= m.interval
         /\ m.left = left - n
         /\ m.left = 0 => m.next = m.interval
         /\ m.left > 0 => m.next = 0
<1>1. meta.interval \in Nat /\ left - n \in 0 .. (MaxHeader - 1) /\ meta \in Counters(meta.send)
  BY HttpAssumption DEF Metas, Counters
<1>2. PICK s : m = [meta EXCEPT !.left = left - n, !.next = IF left = n THEN meta.interval ELSE 0, !.send = s]
  BY DEF MetaRead
<1>3. m.next = (IF left = n THEN meta.interval ELSE 0) /\ m.left = left - n /\ m.interval = meta.interval
  BY <1>1, <1>2 DEF Counters
<1>4. m = [interval |-> m.interval, next |-> m.next, left |-> m.left, send |-> m.send]
  BY <1>1, <1>2 DEF Counters
<1>5. m \in Counters(m.send)
  BY <1>1, <1>3, <1>4 DEF Counters
<1> QED BY <1>1, <1>3, <1>5, HttpAssumption

LEMMA MetasThread == Conn /\ Heads /\ Metas /\ Buffers /\ StreamThread => Metas'
<1> SUFFICES ASSUME Conn, Heads, Metas, Buffers, StreamThread PROVE Metas'
  OBVIOUS
<1>a. /\ meta \in Counters(meta.send) /\ meta.next <= meta.interval
      /\ meta.interval \in Nat /\ meta.next \in Nat /\ meta.left \in Nat
  BY HttpAssumption DEF Metas, Counters
<1>h. ASSUME Streaming PROVE turn > 0 /\ at \in Nat /\ at <= Delivers /\ Delivers \in Nat
  <2>1. turn > 0 /\ at \in Nat /\ at <= Delivers
    BY <1>h DEF Streaming, Conn, ConnTyped, Live
  <2> QED BY <2>1, DeliversSome
<1>1. CASE Poll \/ ClosedInPoll \/ IcyClosed \/ BodyClosed \/ StaleBody
  <2>1. UNCHANGED <<wires, turn, at, len, mem, meta>> /\ state' \in {state, "STOPPED", "DISCONNECT"}
    BY <1>1 DEF Poll, ClosedInPoll, IcyClosed, BodyClosed, StaleBody, netVars, headVars, connVars, Disconnected
  <2> QED BY <2>1, MetasKept
<1>2. CASE ReadFile
  BY <1>2, <1>a, MetasIdle DEF ReadFile, connVars, Disconnected, HttpStates
<1>3. CASE SendHeaders \/ HeaderClosed
  <2>1. /\ meta' = meta /\ state \in {"SEND_HEADERS", "RECV_HEADERS"}
        /\ state' \in {"SEND_HEADERS", "RECV_HEADERS", "DISCONNECT", "STOPPED"}
    BY <1>3 DEF SendHeaders, HeaderClosed, Disconnected
  <2> QED BY <2>1 DEF Metas, Streaming
<1>4. CASE RecvHeader
  <2>1. /\ meta' = meta /\ state = "RECV_HEADERS" /\ UNCHANGED <<wires, turn>>
        /\ \/ state' \in {"RECV_HEADERS", "DISCONNECT"}
           \/ state' = IF Wire.wait THEN "STREAMING_WAIT" ELSE "STREAMING_BUFFERING"
    BY <1>4 DEF RecvHeader, Disconnected
  <2>2. turn > 0 /\ Wire.asked # "file" /\ Wire' = Wire
    BY <2>1 DEF Conn, ConnTyped, HttpStates, Wire
  <2>3. IsWire(Wire) /\ IsResponse(Wire) /\ Wire.metaint \in Nat
    BY <2>2, DeliversSome, WireSizes DEF IsWire
  <2>4. ~Wire.wait => Wire.metaint = 0
    BY <2>3 DEF IsResponse
  <2>5. meta.interval = 0 /\ meta.left = 0
    BY <2>1 DEF Metas
  <2> QED BY <1>a, <2>1, <2>2, <2>4, <2>5 DEF Metas, Streaming
<1>5. CASE IcyLength
  <2> DEFINE left == Units[at + 1].left
  <2>1. /\ Streaming /\ AtMeta /\ meta.left = 0 /\ ~Gone /\ UNCHANGED <<wires, turn, state>>
        /\ \E n \in 0 .. Least(left, Delivers - at - 1) :
             /\ at' = at + 1 + n
             /\ mem' = [i \in 1 .. MaxHeader |-> IF i <= n THEN at + 1 + i ELSE mem[i]]
             /\ len' = n
             /\ meta' = MetaRead(left, n)
    BY <1>5 DEF IcyLength, connVars
  <2>2. /\ at + 1 \in DOMAIN Units /\ Units[at + 1].k = "l" /\ left \in 0 .. (MaxHeader - 1)
        /\ Sounds(Wire, at + 1 + left)
    BY <2>1, LengthNext
  <2>3. Wire' = Wire /\ Units' = Units /\ Streaming'
    BY <2>1 DEF Wire, Units, Streaming
  <2>4. turn > 0 /\ at \in Nat /\ at <= Delivers /\ Delivers \in Nat /\ left \in Nat
    BY <1>h, <2>1, <2>2, HttpAssumption
  <2> HIDE DEF left
  <2>5. PICK n \in 0 .. Least(left, Delivers - at - 1) :
             /\ at' = at + 1 + n
             /\ mem' = [i \in 1 .. MaxHeader |-> IF i <= n THEN at + 1 + i ELSE mem[i]]
             /\ len' = n
             /\ meta' = MetaRead(left, n)
    BY <2>1
  <2>6. n \in Nat /\ n <= left
    BY <2>4, <2>5 DEF Least
  <2>7. /\ meta' \in Counters(meta'.send) /\ meta'.interval = meta.interval /\ meta'.next <= meta'.interval
        /\ meta'.left = left - n
        /\ meta'.left = 0 => meta'.next = meta'.interval
        /\ meta'.left > 0 => meta'.next = 0
    BY <2>1, <2>2, <2>5, <2>6, MetaReadIs
  <2>8. CASE left = n
    <3>1. at' + meta'.next - meta'.interval = at + 1 + left
      BY <1>a, <2>4, <2>5, <2>6, <2>7, <2>8
    <3> QED BY <2>1, <2>2, <2>3, <2>4, <2>6, <2>7, <2>8, <3>1 DEF Metas, Framed, Streaming
  <2>9. CASE left # n
    <3>1. meta'.left > 0
      BY <2>4, <2>6, <2>7, <2>9
    <3>2. \A i \in 1 .. n : mem'[i] = at + 1 + i
      BY <2>2, <2>5, <2>6, HttpAssumption
    <3>3. PICK l \in DOMAIN Units : l = at + 1 /\ Units[l].k = "l" /\ Units[l].left = left
      BY <2>2 DEF left
    <3>4. at' + meta'.left = l + left /\ len' = at' - l /\ l <= at' /\ len' = n
      BY <2>4, <2>5, <2>6, <2>7, <3>3
    <3>5. Copied(l)'
      BY <2>3, <3>2, <3>3, <3>4 DEF Copied
    <3> QED BY <2>1, <2>3, <2>7, <3>1, <3>3, <3>5 DEF Metas, Framed, Streaming
  <2> QED BY <2>8, <2>9
<1>6. CASE IcyMeta
  <2>1. /\ Streaming /\ AtMeta /\ meta.left > 0 /\ ~Gone /\ UNCHANGED <<wires, turn, state>>
    BY <1>6 DEF IcyMeta, connVars
  <2>2. PICK n \in 1 .. Least(meta.left, Delivers - at) :
             /\ at' = at + n
             /\ mem' = [i \in 1 .. MaxHeader |-> IF i \in (len + 1) .. (len + n) THEN at + i - len ELSE mem[i]]
             /\ len' = len + n
             /\ meta' = MetaRead(meta.left, n)
    BY <1>6 DEF IcyMeta
  <2>3. n \in Nat /\ n <= meta.left /\ at \in Nat /\ meta.left \in Nat
    BY <2>1, PieceNext
  <2>4. PICK l \in DOMAIN Units : Copied(l) /\ Sounds(Wire, l + Units[l].left) /\ Units[l].left \in 0 .. (MaxHeader - 1)
    BY <2>1, PieceNext
  <2>5. Wire' = Wire /\ Units' = Units /\ Streaming'
    BY <2>1 DEF Wire, Units, Streaming
  <2>6. /\ meta' \in Counters(meta'.send) /\ meta'.interval = meta.interval /\ meta'.next <= meta'.interval
        /\ meta'.left = meta.left - n
        /\ meta'.left = 0 => meta'.next = meta'.interval
        /\ meta'.left > 0 => meta'.next = 0
    <3>1. meta.left \in 0 .. (MaxHeader - 1)
      BY DEF Metas, Counters
    <3> QED BY <2>1, <2>2, <2>3, <3>1, MetaReadIs
  <2>7. l \in Nat /\ Units[l].left \in Nat
    <3>1. DOMAIN Units = 1 .. Len(Wire.units) /\ Len(Wire.units) \in Nat
      BY <1>h, <2>1, DeliversSome, WireSizes DEF Units
    <3> QED BY <2>4, <3>1, HttpAssumption
  <2>8. CASE meta.left = n
    <3>1. at' + meta'.next - meta'.interval = l + Units[l].left
      BY <1>a, <2>2, <2>3, <2>4, <2>6, <2>7, <2>8 DEF Copied
    <3>2. meta'.left = 0
      BY <2>3, <2>6, <2>8
    <3> QED BY <2>1, <2>4, <2>5, <2>6, <3>1, <3>2 DEF Metas, Framed, Streaming
  <2>9. CASE meta.left # n
    <3>1. meta'.left > 0
      BY <2>3, <2>6, <2>9
    <3>2. len = at - l /\ l <= at /\ at + meta.left = l + Units[l].left /\ \A i \in 1 .. len : mem[i] = l + i
      BY <2>4 DEF Copied
    <3>3. ASSUME NEW i \in 1 .. (len + n) PROVE mem'[i] = l + i
      <4>1. len + n < MaxHeader /\ len \in Nat /\ MaxHeader \in Nat
        BY <2>3, <2>4, <2>7, <2>9, <3>2, HttpAssumption
      <4>2. CASE i \in (len + 1) .. (len + n)
        BY <2>2, <2>3, <2>7, <3>2, <4>1, <4>2
      <4>3. CASE i \in 1 .. len
        BY <2>2, <2>3, <3>2, <4>1, <4>3
      <4> QED BY <2>3, <4>1, <4>2, <4>3
    <3>4. at' + meta'.left = l + Units[l].left /\ len' = at' - l /\ l <= at' /\ len' = len + n
      <4>1. at' = at + n /\ len' = len + n /\ meta'.left = meta.left - n
        BY <2>2, <2>6
      <4>2. at + n + (meta.left - n) = l + Units[l].left /\ len + n = at + n - l /\ l <= at + n
        BY <2>3, <2>7, <3>2
      <4>3. at \in Int /\ n \in Int /\ len \in Int /\ l \in Int /\ meta.left \in Int
        BY <2>3, <2>7, <3>2
      <4> QED BY <4>1, <4>2, <4>3
    <3>5. Copied(l)'
      BY <2>4, <2>5, <3>3, <3>4 DEF Copied
    <3> QED BY <2>1, <2>4, <2>5, <2>6, <3>1, <3>5 DEF Metas, Framed, Streaming
  <2> QED BY <2>8, <2>9
<1>7. CASE Body
  <2>1. /\ Streaming /\ ~AtMeta /\ UNCHANGED <<wires, turn>>
        /\ state' = state \/ (state = "STREAMING_BUFFERING" /\ state' = "STREAMING_HTTP")
    BY <1>7 DEF Body
  <2>2. PICK n \in 1 .. Least(BodySpace, Delivers - at) :
          /\ at' = at + n
          /\ \E s : meta' = [meta EXCEPT !.send = s, !.next = IF meta.interval > 0 THEN meta.next - n ELSE meta.next]
    BY <1>7 DEF Body
  <2>3. at \in Nat /\ n \in Nat /\ (meta.interval > 0 => n <= meta.next /\ meta.left = 0)
    BY <2>1, BodyNext
  <2>4. PICK s : meta' = [meta EXCEPT !.send = s, !.next = IF meta.interval > 0 THEN meta.next - n ELSE meta.next]
    BY <2>2
  <2>5. /\ meta'.interval = meta.interval /\ meta'.left = meta.left
        /\ meta'.next = IF meta.interval > 0 THEN meta.next - n ELSE meta.next
        /\ meta' = [interval |-> meta'.interval, next |-> meta'.next, left |-> meta'.left, send |-> meta'.send]
    BY <1>a, <2>4 DEF Counters
  <2>6. meta'.next \in Nat /\ meta'.next <= meta'.interval /\ meta'.left \in 0 .. (MaxHeader - 1)
    <3>1. meta.left \in 0 .. (MaxHeader - 1)
      BY <1>a DEF Counters
    <3> QED BY <1>a, <2>3, <2>5, <3>1
  <2>7. meta' \in Counters(meta'.send)
    BY <1>a, <2>5, <2>6 DEF Counters
  <2>8. Wire' = Wire /\ Units' = Units
    BY <2>1 DEF Wire, Units
  <2>9. ASSUME meta'.interval > 0 PROVE Framed'
    <3>1. at' + meta'.next - meta'.interval = at + meta.next - meta.interval
      BY <1>a, <2>2, <2>3, <2>5, <2>9
    <3>2. Sounds(Wire, at + meta.next - meta.interval)
      BY <2>1, <2>3, <2>5, <2>9 DEF Metas, Framed
    <3> QED BY <2>3, <2>5, <2>8, <2>9, <3>1, <3>2 DEF Framed
  <2> QED BY <2>1, <2>5, <2>6, <2>7, <2>8, <2>9 DEF Metas, Streaming
<1> QED BY <1>1, <1>2, <1>3, <1>4, <1>5, <1>6, <1>7 DEF StreamThread

Increasing(b) == \A i, j \in DOMAIN b : i < j => b[i] < b[j]
Successive(d, a) == \A j \in 1 .. Len(d) : d[j] = a + j

Holds(c, n, S) == Range(c) = (1 .. n) \cap S

LEMMA Below == ASSUME NEW x \in Int, NEW n \in Nat, NEW k \in Int, x <= n, k > 0 PROVE x < n + k
  OBVIOUS

LEMMA Behind ==
  ASSUME NEW n \in Nat, NEW m \in Nat, NEW p \in Nat, NEW x \in 1 .. (n + p), x > n
  PROVE  \E k \in 1 .. (m + p) : k > m /\ n + (k - m) = x
<1>1. PICK k \in Int : k = x - n + m
  OBVIOUS
<1>2. k \in 1 .. (m + p) /\ k > m /\ n + (k - m) = x
  BY <1>1
<1> QED BY <1>2

LEMMA Appended ==
  ASSUME NEW b \in Seq(Nat), NEW a \in Nat, NEW d \in Seq(Nat), NEW S, Increasing(b), Range(b) = (1 .. a) \cap S,
         ((a + 1) .. (a + Len(d))) \subseteq S, Successive(d, a), NEW c, c = b \o d
  PROVE  /\ c \in Seq(Nat) /\ Len(c) = Len(b) + Len(d) /\ Increasing(c)
         /\ Holds(c, a + Len(d), S)
<1>1. Len(b) \in Nat /\ DOMAIN b = 1 .. Len(b) /\ Len(d) \in Nat
  OBVIOUS
<1>2. Len(c) = Len(b) + Len(d)
  OBVIOUS
<1>3. c \in Seq(Nat) /\ Len(c) = Len(b) + Len(d) /\ DOMAIN c = 1 .. (Len(b) + Len(d)) /\ Len(b) \in Nat /\ DOMAIN b = 1 .. Len(b)
      /\ Len(d) \in Nat
  <2>1. c \in Seq(Nat)
    OBVIOUS
  <2>2. DOMAIN c = 1 .. Len(c)
    BY <2>1
  <2> QED BY <1>1, <1>2, <2>1, <2>2
<1>4. \A i \in 1 .. (Len(b) + Len(d)) : c[i] = IF i <= Len(b) THEN b[i] ELSE d[i - Len(b)]
  BY <1>3
<1>5. \A i \in 1 .. (Len(b) + Len(d)) : i > Len(b) => c[i] = a + (i - Len(b))
  BY <1>3, <1>4 DEF Successive
<1>6. \A i \in 1 .. Len(b) : c[i] = b[i] /\ b[i] \in 1 .. a /\ b[i] \in S
  <2> SUFFICES ASSUME NEW i \in 1 .. Len(b) PROVE c[i] = b[i] /\ b[i] \in 1 .. a /\ b[i] \in S
    OBVIOUS
  <2>1. b[i] \in Range(b)
    BY <1>3 DEF Range
  <2> QED BY <1>3, <1>4, <2>1
<1>7. ASSUME NEW i \in DOMAIN c, NEW j \in DOMAIN c, i < j PROVE c[i] < c[j]
  <2>i. i \in 1 .. (Len(b) + Len(d)) /\ j \in 1 .. (Len(b) + Len(d)) /\ i \in Nat /\ j \in Nat /\ i < j
    BY <1>3, <1>7
  <2>1. CASE j <= Len(b)
    BY <1>3, <1>6, <2>i, <2>1 DEF Increasing
  <2>2. CASE i <= Len(b) /\ j > Len(b)
    <3>1. c[i] \in 1 .. a
      BY <1>3, <1>6, <2>2
    <3>2. c[j] = a + (j - Len(b)) /\ j - Len(b) > 0 /\ j - Len(b) \in Int
      BY <1>3, <1>5, <2>i, <2>2
    <3>3. c[i] <= a /\ c[i] \in Int
      BY <3>1
    <3>4. c[i] < a + (j - Len(b))
      BY <3>2, <3>3, Below
    <3> QED BY <3>2, <3>4
  <2>3. CASE i > Len(b)
    <3>1. j > Len(b)
      BY <1>3, <2>i, <2>3
    <3>2. c[i] = a + (i - Len(b)) /\ c[j] = a + (j - Len(b))
      BY <1>5, <2>i, <2>3, <3>1
    <3> QED BY <1>3, <2>i, <3>2
  <2> QED BY <1>3, <2>i, <2>1, <2>2, <2>3
<1>8. ASSUME NEW x \in Range(c) PROVE x \in (1 .. (a + Len(d))) \cap S
  <2>1. PICK i \in 1 .. (Len(b) + Len(d)) : x = c[i]
    BY <1>3 DEF Range
  <2>2. CASE i <= Len(b)
    BY <1>3, <1>6, <2>1, <2>2
  <2>3. CASE i > Len(b)
    <3>1. x \in (a + 1) .. (a + Len(d))
      BY <1>3, <1>5, <2>1, <2>3
    <3> QED BY <3>1
  <2> QED BY <1>3, <2>1, <2>2, <2>3
<1>9. ASSUME NEW x \in 1 .. (a + Len(d)), x \in S PROVE x \in Range(c)
  <2>1. CASE x <= a
    <3>1. x \in Range(b)
      BY <1>9, <2>1
    <3>2. PICK i \in 1 .. Len(b) : x = b[i]
      BY <1>3, <3>1 DEF Range
    <3> QED BY <1>3, <1>6, <3>2 DEF Range
  <2>2. CASE x > a
    <3>1. Len(b) \in Nat /\ Len(d) \in Nat
      BY <1>1
    <3>2. PICK k \in 1 .. (Len(b) + Len(d)) : k > Len(b) /\ a + (k - Len(b)) = x
      BY <2>2, <3>1, Behind
    <3>3. c[k] = x
      BY <1>5, <3>2
    <3> QED BY <1>3, <3>2, <3>3 DEF Range
  <2> QED BY <2>1, <2>2
<1>10. Range(c) = (1 .. (a + Len(d))) \cap S
  BY <1>8, <1>9
<1>11. Holds(c, a + Len(d), S)
  BY <1>10 DEF Holds
<1> QED BY <1>3, <1>7, <1>11 DEF Increasing

BodyIn(n, S) == (1 .. n) \cap S
Goes(b, a, d, S) ==
    /\ Increasing(b) /\ Range(b) = BodyIn(a, S)
    /\ Successive(d, a) /\ ((a + 1) .. (a + Len(d))) \subseteq S

LEMMA AppendedSo ==
  ASSUME NEW b \in Seq(Nat), NEW a \in Nat, NEW d \in Seq(Nat), NEW S, Goes(b, a, d, S)
  PROVE  /\ b \o d \in Seq(Nat) /\ Len(b \o d) = Len(b) + Len(d) /\ Increasing(b \o d)
         /\ Range(b \o d) = BodyIn(a + Len(d), S)
<1>1. Increasing(b) /\ Range(b) = (1 .. a) \cap S /\ ((a + 1) .. (a + Len(d))) \subseteq S /\ Successive(d, a)
  BY DEF Goes, BodyIn
<1>2. PICK c : c = b \o d
  OBVIOUS
<1>3. c \in Seq(Nat) /\ Len(c) = Len(b) + Len(d)
  BY <1>2
<1>4. Increasing(c)
  BY <1>1, <1>2, Appended
<1>5. Holds(c, a + Len(d), S)
  BY <1>1, <1>2, Appended
<1>6. Range(c) = BodyIn(a + Len(d), S)
  BY <1>5 DEF BodyIn, Holds
<1> QED BY <1>2, <1>3, <1>4, <1>6

LEMMA BuffersKept ==
  ASSUME Buffers, UNCHANGED <<wires, turn, at, body, taken>>, Live' => Live
  PROVE  Buffers'
<1>1. Units' = Units
  BY DEF Wire, Units
<1> QED BY <1>1 DEF Buffers, InOrder

\* Units that are not of the body are read.
LEMMA BuffersSkip ==
  ASSUME Buffers, UNCHANGED <<wires, turn, body, taken>>, Live, at \in Nat, at' \in Nat, at <= at',
         \A i \in (at + 1) .. at' : ~InBody(Units[i].k)
  PROVE  Buffers'
<1>1. Units' = Units
  BY DEF Wire, Units
<1>2. {i \in 1 .. at' : InBody(Units[i].k)} = {i \in 1 .. at : InBody(Units[i].k)}
  <2>1. \A i \in 1 .. at' : i \in 1 .. at \/ i \in (at + 1) .. at'
    OBVIOUS
  <2>2. 1 .. at \subseteq 1 .. at'
    OBVIOUS
  <2> QED BY <2>1, <2>2
<1> QED BY <1>1, <1>2 DEF Buffers, InOrder

\* Units of the body are read into the buffer.
LEMMA BuffersGrow ==
  ASSUME Buffers, UNCHANGED <<wires, turn, taken>>, Live, at \in Nat, NEW n \in Nat, n <= Space, at' = at + n,
         body' = body \o [j \in 1 .. n |-> at + j],
         \A i \in (at + 1) .. (at + n) : InBody(Units[i].k)
  PROVE  Buffers'
<1> DEFINE S == {i \in Nat : InBody(Units[i].k)}
<1>1. Units' = Units
  BY DEF Wire, Units
<1>2. InOrder /\ body \in Seq(Nat)
  BY DEF Buffers
<1>3. Range(body) = BodyIn(at, S) /\ ((at + 1) .. (at + n)) \subseteq S
  BY <1>2 DEF InOrder, BodyIn
<1>4. {i \in 1 .. (at + n) : InBody(Units[i].k)} = BodyIn(at + n, S)
  BY DEF BodyIn
<1> HIDE DEF S
<1> DEFINE tail == [j \in 1 .. n |-> at + j]
<1>d. tail \in Seq(Nat) /\ Len(tail) = n /\ Successive(tail, at) /\ Increasing(body) /\ body' = body \o tail
  BY <1>2 DEF tail, Successive, InOrder, Increasing
<1> HIDE DEF tail
<1>5. /\ body' \in Seq(Nat) /\ Len(body') = Len(body) + n
      /\ Increasing(body')
      /\ Range(body') = BodyIn(at + n, S)
  <2>1. ((at + 1) .. (at + Len(tail))) \subseteq S /\ at \in Nat
    BY <1>3, <1>d
  <2>2. /\ body \o tail \in Seq(Nat) /\ Len(body \o tail) = Len(body) + Len(tail) /\ Increasing(body \o tail)
        /\ Range(body \o tail) = BodyIn(at + Len(tail), S)
    <3>1. body \in Seq(Nat)
      BY <1>2
    <3>2. tail \in Seq(Nat) /\ Goes(body, at, tail, S)
      BY <1>3, <1>d, <2>1 DEF Goes
    <3>4. Increasing(body \o tail)
      BY <2>1, <3>1, <3>2, AppendedSo
    <3>5. Range(body \o tail) = BodyIn(at + Len(tail), S)
      BY <2>1, <3>1, <3>2, AppendedSo
    <3> QED BY <3>1, <3>2, <3>4, <3>5
  <2> QED BY <1>d, <2>2
<1>6. InOrder'
  BY <1>1, <1>4, <1>5 DEF InOrder, Increasing
<1>7. taken' \in Nat /\ taken' <= Len(body') /\ Len(body') - taken' <= SCap
  BY <1>5, SpaceIs, HttpAssumption DEF Buffers
<1> QED BY <1>5, <1>6, <1>7 DEF Buffers

LEMMA BuffersStep == Conn /\ Heads /\ Metas /\ Buffers /\ [Next]_vars => Buffers'
<1> SUFFICES ASSUME Conn, Heads, Metas, Buffers, [Next]_vars PROVE Buffers'
  OBVIOUS
<1>1. CASE StreamSock \/ StreamFile
  <2>1. body' = <<>> /\ taken' = 0 /\ at' = 0
    BY <1>1 DEF StreamSock, StreamFile, StartConnection
  <2>2. InOrder'
    BY <2>1 DEF InOrder, Range
  <2> QED BY <2>1, <2>2, HttpAssumption DEF Buffers
<1>2. CASE Unreachable
  BY <1>2 DEF Unreachable, StartConnection, bodyVars, Buffers, Live
<1>3. CASE Quit \/ Report \/ Cont
  <2>1. UNCHANGED <<wires, turn, at, body, taken>>
    BY <1>3 DEF Quit, Report, Cont, netVars, bodyVars
  <2>2. Live' => Live
    BY <1>3 DEF Quit, Report, Cont, Live
  <2> QED BY <2>1, <2>2, BuffersKept
<1>4. CASE Consume
  <2>1. UNCHANGED <<wires, turn, at, state, body>> /\ taken < Len(body) /\ taken' = taken + 1
    BY <1>4 DEF Consume, netVars, connVars
  <2>2. Units' = Units
    BY <2>1 DEF Wire, Units
  <2> QED BY <2>1, <2>2, HttpAssumption DEF Buffers, InOrder, Live
<1>5. CASE Poll \/ ClosedInPoll \/ SendHeaders \/ HeaderClosed \/ IcyClosed \/ BodyClosed \/ StaleBody
  <2>1. UNCHANGED <<wires, turn, at, body, taken>>
    BY <1>5 DEF Poll, ClosedInPoll, SendHeaders, HeaderClosed, IcyClosed, BodyClosed, StaleBody, netVars, bodyVars
  <2>2. CASE Poll \/ ClosedInPoll
    BY <2>1, <2>2, BuffersKept DEF Poll, ClosedInPoll, connVars, Live
  <2>3. Live \/ Poll \/ ClosedInPoll
    BY <1>5 DEF SendHeaders, HeaderClosed, IcyClosed, BodyClosed, StaleBody, Streaming, Live
  <2> QED BY <2>1, <2>2, <2>3, BuffersKept
<1>6. CASE ReadFile
  <2>1. /\ UNCHANGED <<wires, turn, taken>> /\ state = "STREAMING_FILE"
        /\ \/ /\ UNCHANGED <<at, body>>
           \/ \E n \in 1 .. Least(Space, Delivers - at) :
                body' = body \o [j \in 1 .. n |-> at + j] /\ at' = at + n
    BY <1>6 DEF ReadFile
  <2>2. CASE UNCHANGED <<at, body>>
    BY <2>1, <2>2, BuffersKept DEF Live
  <2>3. CASE \E n \in 1 .. Least(Space, Delivers - at) : body' = body \o [j \in 1 .. n |-> at + j] /\ at' = at + n
    <3>1. PICK n \in 1 .. Least(Space, Delivers - at) : body' = body \o [j \in 1 .. n |-> at + j] /\ at' = at + n
      BY <2>3
    <3>2. turn > 0 /\ Wire.asked = "file" /\ at \in Nat /\ Live
      BY <2>1 DEF Conn, ConnTyped, Live
    <3>3. IsWire(Wire) /\ Delivers \in Nat /\ Delivers <= Wire.cut
      BY <3>2, DeliversSome
    <3>4. n \in Nat /\ n <= Space /\ n <= Delivers - at
      <4>1. Space \in Int /\ Delivers - at \in Int
        BY <3>2, <3>3, SpaceIs
      <4> QED BY <4>1 DEF Least
    <3>5. ASSUME NEW i \in (at + 1) .. (at + n) PROVE InBody(Units[i].k)
      <4>1. i \in DOMAIN Wire.units
        BY <3>2, <3>3, <3>4, WireSizes
      <4> QED BY <3>2, <3>3, <4>1 DEF IsWire, Units
    <3> QED BY <2>1, <3>1, <3>2, <3>4, <3>5, BuffersGrow
  <2> QED BY <2>1, <2>2, <2>3
<1>7. CASE RecvHeader
  <2>1. UNCHANGED <<wires, turn, body, taken>> /\ state = "RECV_HEADERS" /\ at' = at + 1 /\ at # Delivers
    BY <1>7 DEF RecvHeader, bodyVars, Gone
  <2>2. turn > 0 /\ Wire.asked # "file" /\ at \in Nat /\ Live /\ at <= Delivers
    BY <2>1 DEF Conn, ConnTyped, Live, HttpStates
  <2>3. IsWire(Wire) /\ Delivers \in Nat /\ Delivers <= Wire.cut /\ IsResponse(Wire)
    BY <2>2, DeliversSome DEF IsWire
  <2>4. at + 1 \in DOMAIN Units
    BY <2>1, <2>2, <2>3, WireSizes DEF Units
  <2>5. InHeader(Units, at + 1)
    BY <2>1 DEF Heads
  <2>6. ~InBody(Units[at + 1].k)
    BY <2>3, <2>4, <2>5 DEF IsResponse, InBody, Units
  <2>7. \A i \in (at + 1) .. at' : i = at + 1
    BY <2>1, <2>2
  <2> QED BY <2>1, <2>2, <2>6, <2>7, BuffersSkip
<1>8. CASE IcyLength
  <2>1. UNCHANGED <<wires, turn, body, taken>> /\ Streaming /\ AtMeta /\ meta.left = 0 /\ ~Gone
    BY <1>8 DEF IcyLength, bodyVars
  <2>2. PICK n \in 0 .. Least(Units[at + 1].left, Delivers - at - 1) : at' = at + 1 + n
    BY <1>8 DEF IcyLength
  <2>3. /\ at + 1 \in DOMAIN Units /\ Units[at + 1].k = "l" /\ Units[at + 1].left \in Nat
        /\ \A i \in (at + 2) .. (at + 1 + Units[at + 1].left) : i \in DOMAIN Units => Units[i].k = "m"
    BY <2>1, LengthNext, HttpAssumption
  <2>4. turn > 0 /\ at \in Nat /\ Live /\ at <= Delivers
    BY <2>1 DEF Conn, ConnTyped, Live, Streaming
  <2>5. IsWire(Wire) /\ Delivers \in Nat /\ Delivers <= Wire.cut
    BY <2>4, DeliversSome
  <2>6. n \in Nat /\ n <= Units[at + 1].left /\ n <= Delivers - at - 1
    BY <2>2, <2>3, <2>4, <2>5 DEF Least
  <2>7. ASSUME NEW i \in (at + 1) .. at' PROVE ~InBody(Units[i].k)
    <3>1. CASE i = at + 1
      BY <2>3, <3>1 DEF InBody
    <3>2. CASE i # at + 1
      <4>1. i \in (at + 2) .. (at + 1 + Units[at + 1].left)
        BY <2>2, <2>3, <2>4, <2>6, <3>2
      <4>2. i \in DOMAIN Units
        BY <2>2, <2>4, <2>5, <2>6, WireSizes DEF Units
      <4> QED BY <2>3, <4>1, <4>2 DEF InBody
    <3> QED BY <3>1, <3>2
  <2> QED BY <2>1, <2>2, <2>4, <2>6, <2>7, BuffersSkip
<1>9. CASE IcyMeta
  <2>1. UNCHANGED <<wires, turn, body, taken>> /\ Streaming /\ AtMeta /\ meta.left > 0 /\ ~Gone
    BY <1>9 DEF IcyMeta, bodyVars
  <2>2. PICK n \in 1 .. Least(meta.left, Delivers - at) : at' = at + n
    BY <1>9 DEF IcyMeta
  <2>3. n \in Nat /\ at \in Nat /\ \A i \in (at + 1) .. (at + n) : i \in DOMAIN Units /\ Units[i].k = "m"
    BY <2>1, PieceNext
  <2> QED BY <2>1, <2>2, <2>3, BuffersSkip DEF InBody, Streaming, Live
<1>10. CASE Body
  <2>1. UNCHANGED <<wires, turn, taken>> /\ Streaming /\ ~AtMeta /\ Live
    BY <1>10 DEF Body, Streaming, Live
  <2>2. PICK n \in 1 .. Least(BodySpace, Delivers - at) : body' = body \o [j \in 1 .. n |-> at + j] /\ at' = at + n
    BY <1>10 DEF Body
  <2>3. at \in Nat /\ n \in Nat /\ n <= Space /\ \A i \in (at + 1) .. (at + n) : InBody(Units[i].k)
    BY <2>1, BodyNext
  <2> QED BY <2>1, <2>2, <2>3, BuffersGrow
<1>11. CASE UNCHANGED vars
  BY <1>11, BuffersKept DEF vars, netVars, bodyVars, connVars, Live
<1> QED BY <1>1, <1>2, <1>3, <1>4, <1>5, <1>6, <1>7, <1>8, <1>9, <1>10, <1>11 DEF Next, StreamThread, Controller

----------------------------------------------------------------------------
(* The theorems about the connection and what is read of it. *)

Inv == Conn /\ Heads /\ Metas /\ Buffers /\ Told

LEMMA InvInit == Init => Inv
<1> SUFFICES ASSUME Init PROVE Inv
  OBVIOUS
<1>1. Heads
  BY DEF Init, Heads, Answered
<1>2. Told
  BY DEF Init, Told
<1>3. Buffers
  <2>1. body = <<>> /\ taken = 0 /\ at = 0 /\ ~Live
    BY DEF Init, Live
  <2> QED BY <2>1, HttpAssumption DEF Buffers
<1> QED BY <1>1, <1>2, <1>3, ConnInit, MetasInit DEF Inv

LEMMA InvStep == Inv /\ [Next]_vars => Inv'
<1> SUFFICES ASSUME Inv, [Next]_vars PROVE Inv'
  OBVIOUS
<1>1. Conn /\ Heads /\ Metas /\ Buffers /\ Told
  BY DEF Inv
<1>2. Sized
  BY <1>1, SizedIs
<1>3. Conn'
  BY <1>1, <1>2, ConnStep
<1>4. Heads'
  BY <1>1, <1>2, HeadsStep
<1>5. Metas'
  <2>1. CASE StreamThread
    BY <1>1, <2>1, MetasThread
  <2>2. CASE Controller \/ Consume
    BY <1>1, <2>2, MetasController
  <2>3. CASE UNCHANGED vars
    BY <1>1, <2>3, MetasKept DEF vars, netVars, headVars, connVars
  <2> QED BY <2>1, <2>2, <2>3 DEF Next
<1>6. Buffers'
  BY <1>1, BuffersStep
<1>7. Told'
  BY <1>1, ToldStep
<1> QED BY <1>3, <1>4, <1>5, <1>6, <1>7 DEF Inv

\* The inductive invariant of the connection, its header, its metadata and its body.
LEMMA InvHolds == Spec => []Inv
<1> QED BY InvInit, InvStep, PTL DEF Spec

\* DSCO's cause tells how the connection ended, whatever the responses and the reads were.
THEOREM CauseHolds == Spec => []CauseIsTrue
<1>1. Inv => CauseIsTrue
  BY DEF Inv, Told, CauseIsTrue
<1> QED BY <1>1, InvHolds, PTL

\* The stream buffer holds the body, whole and in order, and neither characters of a header nor
\* metadata, for every interval of metadata and every way the reads were cut.
THEOREM BodyHolds == Spec => []BodyInOrder
<1>1. Inv => BodyInOrder
  BY DEF Inv, Buffers, InOrder, BodyInOrder
<1> QED BY <1>1, InvHolds, PTL

----------------------------------------------------------------------------
(* stream.header holds the request until it is sent, and again when it is sent a second time. *)

Asks(m) == m \in Seq(Range(m)) /\ Len(m) = MaxHeader /\ m[1] = Request[1] /\ m[2] = Request[2]
\* stream.header is the request when it is sent, and also before it is sent again.
Requests ==
    /\ heard \subseteq {Request}
    /\ state = "SEND_HEADERS" => len = 2 /\ Asks(mem)
    /\ state = "RECV_HEADERS" /\ len = 0 => mlen = 2 /\ Asks(mem)

LEMMA AsksNew == ASSUME NEW m, m = [i \in 1 .. MaxHeader |-> IF i <= Len(Request) THEN Request[i] ELSE mem[i]]
                 PROVE  Asks(m) /\ Len(Request) = 2
<1>1. Len(Request) = 2 /\ MaxHeader \in Nat /\ MaxHeader >= 3
  BY HttpAssumption DEF Request
<1>2. DOMAIN m = 1 .. MaxHeader
  OBVIOUS
<1>3. m \in [1 .. MaxHeader -> Range(m)]
  BY <1>2 DEF Range
<1>4. m \in Seq(Range(m)) /\ Len(m) = MaxHeader
  <2> HIDE DEF Range
  <2>1. PICK S : S = Range(m)
    OBVIOUS
  <2>2. m \in [1 .. MaxHeader -> S]
    BY <1>3, <2>1
  <2>3. m \in Seq(S) /\ Len(m) = MaxHeader
    BY <1>1, <2>2
  <2> QED BY <2>1, <2>3
<1>5. m[1] = Request[1] /\ m[2] = Request[2]
  BY <1>1
<1> QED BY <1>1, <1>4, <1>5 DEF Asks

LEMMA HeaderAsks == Asks(mem) /\ len = 2 => Header = Request
<1> SUFFICES ASSUME Asks(mem), len = 2 PROVE Header = Request
  OBVIOUS
<1>1. PICK S : mem \in Seq(S) /\ Len(mem) >= 3 /\ Len(mem) \in Nat
  BY HttpAssumption DEF Asks
<1>2. Header = SubSeq(mem, 1, 2)
  BY DEF Header
<1>3. Header \in Seq(S) /\ Len(Header) = 2 /\ Header[1] = mem[1] /\ Header[2] = mem[2]
  BY <1>1, <1>2
<1>4. Header = <<mem[1], mem[2]>>
  BY <1>3
<1> QED BY <1>4 DEF Asks, Request

LEMMA RequestsStep == Conn /\ Requests /\ [Next]_vars => Requests'
<1> SUFFICES ASSUME Conn, Requests, [Next]_vars PROVE Requests'
  OBVIOUS
<1>1. CASE UNCHANGED <<state, mem, len, mlen, heard>>
  BY <1>1 DEF Requests
<1>2. CASE heard' \in {heard, {}} /\ state' \notin {"SEND_HEADERS", "RECV_HEADERS"}
  BY <1>2 DEF Requests
<1>3. CASE StreamSock
  BY <1>3, AsksNew DEF StreamSock, StartConnection, Requests
<1>4. CASE Unreachable \/ StreamFile \/ Quit
  BY <1>2, <1>4 DEF Unreachable, StreamFile, Quit, StartConnection
<1>5. CASE Report
  <2>1. UNCHANGED <<mem, len, mlen, heard>> /\ state' \in {state, "STOPPED"}
    BY <1>5 DEF Report, headVars
  <2> QED BY <1>1, <1>2, <2>1
<1>6. CASE Cont \/ Consume \/ Poll \/ ClosedInPoll
  <2>1. CASE Cont
    BY <1>2, <2>1 DEF Cont
  <2>2. CASE Consume \/ Poll \/ ClosedInPoll
    BY <1>1, <2>2 DEF Consume, Poll, ClosedInPoll, connVars, headVars
  <2> QED BY <1>6, <2>1, <2>2
<1>7. CASE ReadFile \/ IcyLength \/ IcyMeta \/ IcyClosed \/ Body \/ BodyClosed
  <2>1. heard' = heard
    BY <1>7 DEF ReadFile, IcyLength, IcyMeta, IcyClosed, Body, BodyClosed
  <2>2. state' \notin {"SEND_HEADERS", "RECV_HEADERS"}
    <3>1. CASE ReadFile
      BY <3>1 DEF ReadFile, connVars, Disconnected
    <3>2. CASE IcyLength \/ IcyMeta \/ Body
      BY <3>2 DEF IcyLength, IcyMeta, Body, Streaming, connVars
    <3>3. CASE IcyClosed \/ BodyClosed
      BY <3>3 DEF IcyClosed, BodyClosed, Disconnected
    <3> QED BY <1>7, <3>1, <3>2, <3>3
  <2> QED BY <1>2, <2>1, <2>2
<1>8. CASE SendHeaders
  <2>1. state = "SEND_HEADERS" /\ mlen' = len /\ len' = 0 /\ mem' = mem /\ state' \in {"RECV_HEADERS", "DISCONNECT"}
        /\ heard' \in {heard, heard \cup {Header}}
    BY <1>8 DEF SendHeaders
  <2>2. len = 2 /\ Asks(mem) /\ Header = Request
    BY <2>1, HeaderAsks DEF Requests
  <2> QED BY <2>1, <2>2 DEF Requests
<1>9. CASE RecvHeader
  <2>1. /\ heard' = heard /\ state = "RECV_HEADERS"
        /\ state' = "DISCONNECT" \/ (len' = len + 1 /\ state' # "SEND_HEADERS")
    BY <1>9 DEF RecvHeader, Disconnected
  <2>2. len \in Nat
    BY <2>1 DEF Conn, ConnTyped
  <2> QED BY <1>2, <2>1, <2>2 DEF Requests
<1>10. CASE HeaderClosed
  <2>1. /\ UNCHANGED <<heard, mem, mlen>> /\ state = "RECV_HEADERS"
        /\ state' = "STOPPED" \/ (TriesTls /\ len' = mlen /\ state' = "SEND_HEADERS")
    BY <1>10 DEF HeaderClosed, Disconnected, RetryLen
  <2> QED BY <1>2, <2>1 DEF Requests, TriesTls
<1>11. CASE StaleBody
  <2>1. UNCHANGED <<heard, mem, len, mlen>> /\ (state' = state \/ state' = "DISCONNECT")
    BY <1>11 DEF StaleBody, connVars, headVars, Disconnected
  <2> QED BY <1>1, <1>2, <2>1
<1>12. CASE UNCHANGED vars
  BY <1>1, <1>12 DEF vars, connVars, headVars
<1> QED BY <1>3, <1>4, <1>5, <1>6, <1>7, <1>8, <1>9, <1>10, <1>11, <1>12 DEF Next, StreamThread, Controller

\* Whatever a peer receives of the header is the whole request, for every connection and every
\* size of stream.header.
THEOREM RequestHolds == Spec => []RequestIsWhole
<1>1. Init => Requests
  BY DEF Init, Requests
<1>2. Requests => RequestIsWhole
  BY DEF Requests, RequestIsWhole
<1>3. Inv => Conn
  BY DEF Inv
<1> QED BY <1>1, <1>2, <1>3, RequestsStep, InvHolds, PTL DEF Spec

----------------------------------------------------------------------------
(* stream.header holds the response until RESP is sent. *)

\* The first n places of stream.header are those of the first n units.
Holding(n) == mem \in Seq(Range(mem)) /\ Len(mem) = MaxHeader /\ n \in 0 .. (MaxHeader - 1) /\ \A i \in 1 .. n : mem[i] = i
IsSeq(s) == s \in Seq(Range(s))
Maybe(b, x) == IF b THEN <<x>> ELSE <<>>
With(r, b, x) == IF b THEN r \cup {x} ELSE r

Waits == Wire.wait \/ Wire.ogg = "off"
Said == \A p \in Range(sent) : p.m = "RESP" /\ Waits => p.what = Upto(HeadLen)
\* stream.header begins with the response until RESP was sent, and RESP is the response.
Responses ==
    /\ IsSeq(sent) /\ Said
    /\ state = "SEND_HEADERS" => Holding(0)
    /\ state = "RECV_HEADERS" => Holding(len)
    /\ state \in HttpStates /\ Wire.ogg = "off" => ogg.mode = "off"
    /\ state \in {"STREAMING_BUFFERING", "STREAMING_HTTP"} /\ Wire.wait => sentHeaders
    /\ state \in Answered /\ ~sentHeaders /\ Waits => Holding(len) /\ len = HeadLen

LEMMA HeaderHolds == ASSUME NEW n, Holding(n), len = n PROVE Header = Upto(n)
<1>1. PICK S : mem \in Seq(S)
  BY DEF Holding
<1>2. n \in Nat /\ n <= Len(mem) /\ Len(mem) \in Nat /\ \A i \in 1 .. n : mem[i] = i
  BY <1>1, HttpAssumption DEF Holding
<1>3. Header = SubSeq(mem, 1, n)
  BY DEF Header
<1>4. SubSeq(mem, 1, n) = [i \in 1 .. n |-> mem[i]]
  BY <1>1, <1>2
<1>5. [i \in 1 .. n |-> mem[i]] = [i \in 1 .. n |-> i]
  BY <1>2
<1> QED BY <1>3, <1>4, <1>5 DEF Upto

LEMMA SameWire ==
  UNCHANGED <<wires, turn>> => Wire' = Wire /\ Units' = Units /\ HeadLen' = HeadLen /\ Waits' = Waits
  BY DEF Wire, Units, HeadLen, Waits

LEMMA RespKept ==
  Responses /\ UNCHANGED <<wires, turn, sent, sentHeaders, mem, len, ogg, state>> => Responses'
  BY SameWire DEF Responses, Said, IsSeq, Holding

LEMMA SentNone == ASSUME sent' = <<>> PROVE IsSeq(sent') /\ Range(sent') = {}
<1>1. DOMAIN sent' = {} /\ Range(sent') = {}
  BY DEF Range
<1>2. sent' \in Seq(Range(sent'))
  BY <1>1
<1> QED BY <1>1, <1>2 DEF IsSeq

LEMMA RespIdle ==
  ASSUME Responses, state' \notin HttpStates, sent' = <<>> \/ UNCHANGED <<wires, turn, sent>>
  PROVE  Responses'
<1>1. IsSeq(sent') /\ Said'
  <2>1. CASE sent' = <<>>
    BY <2>1, SentNone DEF Said
  <2>2. CASE UNCHANGED <<wires, turn, sent>>
    BY <2>2, SameWire DEF Responses, Said
  <2> QED BY <2>1, <2>2
<1> QED BY <1>1 DEF Responses, HttpStates, Answered

\* What Report appends.
LEMMA AppendsOne ==
  ASSUME NEW s, IsSeq(s), NEW b, NEW x, NEW t, t = s \o Maybe(b, x)
  PROVE  IsSeq(t) /\ Range(t) = With(Range(s), b, x)
<1>1. PICK S : s \in Seq(S) /\ S = Range(s)
  BY DEF IsSeq
<1>2. CASE b
  <2>1. t = Append(s, x)
    BY <1>1, <1>2 DEF Maybe
  <2>2. /\ s \in Seq(S \cup {x}) /\ t \in Seq(S \cup {x}) /\ Len(t) = Len(s) + 1 /\ Len(s) \in Nat
        /\ DOMAIN s = 1 .. Len(s) /\ DOMAIN t = 1 .. Len(t) /\ t[Len(s) + 1] = x
        /\ \A i \in 1 .. Len(s) : t[i] = s[i]
    BY <1>1, <2>1
  <2>3. ASSUME NEW y \in Range(t) PROVE y \in Range(s) \cup {x}
    <3>1. PICK i \in 1 .. (Len(s) + 1) : y = t[i]
      BY <2>2 DEF Range
    <3> QED BY <2>2, <3>1 DEF Range
  <2>4. ASSUME NEW y \in Range(s) \cup {x} PROVE y \in Range(t)
    <3>1. CASE y = x
      BY <2>2, <3>1 DEF Range
    <3>2. CASE y \in Range(s)
      <4>1. PICK i \in 1 .. Len(s) : y = s[i]
        BY <2>2, <3>2 DEF Range
      <4> QED BY <2>2, <4>1 DEF Range
    <3> QED BY <3>1, <3>2
  <2>5. t \in Seq(Range(t))
    <3>1. \A i \in 1 .. Len(t) : t[i] \in Range(t)
      BY <2>2 DEF Range
    <3> HIDE DEF Range
    <3> QED BY <2>2, <3>1
  <2>6. Range(t) = Range(s) \cup {x}
    BY <2>3, <2>4
  <2> QED BY <1>2, <2>5, <2>6 DEF IsSeq, With
<1>3. CASE ~b
  <2>1. t = s
    BY <1>1, <1>3 DEF Maybe
  <2> QED BY <1>3, <2>1 DEF With
<1> QED BY <1>2, <1>3

\* A pass appends to what was sent the reports that are due.
Adds(t, s, b, x, c, y, d, z) == IsSeq(t) /\ Range(t) = With(With(With(Range(s), b, x), c, y), d, z)

LEMMA AppendsThree ==
  ASSUME NEW s, IsSeq(s), NEW b, NEW c, NEW d, NEW x, NEW y, NEW z,
         NEW t, t = s \o Maybe(b, x) \o Maybe(c, y) \o Maybe(d, z)
  PROVE  Adds(t, s, b, x, c, y, d, z)
<1>1. PICK u : u = s \o Maybe(b, x)
  OBVIOUS
<1>2. PICK v : v = u \o Maybe(c, y)
  OBVIOUS
<1>3. IsSeq(u) /\ Range(u) = With(Range(s), b, x)
  BY <1>1, AppendsOne
<1>4. IsSeq(v) /\ Range(v) = With(Range(u), c, y)
  BY <1>2, <1>3, AppendsOne
<1>5. t = v \o Maybe(d, z)
  BY <1>1, <1>2
<1>6. IsSeq(t) /\ Range(t) = With(Range(v), d, z)
  BY <1>4, <1>5, AppendsOne
<1> QED BY <1>3, <1>4, <1>6 DEF Adds

LEMMA RespController == Conn /\ Heads /\ Responses /\ (Controller \/ Consume) => Responses'
<1> SUFFICES ASSUME Conn, Heads, Responses, Controller \/ Consume PROVE Responses'
  OBVIOUS
<1>1. CASE StreamSock
  <2>1. /\ sent' = <<>> /\ state' = "SEND_HEADERS" /\ wires' = wires /\ turn' = turn + 1
        /\ mem' = [i \in 1 .. MaxHeader |-> IF i <= Len(Request) THEN Request[i] ELSE mem[i]]
        /\ ogg' = NoOgg(wires[turn + 1].ogg)
    BY <1>1 DEF StreamSock, StartConnection
  <2>2. Asks(mem')
    BY <2>1, AsksNew
  <2>3. Holding(0)'
    <3>1. 0 \in 0 .. (MaxHeader - 1) /\ 1 .. 0 = {}
      BY HttpAssumption
    <3> QED BY <2>2, <3>1 DEF Asks, Holding
  <2>4. Wire' = wires[turn + 1]
    BY <2>1 DEF Wire, Conn, ConnTyped
  <2>5. IsSeq(sent') /\ Said'
    BY <2>1, SentNone DEF Said
  <2>6. ogg'.mode = Wire'.ogg
    BY <2>1, <2>4 DEF NoOgg
  <2> QED BY <2>1, <2>3, <2>5, <2>6 DEF Responses, Answered
<1>2. CASE Unreachable \/ StreamFile \/ Quit
  <2>1. state' \notin HttpStates /\ (sent' = <<>> \/ UNCHANGED <<wires, turn, sent>>)
    BY <1>2 DEF Unreachable, StreamFile, Quit, StartConnection, HttpStates, netVars
  <2> QED BY <2>1, RespIdle
<1>3. CASE Report
  <2> DEFINE dsco == state = "DISCONNECT"
             resp == ~sentHeaders /\ state \in Answered
  <2>1. /\ UNCHANGED <<wires, turn, mem, len, ogg>> /\ state' \in {state, "STOPPED"}
        /\ sentHeaders' = (sentHeaders \/ resp)
        /\ sent' = sent \o Maybe(dsco, Message("DSCO", <<>>)) \o Maybe(resp, Message("RESP", Header))
                        \o Maybe(meta.send, Message("META", Header))
    BY <1>3 DEF Report, netVars, headVars, bodyVars, Answered, Maybe
  <2>2. resp /\ Waits => Header = Upto(HeadLen)
    <3> SUFFICES ASSUME resp, Waits PROVE Header = Upto(HeadLen)
      OBVIOUS
    <3>1. Holding(len) /\ len = HeadLen
      BY DEF Responses
    <3> QED BY <3>1, HeaderHolds
  <2> HIDE DEF dsco, resp
  <2>4. IsSeq(sent) /\ Said
    BY DEF Responses
  <2>5. /\ IsSeq(sent')
        /\ Range(sent') = With(With(With(Range(sent), dsco, Message("DSCO", <<>>)), resp, Message("RESP", Header)),
                               meta.send, Message("META", Header))
    <3>1. PICK x, y, z : x = Message("DSCO", <<>>) /\ y = Message("RESP", Header) /\ z = Message("META", Header)
      OBVIOUS
    <3>2. PICK t : t = sent'
      OBVIOUS
    <3>3. t = sent \o Maybe(dsco, x) \o Maybe(resp, y) \o Maybe(meta.send, z)
      BY <2>1, <3>1, <3>2
    <3>4. Adds(t, sent, dsco, x, resp, y, meta.send, z)
      BY <2>4, <3>3, AppendsThree
    <3> QED BY <3>1, <3>2, <3>4 DEF Adds
  <2>6. Said'
    <3> SUFFICES ASSUME NEW p \in Range(sent'), p.m = "RESP", Waits' PROVE p.what = Upto(HeadLen')
      BY DEF Said
    <3>1. HeadLen' = HeadLen /\ Waits
      BY <2>1, SameWire
    <3>2. p \in Range(sent) \/ (resp /\ p = Message("RESP", Header))
      BY <2>5 DEF With, Message
    <3> QED BY <2>2, <2>4, <3>1, <3>2 DEF Said, Message
  <2>7. CASE state' = state
    <3>1. sentHeaders => sentHeaders'
      BY <2>1
    <3> QED BY <2>1, <2>5, <2>6, <2>7, <3>1, SameWire DEF Responses, Holding
  <2>8. CASE state' = "STOPPED"
    BY <2>5, <2>6, <2>8 DEF Responses, HttpStates, Answered
  <2> QED BY <2>1, <2>7, <2>8
<1>4. CASE Cont
  <2>1. UNCHANGED <<wires, turn, sent, sentHeaders, mem, len, ogg>> /\ sentHeaders /\ state' = "STREAMING_BUFFERING"
        /\ state = "STREAMING_WAIT"
    BY <1>4 DEF Cont, netVars, headVars, bodyVars
  <2> QED BY <2>1, SameWire DEF Responses, Said, HttpStates
<1>5. CASE Consume
  BY <1>5, RespKept DEF Consume, netVars, headVars, connVars
<1> QED BY <1>1, <1>2, <1>3, <1>4, <1>5 DEF Controller

LEMMA RespRead == Conn /\ Heads /\ Heads' /\ Conn' /\ Responses /\ RecvHeader => Responses'
<1> SUFFICES ASSUME Conn, Heads, Heads', Conn', Responses, RecvHeader PROVE Responses'
  OBVIOUS
<1>1. UNCHANGED <<wires, turn, sent, sentHeaders, ogg>> /\ state = "RECV_HEADERS" /\ at' = at + 1
  BY DEF RecvHeader, bodyVars
<1>2. CASE state' = "DISCONNECT"
  BY <1>1, <1>2, RespIdle DEF HttpStates
<1>3. CASE state' # "DISCONNECT"
  <2>1. /\ ~(len >= MaxHeader - 1)
        /\ mem' = [mem EXCEPT ![len + 1] = at'] /\ len' = len + 1
        /\ state' \in {"RECV_HEADERS", IF Wire.wait THEN "STREAMING_WAIT" ELSE "STREAMING_BUFFERING"}
    BY <1>1, <1>3 DEF RecvHeader, Disconnected
  <2>2. len = at /\ at \in Nat /\ turn > 0
    BY <1>1 DEF Conn, ConnTyped
  <2>3. Holding(len)
    BY <1>1 DEF Responses
  <2>4. Holding(len)'
    <3>1. PICK S : mem \in Seq(S) /\ S = Range(mem)
      BY <2>3 DEF Holding
    <3>2. Len(mem) = MaxHeader /\ MaxHeader \in Nat /\ len \in Nat /\ len + 1 <= MaxHeader - 1 /\ len + 1 \in 1 .. Len(mem)
      BY <2>1, <2>2, <2>3, HttpAssumption DEF Holding
    <3>3. mem' \in Seq(S \cup {at'}) /\ Len(mem') = MaxHeader /\ DOMAIN mem' = 1 .. MaxHeader
      BY <2>1, <3>1, <3>2
    <3>4. mem' \in Seq(Range(mem'))
      <4>1. \A i \in 1 .. Len(mem') : mem'[i] \in Range(mem')
        BY <3>3 DEF Range
      <4> HIDE DEF Range
      <4> QED BY <3>3, <4>1
    <3>5. \A i \in 1 .. (len + 1) : mem'[i] = i
      <4> SUFFICES ASSUME NEW i \in 1 .. (len + 1) PROVE mem'[i] = i
        OBVIOUS
      <4>1. i \in DOMAIN mem
        BY <3>1, <3>2
      <4>2. CASE i = len + 1
        BY <1>1, <2>1, <2>2, <4>1, <4>2
      <4>3. CASE i # len + 1
        <5>1. i \in 1 .. len
          BY <3>2, <4>3
        <5> QED BY <2>1, <2>3, <4>1, <4>3, <5>1 DEF Holding
      <4> QED BY <4>2, <4>3
    <3> QED BY <2>1, <3>2, <3>3, <3>4, <3>5 DEF Holding
  <2>5. state' \in Answered => len' = HeadLen'
    <3> SUFFICES ASSUME state' \in Answered PROVE len' = HeadLen'
      OBVIOUS
    <3>1. HeadAt(Wire, HeadLen) /\ HeadLen <= at + 1
      BY <1>1, SameWire DEF Heads
    <3>2. InHeader(Units, at + 1)
      BY <1>1 DEF Heads
    <3>3. HeadLen \in Int /\ HeadLen >= 5
      BY <2>2, <3>1, DeliversSome, WireSizes DEF HeadAt, EndsHeader
    <3>4. ~(HeadLen \in 1 .. at)
      BY <2>2, <3>1, <3>2 DEF InHeader, HeadAt, Units
    <3> QED BY <1>1, <2>1, <2>2, <3>1, <3>3, <3>4, SameWire
  <2>6. state' = "STREAMING_BUFFERING" => ~Wire.wait
    BY <2>1
  <2>7. state' \notin {"SEND_HEADERS", "STREAMING_HTTP"}
    BY <2>1
  <2> QED BY <1>1, <2>4, <2>5, <2>6, <2>7, SameWire DEF Responses, Said, HttpStates
<1> QED BY <1>2, <1>3

\* Nothing is read over a response that was not sent yet.
LEMMA NotYetSent ==
  Conn /\ Metas /\ Responses /\ Streaming /\ ~sentHeaders /\ Waits => ~AtMeta /\ ogg.mode = "off"
<1> SUFFICES ASSUME Conn, Metas, Responses, Streaming, ~sentHeaders, Waits PROVE ~AtMeta /\ ogg.mode = "off"
  OBVIOUS
<1>1. ~Wire.wait
  BY DEF Responses, Streaming
<1>2. Wire.ogg = "off" /\ ogg.mode = "off"
  BY <1>1 DEF Waits, Responses, Streaming, HttpStates
<1>3. IsWire(Wire) /\ Wire.asked # "file"
  BY DeliversSome DEF Conn, ConnTyped, Streaming, HttpStates
<1>4. Wire.metaint = 0
  BY <1>1, <1>3, WireSizes DEF IsWire, IsResponse
<1>5. meta.interval = 0
  BY <1>4 DEF Metas
<1> QED BY <1>2, <1>5 DEF AtMeta

LEMMA RespThread == Conn /\ Heads /\ Metas /\ Conn' /\ Heads' /\ Responses /\ StreamThread => Responses'
<1> SUFFICES ASSUME Conn, Heads, Metas, Conn', Heads', Responses, StreamThread PROVE Responses'
  OBVIOUS
<1>1. CASE Poll \/ ClosedInPoll
  BY <1>1, RespKept DEF Poll, ClosedInPoll, netVars, headVars, connVars, bodyVars
<1>2. CASE ReadFile
  <2>1. UNCHANGED <<wires, turn, sent>> /\ state' \notin HttpStates
    BY <1>2 DEF ReadFile, connVars, Disconnected, HttpStates
  <2> QED BY <2>1, RespIdle
<1>3. CASE IcyClosed \/ BodyClosed
  <2>1. UNCHANGED <<wires, turn, sent>> /\ state' \notin HttpStates
    BY <1>3 DEF IcyClosed, BodyClosed, netVars, Disconnected, HttpStates
  <2> QED BY <2>1, RespIdle
<1>4. CASE StaleBody
  <2>1. UNCHANGED <<wires, turn, sent, sentHeaders, mem, len, ogg>> /\ state' \in {state, "DISCONNECT"}
    BY <1>4 DEF StaleBody, netVars, headVars, connVars, bodyVars, Disconnected
  <2> QED BY <2>1, RespIdle, RespKept DEF HttpStates
<1>5. CASE SendHeaders
  <2>1. UNCHANGED <<wires, turn, sent, mem, ogg>> /\ len' = 0 /\ state = "SEND_HEADERS" /\ state' \in {"RECV_HEADERS", "DISCONNECT"}
    BY <1>5 DEF SendHeaders, netVars, bodyVars
  <2>2. CASE state' = "RECV_HEADERS"
    BY <2>1, <2>2, SameWire DEF Responses, Said, Holding, HttpStates, Answered
  <2>3. CASE state' = "DISCONNECT"
    BY <2>1, <2>3, RespIdle DEF HttpStates
  <2> QED BY <2>1, <2>2, <2>3
<1>6. CASE HeaderClosed
  <2>1. /\ UNCHANGED <<wires, turn, sent, mem, ogg>> /\ state = "RECV_HEADERS"
        /\ state' = "STOPPED" \/ (TriesTls /\ state' = "SEND_HEADERS")
    BY <1>6 DEF HeaderClosed, netVars, bodyVars, Disconnected
  <2>2. CASE TriesTls /\ state' = "SEND_HEADERS"
    BY <2>1, <2>2, SameWire DEF Responses, Said, Holding, HttpStates, Answered, TriesTls
  <2>3. CASE state' = "STOPPED"
    BY <2>1, <2>3, RespIdle DEF HttpStates
  <2> QED BY <2>1, <2>2, <2>3
<1>7. CASE RecvHeader
  BY <1>7, RespRead
<1>8. CASE IcyLength \/ IcyMeta
  <2>1. UNCHANGED <<wires, turn, sent, sentHeaders, state, ogg>> /\ Streaming /\ AtMeta
    BY <1>8 DEF IcyLength, IcyMeta, connVars, bodyVars
  <2>2. sentHeaders \/ ~Waits
    BY <2>1, NotYetSent
  <2> QED BY <2>1, <2>2, SameWire DEF Responses, Said, Streaming, HttpStates
<1>9. CASE Body
  <2>1. /\ UNCHANGED <<wires, turn, sent, sentHeaders>> /\ Streaming
        /\ state' \in {"STREAMING_BUFFERING", "STREAMING_HTTP"}
        /\ \E n : LET r == StreamOgg([ogg |-> ogg, mem |-> mem, len |-> len, send |-> meta.send], n)
                  IN  ogg' = r.ogg /\ mem' = r.mem /\ len' = r.len
    BY <1>9 DEF Body, Streaming
  <2>2. ogg.mode = "off" => UNCHANGED <<ogg, mem, len>>
    BY <2>1 DEF StreamOgg
  <2>3. ogg.mode = "off" \/ (Wire.ogg # "off" /\ (sentHeaders \/ ~Waits))
    BY <2>1, NotYetSent DEF Responses, Streaming, HttpStates
  <2> QED BY <2>1, <2>2, <2>3, SameWire DEF Responses, Said, Streaming, Answered, Holding, HttpStates
<1> QED BY <1>1, <1>2, <1>3, <1>4, <1>5, <1>6, <1>7, <1>8, <1>9 DEF StreamThread

LEMMA RespStep == Inv /\ Inv' /\ Responses /\ [Next]_vars => Responses'
<1>1. Responses /\ UNCHANGED vars => Responses'
  BY RespKept DEF vars, netVars, headVars, connVars, bodyVars
<1> QED BY <1>1, RespController, RespThread DEF Inv, Next

LEMMA RespInit == Init => Responses
<1> SUFFICES ASSUME Init PROVE Responses
  OBVIOUS
<1>1. sent = <<>> /\ state = "STOPPED"
  BY DEF Init
<1>2. Range(sent) = {} /\ IsSeq(sent)
  <2>1. DOMAIN sent = {} /\ Range(sent) = {}
    BY <1>1 DEF Range
  <2>2. sent \in Seq(Range(sent))
    BY <1>1
  <2> QED BY <2>1, <2>2 DEF IsSeq
<1> QED BY <1>1, <1>2 DEF Responses, Said, HttpStates, Answered

LEMMA ResponsesHold == Spec => []Responses
<1> QED BY RespInit, RespStep, InvHolds, PTL DEF Spec

\* RESP is the response header, whole, for every response: nothing that comes after it is in it, and
\* no piece of metadata is written over it before the controller has copied it.
THEOREM RespHolds == Spec => []RespIsHeaders
<1>1. Responses => RespIsHeaders
  BY DEF Responses, Said, RespIsHeaders, Waits, Range
<1> QED BY <1>1, ResponsesHold, PTL

----------------------------------------------------------------------------
(* Pieces of metadata: the l units after a length, and no others. *)

Piece(l, n) == [k \in 1 .. n |-> l + k]
Block(u, l, j) == l \in 1 .. j /\ u[l].k = "l" /\ u[l].left = j - l /\ l < j

LEMMA MaxIs == ASSUME NEW S \in SUBSET Int, NEW m \in S, \A y \in S : y <= m PROVE Max(S) = m
<1>1. \A x \in S : (\A y \in S : x >= y) => x = m
  <2> SUFFICES ASSUME NEW x \in S, \A y \in S : x >= y PROVE x = m
    OBVIOUS
  <2>1. x >= m /\ x <= m /\ x \in Int /\ m \in Int
    OBVIOUS
  <2> QED BY <2>1
<1>2. \A y \in S : m >= y
  OBVIOUS
<1> QED BY <1>1, <1>2 DEF Max

LEMMA BlockIs ==
  ASSUME NEW w, IsWire(w), NEW j \in DOMAIN w.units, NEW l, Block(w.units, l, j)
  PROVE  /\ w.asked # "file" /\ l \in Nat /\ j \in Nat /\ l \in DOMAIN w.units /\ w.units[l].left = j - l
         /\ \A i \in (l + 1) .. j : i \in DOMAIN w.units /\ w.units[i].k = "m"
<1>1. DOMAIN w.units = 1 .. Len(w.units) /\ Len(w.units) \in Nat /\ w.metaint \in Nat
  BY WireSizes
<1>2. l \in 1 .. j /\ w.units[l].k = "l" /\ w.units[l].left = j - l /\ l < j
  BY DEF Block
<1>3. l \in Nat /\ j \in Nat /\ l \in DOMAIN w.units
  BY <1>1, <1>2
<1>4. w.asked # "file"
  BY <1>2, <1>3 DEF IsWire, InBody
<1>5. IsResponse(w)
  BY <1>4 DEF IsWire
<1>6. w.metaint > 0
  BY <1>1, <1>2, <1>3, <1>5 DEF IsResponse
<1>7. \A i \in (l + 1) .. (l + w.units[l].left) : i \in DOMAIN w.units => w.units[i].k = "m"
  BY <1>2, <1>3, <1>5, <1>6 DEF IsResponse
<1>8. l + w.units[l].left = j
  BY <1>2, <1>3
<1>9. \A i \in (l + 1) .. j : i \in DOMAIN w.units
  BY <1>1, <1>3
<1> QED BY <1>2, <1>3, <1>4, <1>7, <1>8, <1>9

LEMMA BlockUnits ==
  ASSUME NEW w, IsWire(w), NEW j \in DOMAIN w.units, NEW l, Block(w.units, l, j)
  PROVE  IcyUnits(w.units, j) = Piece(l, j - l)
<1> DEFINE S == {i \in 1 .. j : w.units[i].k = "l"}
<1>1. l \in Nat /\ j \in Nat /\ \A i \in (l + 1) .. j : w.units[i].k = "m"
  BY BlockIs
<1>2. l \in S
  BY DEF Block
<1>3. S \subseteq Int
  BY <1>1
<1>4. ASSUME NEW y \in S PROVE y <= l
  <2>1. y \in 1 .. j /\ ~(y \in (l + 1) .. j)
    BY <1>1
  <2> QED BY <1>1, <2>1
<1>5. Max(S) = l
  <2> HIDE DEF S
  <2> QED BY <1>2, <1>3, <1>4, MaxIs
<1> QED BY <1>5 DEF IcyUnits, Piece

LEMMA BlockEndsM ==
  ASSUME NEW w, IsWire(w), NEW j \in DOMAIN w.units, IcyBlock(w.units, j)
  PROVE  w.units[j].k = "m" /\ w.asked # "file" /\ \E l : Block(w.units, l, j)
<1>1. PICK l \in 1 .. j : Block(w.units, l, j)
  BY DEF IcyBlock, Block
<1>2. l \in Nat /\ j \in Nat /\ \A i \in (l + 1) .. j : w.units[i].k = "m"
  BY <1>1, BlockIs
<1>3. j \in (l + 1) .. j
  BY <1>1, <1>2 DEF Block
<1> QED BY <1>1, <1>2, <1>3, BlockIs

\* A piece that ends within another one is that one.
LEMMA OneBlock ==
  ASSUME NEW w, IsWire(w), w.asked # "file", NEW j \in DOMAIN w.units, NEW l, Block(w.units, l, j),
         NEW m \in DOMAIN w.units, w.units[m].k = "l", w.metaint > 0, m < j, j <= m + w.units[m].left
  PROVE  l = m
<1>1. l \in Nat /\ j \in Nat /\ l \in DOMAIN w.units /\ \A i \in (l + 1) .. j : w.units[i].k = "m"
  BY BlockIs
<1>2. DOMAIN w.units = 1 .. Len(w.units) /\ Len(w.units) \in Nat /\ m \in Nat
  BY WireSizes
<1>3. /\ w.units[m].left \in 0 .. (MaxHeader - 1)
      /\ \A i \in (m + 1) .. (m + w.units[m].left) : i \in DOMAIN w.units => w.units[i].k = "m"
  BY DEF IsWire, IsResponse
<1>4. w.units[m].left \in Nat /\ l < j /\ w.units[l].k = "l"
  BY <1>3, HttpAssumption DEF Block
<1>5. CASE m > l
  <2>1. m \in (l + 1) .. j
    BY <1>1, <1>2, <1>5
  <2> QED BY <1>1, <2>1
<1>6. CASE l > m
  <2>1. l \in (m + 1) .. (m + w.units[m].left)
    BY <1>1, <1>2, <1>4, <1>6
  <2> QED BY <1>1, <1>3, <1>4, <2>1
<1> QED BY <1>1, <1>2, <1>5, <1>6

\* stream.header as an array.
Array(m) == m \in Seq(Range(m)) /\ Len(m) = MaxHeader

LEMMA HeaderPiece ==
  ASSUME Array(mem), NEW l, NEW n \in 0 .. MaxHeader, len = n, \A i \in 1 .. n : mem[i] = l + i PROVE Header = Piece(l, n)
<1>1. PICK S : mem \in Seq(S)
  BY DEF Array
<1>2. n \in Nat /\ n <= Len(mem) /\ Len(mem) \in Nat
  BY <1>1, HttpAssumption DEF Array
<1>3. SubSeq(mem, 1, n) = [i \in 1 .. n |-> mem[i]]
  BY <1>1, <1>2
<1>4. [i \in 1 .. n |-> mem[i]] = [k \in 1 .. n |-> l + k]
  BY <1>2
<1> QED BY <1>3, <1>4 DEF Piece, Header

LEMMA ArrayNew == ASSUME NEW m, DOMAIN m = 1 .. MaxHeader, m = [i \in 1 .. MaxHeader |-> m[i]] PROVE Array(m)
<1>1. MaxHeader \in Nat
  BY HttpAssumption
<1>2. m \in [1 .. MaxHeader -> Range(m)]
  BY DEF Range
<1>3. PICK S : S = Range(m)
  OBVIOUS
<1>4. m \in [1 .. MaxHeader -> S]
  BY <1>2, <1>3
<1>5. m \in Seq(S) /\ Len(m) = MaxHeader
  BY <1>1, <1>4
<1> QED BY <1>3, <1>5 DEF Array

----------------------------------------------------------------------------
(* Without Ogg tags: how each piece of metadata comes in. *)

\* The comments of Ogg are read by a fold over the units of a read, about which nothing can be
\* proved here: what follows is about stream.header while it is filled by a connection without them.
Untagged == wires[Source].ogg = "off"

\* stream.header is an array of MAX_HEADER characters, filled no further than that.
Arrays == Array(mem) /\ len \in 0 .. (MaxHeader - 1)
EndCount == endtok \in 0 .. HeaderEnd

\* The connection reads of the piece whose length is unit l: at the end of it, stream.header holds
\* what there is of it, and META is due if that is all of it.
Reads(l) ==
    /\ l \in DOMAIN Units /\ Units[l].k = "l" /\ Units[l].left \in 0 .. (MaxHeader - 1)
    /\ Wire.metaint > 0 /\ l <= at + 1 /\ at <= at' /\ at' <= l + Units[l].left /\ at' <= Wire.cut
    /\ len' = at' - l /\ \A i \in 1 .. len' : mem'[i] = l + i
    /\ meta'.left = l + Units[l].left - at'
    /\ \A i \in (at + 1) .. at' : i = l \/ i \in (l + 1) .. (l + Units[l].left)
\* META is due once, when the last unit of the piece is there, and until it was sent.
Counts(l) ==
    /\ meta'.send => meta.send \/ (at' = l + Units[l].left /\ len' > 0)
    /\ meta.send => meta'.send /\ overtaken'
    /\ at' = l + Units[l].left /\ len' > 0 => meta'.send
    /\ overtaken => overtaken'

\* META that waits is written over only by the next piece.
InBlock == Streaming /\ AtMeta /\ meta.left > 0 /\ meta.send => overtaken

LEMMA LengthReads ==
  Conn /\ Heads /\ Metas /\ Buffers /\ IcyLength => Reads(at + 1) /\ Counts(at + 1) /\ DOMAIN mem' = 1 .. MaxHeader /\ mem' = [i \in 1 .. MaxHeader |-> mem'[i]]
<1> SUFFICES ASSUME Conn, Heads, Metas, Buffers, IcyLength
             PROVE  Reads(at + 1) /\ Counts(at + 1) /\ DOMAIN mem' = 1 .. MaxHeader /\ mem' = [i \in 1 .. MaxHeader |-> mem'[i]]
  OBVIOUS
<1>1. Streaming /\ AtMeta /\ meta.left = 0 /\ ~Gone /\ overtaken' = (overtaken \/ meta.send)
  BY DEF IcyLength
<1>2. PICK left : left = Units[at + 1].left
  OBVIOUS
<1>3. PICK n \in 0 .. Least(left, Delivers - at - 1) :
        /\ at' = at + 1 + n
        /\ mem' = [i \in 1 .. MaxHeader |-> IF i <= n THEN at + 1 + i ELSE mem[i]]
        /\ len' = n
        /\ meta' = MetaRead(left, n)
  BY <1>2 DEF IcyLength
<1>4. at + 1 \in DOMAIN Units /\ Units[at + 1].k = "l" /\ left \in 0 .. (MaxHeader - 1)
  BY <1>1, <1>2, LengthNext
<1>5. turn > 0 /\ at \in Nat /\ at <= Delivers
  BY <1>1 DEF Streaming, Conn, ConnTyped, Live
<1>6. Delivers \in Nat /\ IsWire(Wire) /\ Delivers <= Wire.cut
  BY <1>5, DeliversSome
<1>7. Wire.cut \in Nat /\ Wire.metaint \in Nat /\ left \in Nat /\ left <= MaxHeader - 1 /\ MaxHeader \in Nat
  BY <1>4, <1>6, WireSizes, HttpAssumption
<1>8. n \in Nat /\ n <= left /\ n <= Delivers - at - 1
  BY <1>5, <1>6, <1>7 DEF Least
<1>9. Wire.metaint > 0
  BY <1>1, <1>7 DEF AtMeta, Metas
<1>10. meta'.left = left - n
  BY <1>1, <1>3, <1>4, <1>8, MetaReadIs
<1>11. \A i \in 1 .. n : mem'[i] = at + 1 + i
  BY <1>3, <1>7, <1>8
<1>12. Reads(at + 1)
  <2>1. at' <= at + 1 + left /\ at' <= Wire.cut /\ at <= at' /\ n = at' - (at + 1) /\ left - n = at + 1 + left - at'
    BY <1>3, <1>5, <1>6, <1>7, <1>8
  <2>2. \A i \in (at + 1) .. at' : i = at + 1 \/ i \in (at + 1 + 1) .. (at + 1 + left)
    BY <1>3, <1>5, <1>7, <1>8
  <2> QED BY <1>2, <1>3, <1>4, <1>5, <1>9, <1>10, <1>11, <2>1, <2>2 DEF Reads
<1>13. meta'.send = (meta.send \/ (left = n /\ len' > 0))
  <2>1. meta \in Counters(meta.send)
    BY DEF Metas
  <2> QED BY <1>3, <2>1 DEF MetaRead, Counters
<1>14. at' = at + 1 + left <=> left = n
  BY <1>3, <1>5, <1>7, <1>8
<1>15. Counts(at + 1)
  BY <1>1, <1>2, <1>13, <1>14 DEF Counts
<1> QED BY <1>3, <1>12, <1>15

LEMMA PieceReads ==
  Conn /\ Heads /\ Metas /\ Buffers /\ InBlock /\ Array(mem) /\ IcyMeta =>
    \E l : Reads(l) /\ Counts(l) /\ DOMAIN mem' = 1 .. MaxHeader /\ mem' = [i \in 1 .. MaxHeader |-> mem'[i]]
<1> SUFFICES ASSUME Conn, Heads, Metas, Buffers, InBlock, Array(mem), IcyMeta
             PROVE  \E l : Reads(l) /\ Counts(l) /\ DOMAIN mem' = 1 .. MaxHeader /\ mem' = [i \in 1 .. MaxHeader |-> mem'[i]]
  OBVIOUS
<1>1. Streaming /\ AtMeta /\ meta.left > 0 /\ ~Gone /\ overtaken' = overtaken
  BY DEF IcyMeta
<1>3. PICK n \in 1 .. Least(meta.left, Delivers - at) :
         /\ at' = at + n
         /\ mem' = [i \in 1 .. MaxHeader |-> IF i \in (len + 1) .. (len + n) THEN at + i - len ELSE mem[i]]
         /\ len' = len + n
         /\ meta' = MetaRead(meta.left, n)
  BY DEF IcyMeta
<1>4. /\ n \in Nat /\ n <= meta.left /\ at \in Nat /\ meta.left \in Nat
      /\ \E l \in DOMAIN Units : Copied(l) /\ Units[l].left \in 0 .. (MaxHeader - 1)
  BY <1>1, PieceNext
<1>5. PICK l \in DOMAIN Units : Copied(l) /\ Units[l].left \in 0 .. (MaxHeader - 1)
  BY <1>4
<1>6. turn > 0 /\ at <= Delivers
  BY <1>1 DEF Streaming, Conn, ConnTyped, Live
<1>7. Delivers \in Nat /\ IsWire(Wire) /\ Delivers <= Wire.cut
  BY <1>6, DeliversSome
<1>8. /\ Wire.cut \in Nat /\ Wire.metaint \in Nat /\ MaxHeader \in Nat /\ Units[l].left \in Nat
      /\ Units[l].left <= MaxHeader - 1 /\ l \in Nat
  BY <1>5, <1>7, WireSizes, HttpAssumption DEF Units
<1>9. Wire.metaint > 0
  BY <1>1, <1>8 DEF AtMeta, Metas
<1>10. n <= Delivers - at
  BY <1>3, <1>4, <1>6, <1>7 DEF Least
<1>11. Units[l].k = "l" /\ l <= at /\ at + meta.left = l + Units[l].left /\ len = at - l /\ \A i \in 1 .. len : mem[i] = l + i
  BY <1>5 DEF Copied
<1>12. len \in Nat /\ len + n <= MaxHeader - 1
  BY <1>4, <1>8, <1>11
<1>13. \A i \in 1 .. (len + n) : mem'[i] = l + i
  <2> SUFFICES ASSUME NEW i \in 1 .. (len + n) PROVE mem'[i] = l + i
    OBVIOUS
  <2>1. i \in 1 .. MaxHeader
    BY <1>4, <1>8, <1>12
  <2>2. CASE i \in (len + 1) .. (len + n)
    <3>1. mem'[i] = at + i - len
      BY <1>3, <2>1, <2>2
    <3> QED BY <1>4, <1>8, <1>11, <3>1
  <2>3. CASE i \notin (len + 1) .. (len + n)
    <3>1. i \in 1 .. len
      BY <1>4, <1>12, <2>3
    <3> QED BY <1>3, <1>11, <2>1, <2>3, <3>1
  <2> QED BY <2>2, <2>3
<1>14. meta'.left = meta.left - n
  <2>1. meta.left \in 0 .. (MaxHeader - 1)
    BY DEF Metas, Counters
  <2> QED BY <1>1, <1>3, <1>4, <2>1, MetaReadIs
<1>s. /\ at' = at + n /\ l <= at /\ at + meta.left = l + Units[l].left /\ len = at - l /\ n <= meta.left
      /\ at \in Nat /\ n \in Nat /\ meta.left \in Nat /\ l \in Nat /\ Units[l].left \in Nat /\ len \in Nat
  BY <1>3, <1>4, <1>8, <1>11, <1>12
<1>15. Reads(l)
  <2>1. at' <= l + Units[l].left /\ at <= at' /\ l <= at + 1 /\ len + n = at' - l
        /\ meta.left - n = l + Units[l].left - at'
    BY <1>s
  <2>2. at' <= Wire.cut
    BY <1>s, <1>7, <1>8, <1>10
  <2>3. \A i \in (at + 1) .. at' : i \in (l + 1) .. (l + Units[l].left)
    BY <1>s
  <2> QED BY <1>3, <1>5, <1>9, <1>11, <1>13, <1>14, <2>1, <2>2, <2>3 DEF Reads
<1>16. meta'.send = (meta.send \/ (meta.left = n /\ len' > 0))
  <2>1. meta \in Counters(meta.send)
    BY DEF Metas
  <2> QED BY <1>3, <2>1 DEF MetaRead, Counters
<1>17. at' = l + Units[l].left <=> meta.left = n
  BY <1>s
<1>18. Counts(l)
  BY <1>1, <1>16, <1>17 DEF Counts, InBlock
<1> QED BY <1>3, <1>15, <1>18

----------------------------------------------------------------------------
(* Each piece is reported, whole. *)

Quiet == {"SEND_HEADERS", "RECV_HEADERS", "STREAMING_WAIT", "STREAMING_FILE"}
\* The piece that ends at unit j was sent, or will be, or was written over.
MetaDue(j) == Message("META", IcyUnits(Units, j)) \in Range(sent) \/ (meta.send /\ Header = IcyUnits(Units, j)) \/ overtaken
\* What is due, or was sent, is a whole piece of the connection that stream.header is of.
Pieces ==
    /\ at > 0 => turn > 0
    /\ turn = 0 \/ state \in Quiet => ~meta.send
    /\ InBlock
    /\ turn > 0 => Source \in 1 .. turn
    /\ Live \/ at > 0 => Source = turn
    /\ meta.send => overtaken \/ Header \in Whole
    /\ \A p \in Range(sent) : p.m = "META" => overtaken \/ p.what \in Whole
    /\ \A j \in 1 .. at : IcyBlock(Units, j) => MetaDue(j)

LEMMA SameSource == UNCHANGED <<wires, turn>> => Source' = Source
  BY DEF Source

LEMMA WholeGrows ==
  ASSUME UNCHANGED <<wires, turn>>, at \in Int, at' \in Int, at <= at', NEW x \in Whole PROVE x \in Whole'
<1>1. Source' = Source /\ wires' = wires /\ turn' = turn
  BY SameSource
<1> DEFINE units == wires[Source].units
           came == 1 .. IF Source = turn THEN at ELSE wires[Source].cut
           more == 1 .. IF Source = turn THEN at' ELSE wires[Source].cut
<1>2. came \subseteq more
  OBVIOUS
<1>3. (\E i \in came : IcyBlock(units, i) /\ x = IcyUnits(units, i))
      \/ (\E i \in came : EndsPage(units, i, {"tags", "damaged"}) /\ x = <<OggMark, i>>)
  BY DEF Whole
<1> HIDE DEF came, more
<1>4. (\E i \in more : IcyBlock(units, i) /\ x = IcyUnits(units, i))
      \/ (\E i \in more : EndsPage(units, i, {"tags", "damaged"}) /\ x = <<OggMark, i>>)
  BY <1>2, <1>3
<1> QED BY <1>1, <1>4 DEF Whole, more

LEMMA WholeHas ==
  ASSUME UNCHANGED <<wires, turn>>, Source = turn, turn > 0, NEW i \in 1 .. at', IcyBlock(Units, i)
  PROVE  IcyUnits(Units, i) \in Whole'
<1>1. Source' = Source /\ wires' = wires /\ turn' = turn
  BY SameSource
<1>2. Units = wires[Source].units /\ turn # 0
  BY DEF Units, Wire
<1> QED BY <1>1, <1>2 DEF Whole

\* Nothing is reported, and what is read has no end of a piece in it.
LEMMA PiecesGrow ==
  ASSUME Conn, Pieces, UNCHANGED <<wires, turn, sent>>, overtaken' <=> overtaken, meta'.send <=> meta.send,
         meta.send => Header' = Header, at' \in Int, at <= at',
         \A j \in (at + 1) .. at' : ~IcyBlock(Units, j),
         Live' => Live, at' > at => Live, state' \in Quiet => state \in Quiet, InBlock'
  PROVE  Pieces'
<1>1. Wire' = Wire /\ Units' = Units /\ Source' = Source /\ wires' = wires /\ turn' = turn /\ sent' = sent
  BY SameWire, SameSource
<1>2. at \in Nat /\ (Live => turn > 0) /\ turn \in Nat
  BY DEF Conn, ConnTyped, Live
<1>3. \A x \in Whole : x \in Whole'
  BY <1>2, WholeGrows
<1>4. at' > 0 => Live \/ at > 0
  BY <1>2
<1>5. ASSUME NEW j \in 1 .. at', IcyBlock(Units, j) PROVE MetaDue(j)'
  <2>1. j \in 1 .. at
    <3>1. ~(j \in (at + 1) .. at')
      BY <1>5
    <3> QED BY <1>2, <3>1
  <2>2. MetaDue(j)
    BY <1>5, <2>1 DEF Pieces
  <2> QED BY <1>1, <2>2 DEF MetaDue
<1>6. meta'.send => overtaken' \/ Header' \in Whole'
  BY <1>3 DEF Pieces
<1>7. \A p \in Range(sent') : p.m = "META" => overtaken' \/ p.what \in Whole'
  BY <1>1, <1>3 DEF Pieces
<1>8. at' > 0 => turn' > 0
  BY <1>1, <1>2, <1>4 DEF Pieces
<1>9. turn' = 0 \/ state' \in Quiet => ~meta'.send
  BY <1>1 DEF Pieces
<1>10. (turn' > 0 => Source' \in 1 .. turn') /\ (Live' \/ at' > 0 => Source' = turn')
  BY <1>1, <1>4 DEF Pieces
<1>11. \A j \in 1 .. at' : IcyBlock(Units', j) => MetaDue(j)'
  BY <1>1, <1>5
<1> QED BY <1>6, <1>7, <1>8, <1>9, <1>10, <1>11 DEF Pieces

\* A piece is read, or part of it.
LEMMA PiecesRead ==
  ASSUME Conn, Conn', Pieces, Streaming, UNCHANGED <<wires, turn, sent, state>>, NEW l, Reads(l), Counts(l), Array(mem')
  PROVE  Pieces'
<1>1. Wire' = Wire /\ Units' = Units /\ Source' = Source /\ wires' = wires /\ turn' = turn /\ sent' = sent
  BY SameWire, SameSource
<1>2. at \in Nat /\ at' \in Nat /\ turn > 0 /\ turn \in Nat /\ Live /\ Live' /\ Wire.asked # "file"
  BY DEF Conn, ConnTyped, Live, Streaming, HttpStates
<1>3. IsWire(Wire)
  BY <1>2, DeliversSome
<1>4. /\ l \in DOMAIN Wire.units /\ Units[l].k = "l" /\ Units[l].left \in Nat /\ Units[l].left <= MaxHeader - 1 /\ l \in Nat
      /\ DOMAIN Wire.units = 1 .. Len(Wire.units) /\ Len(Wire.units) \in Nat /\ Wire.cut <= Len(Wire.units) /\ Wire.cut \in Nat
      /\ MaxHeader \in Nat
  BY <1>3, WireSizes, HttpAssumption DEF Reads, Units
<1>5. /\ l <= at + 1 /\ at <= at' /\ at' <= l + Units[l].left /\ at' <= Wire.cut /\ len' = at' - l
      /\ Wire.metaint > 0
  BY DEF Reads
<1>6. Source = turn
  BY <1>2 DEF Pieces
<1>7. \A x \in Whole : x \in Whole'
  BY <1>2, <1>5, WholeGrows
<1>8. at' = l + Units[l].left /\ len' > 0 => Block(Units, l, at') /\ at' \in DOMAIN Units /\ at' \in 1 .. at'
  <2> SUFFICES ASSUME at' = l + Units[l].left, len' > 0
               PROVE  Block(Units, l, at') /\ at' \in DOMAIN Units /\ at' \in 1 .. at'
    OBVIOUS
  <2>s. /\ at' = l + Units[l].left /\ at' - l > 0 /\ at' <= Len(Wire.units) /\ l >= 1
        /\ at' \in Nat /\ l \in Nat /\ Units[l].left \in Nat /\ Len(Wire.units) \in Nat
    BY <1>2, <1>4, <1>5
  <2>1. l \in 1 .. at' /\ Units[l].left = at' - l /\ l < at' /\ at' \in 1 .. at' /\ at' \in 1 .. Len(Wire.units)
    BY <2>s
  <2> QED BY <1>4, <2>1 DEF Block, Units
<1>9. at' = l + Units[l].left /\ len' > 0 => Header' = IcyUnits(Units, at') /\ IcyBlock(Units, at')
  <2> SUFFICES ASSUME at' = l + Units[l].left, len' > 0
               PROVE  Header' = IcyUnits(Units, at') /\ IcyBlock(Units, at')
    OBVIOUS
  <2>1. Block(Units, l, at') /\ at' \in DOMAIN Units
    BY <1>8
  <2>2. IcyUnits(Units, at') = Piece(l, at' - l)
    BY <1>3, <2>1, BlockUnits DEF Units
  <2>3. Header' = Piece(l, at' - l)
    <3>1. PICK S : mem' \in Seq(S) /\ Len(mem') = MaxHeader
      BY DEF Array
    <3>2. PICK n \in Nat : n = at' - l
      BY <1>2, <1>4, <1>5
    <3>3. n <= Len(mem') /\ len' = n /\ Len(mem') \in Nat
      BY <1>2, <1>4, <1>5, <3>1, <3>2
    <3>4. \A i \in 1 .. n : mem'[i] = l + i
      BY <1>5, <3>2 DEF Reads
    <3>5. SubSeq(mem', 1, n) = [i \in 1 .. n |-> mem'[i]]
      BY <3>1, <3>3
    <3>6. [i \in 1 .. n |-> mem'[i]] = [k \in 1 .. n |-> l + k]
      BY <3>4
    <3> QED BY <3>2, <3>3, <3>5, <3>6 DEF Piece, Header
  <2> QED BY <2>1, <2>2, <2>3 DEF IcyBlock, Block
<1>10. meta'.send => overtaken' \/ Header' \in Whole'
  <2>1. CASE meta.send
    BY <2>1 DEF Counts
  <2>2. CASE ~meta.send
    <3> SUFFICES ASSUME meta'.send PROVE Header' \in Whole'
      OBVIOUS
    <3>1. at' = l + Units[l].left /\ len' > 0
      BY <2>2 DEF Counts
    <3> QED BY <1>2, <1>6, <1>8, <1>9, <3>1, WholeHas
  <2> QED BY <2>1, <2>2
<1>11. \A p \in Range(sent') : p.m = "META" => overtaken' \/ p.what \in Whole'
  BY <1>1, <1>7 DEF Pieces, Counts
<1>12. ASSUME NEW j \in 1 .. at', IcyBlock(Units, j) PROVE MetaDue(j)'
  <2>1. CASE j <= at
    <3>1. MetaDue(j)
      BY <1>2, <1>12, <2>1 DEF Pieces
    <3> QED BY <1>1, <3>1 DEF MetaDue, Counts
  <2>2. CASE j > at
    <3>1. j \in (at + 1) .. at' /\ j \in DOMAIN Wire.units /\ j \in Nat
      BY <1>2, <1>4, <1>5, <2>2
    <3>2. Units[j].k = "m" /\ \E m : Block(Wire.units, m, j)
      BY <1>3, <1>12, <3>1, BlockEndsM DEF Units
    <3>3. PICK m : Block(Wire.units, m, j)
      BY <3>2
    <3>4. j # l
      BY <1>4, <3>2
    <3>5. l < j /\ j <= l + Units[l].left
      <4>1. j \in (l + 1) .. (l + Units[l].left)
        BY <3>1, <3>4 DEF Reads
      <4> QED BY <1>4, <3>1, <4>1
    <3>6. m = l
      BY <1>2, <1>3, <1>4, <1>5, <3>1, <3>3, <3>5, OneBlock DEF Units
    <3>7. Units[l].left = j - l
      BY <3>3, <3>6 DEF Block, Units
    <3>8. j = at' /\ at' = l + Units[l].left /\ len' > 0
      BY <1>2, <1>4, <1>5, <3>1, <3>5, <3>7
    <3> QED BY <1>1, <1>9, <3>8 DEF MetaDue, Counts
  <2> QED BY <1>2, <2>1, <2>2
<1>13. InBlock'
  <2> SUFFICES ASSUME meta'.left > 0, meta'.send PROVE overtaken'
    BY DEF InBlock
  <2>1. meta'.left = l + Units[l].left - at'
    BY DEF Reads
  <2>2. at' # l + Units[l].left
    BY <1>2, <1>4, <2>1
  <2> QED BY <2>2 DEF Counts
<1>14. \A j \in 1 .. at' : IcyBlock(Units', j) => MetaDue(j)'
  BY <1>1, <1>12
<1>15. state' \notin Quiet /\ turn' # 0 /\ Source' \in 1 .. turn'
  BY <1>1, <1>2, <1>6 DEF Streaming, Quiet
<1> QED BY <1>1, <1>2, <1>6, <1>10, <1>11, <1>13, <1>14, <1>15 DEF Pieces

\* A connection that was made is where stream.header comes from.
LEMMA SourceNew ==
  ASSUME wires' = wires, turn \in Nat, turn' = turn + 1,
         wires[turn + 1].asked = "file" \/ Connects(wires[turn + 1]) # "unreachable"
  PROVE  Source' = turn'
<1> DEFINE S == {1} \cup {t \in 1 .. turn' : wires[t].asked = "file" \/ Connects(wires[t]) # "unreachable"}
<1>1. S \in SUBSET Int /\ turn' \in S /\ \A y \in S : y <= turn'
  OBVIOUS
<1>2. Source' = Max(S)
  BY DEF Source
<1> HIDE DEF S
<1> QED BY <1>1, <1>2, MaxIs

\* One that was not is not.
LEMMA SourceOld ==
  ASSUME wires' = wires, turn \in Nat, turn' = turn + 1,
         wires[turn + 1].asked # "file" /\ Connects(wires[turn + 1]) = "unreachable"
  PROVE  Source' = Source /\ (turn = 0 => Source = 1)
<1> DEFINE P(t) == wires[t].asked = "file" \/ Connects(wires[t]) # "unreachable"
           S(n) == {1} \cup {t \in 1 .. n : P(t)}
<1>1. Source' = Max(S(turn')) /\ Source = Max(S(turn))
  BY DEF Source
<1>2. \A t \in 1 .. turn' : t \in 1 .. turn \/ ~P(t)
  OBVIOUS
<1>3. 1 .. turn \subseteq 1 .. turn'
  OBVIOUS
<1> HIDE DEF P
<1>4. S(turn') = S(turn)
  BY <1>2, <1>3
<1>5. CASE turn = 0
  <2>1. S(turn) = {1}
    BY <1>5
  <2>2. Max({1}) = 1
    <3>1. {1} \in SUBSET Int /\ 1 \in {1} /\ \A y \in {1} : y <= 1
      OBVIOUS
    <3> QED BY <3>1, MaxIs
  <2> QED BY <1>1, <1>4, <2>1, <2>2
<1>6. CASE turn # 0
  BY <1>1, <1>4, <1>6
<1> QED BY <1>5, <1>6

\* A new connection has no metadata yet.
LEMMA PiecesNew == Conn /\ (StreamSock \/ StreamFile) => Pieces'
<1> SUFFICES ASSUME Conn, StreamSock \/ StreamFile PROVE Pieces'
  OBVIOUS
<1>1. /\ wires' = wires /\ turn' = turn + 1 /\ at' = 0 /\ sent' = <<>> /\ meta' = NoMeta
      /\ wires[turn + 1].asked = "file" \/ Connects(wires[turn + 1]) # "unreachable"
  BY DEF StreamSock, StreamFile, StartConnection
<1>2. InBlock'
  BY <1>1 DEF NoMeta, InBlock
<1>3. Source' = turn' /\ turn' \in 1 .. turn'
  BY <1>1, SourceNew DEF Conn, ConnTyped
<1>4. Range(sent') = {} /\ ~meta'.send /\ 1 .. at' = {}
  BY <1>1, SentNone DEF NoMeta
<1> QED BY <1>1, <1>2, <1>3, <1>4 DEF Pieces

LEMMA PiecesController == Inv /\ Responses /\ Pieces /\ (Controller \/ Consume) => Pieces'
<1> SUFFICES ASSUME Inv, Responses, Pieces, Controller \/ Consume PROVE Pieces'
  OBVIOUS
<1>a. Conn /\ Metas /\ at \in Nat /\ turn \in Nat /\ (Live => turn > 0) /\ IsSeq(sent)
  BY DEF Inv, Conn, ConnTyped, Live, Responses
<1>1. CASE StreamSock \/ StreamFile
  BY <1>1, <1>a, PiecesNew
<1>2. CASE Unreachable
  <2>1. /\ wires' = wires /\ turn' = turn + 1 /\ at' = 0 /\ sent' = <<>> /\ UNCHANGED <<meta, mem, len, overtaken>>
        /\ wires[turn + 1].asked # "file" /\ Connects(wires[turn + 1]) = "unreachable" /\ state' = "DISCONNECT"
    BY <1>2 DEF Unreachable, StartConnection, headVars
  <2>2. Source' = Source /\ (turn = 0 => Source = 1)
    BY <1>a, <2>1, SourceOld
  <2>3. Source' \in 1 .. turn' /\ (turn > 0 => Source' = Source /\ Source \in 1 .. turn)
    <3>1. turn > 0 => Source \in 1 .. turn
      BY DEF Pieces
    <3>2. turn \in Nat /\ turn' = turn + 1
      BY <1>a, <2>1
    <3> HIDE DEF Source
    <3> QED BY <2>2, <3>1, <3>2
  <2>4. Range(sent') = {} /\ 1 .. at' = {} /\ ~Live' /\ ~Streaming' /\ state' \notin Quiet /\ turn' # 0
    BY <1>a, <2>1, SentNone DEF Live, Streaming, Quiet
  <2>5. ASSUME meta'.send PROVE overtaken' \/ Header' \in Whole'
    <3>1. meta.send /\ Header' = Header
      BY <2>1, <2>5 DEF Header
    <3>2. turn > 0 /\ (overtaken \/ Header \in Whole)
      BY <1>a, <3>1 DEF Pieces
    <3>3. ASSUME NEW x \in Whole PROVE x \in Whole'
      <4> DEFINE units == wires[Source].units
                 came == 1 .. IF Source = turn THEN at ELSE wires[Source].cut
                 more == 1 .. wires[Source].cut
      <4>1. came \subseteq more
        <5>1. CASE Source = turn
          <6>1. at <= wires[Source].cut /\ wires[Source].cut \in Nat
            <7>1. Wire = wires[Source] /\ at <= Wire.cut /\ IsWire(Wire)
              BY <1>a, <3>2, <5>1, DeliversSome DEF Conn, Wire
            <7> QED BY <7>1, WireSizes
          <6> QED BY <1>a, <5>1, <6>1
        <5> QED BY <5>1
      <4>2. (\E i \in came : IcyBlock(units, i) /\ x = IcyUnits(units, i))
            \/ (\E i \in came : EndsPage(units, i, {"tags", "damaged"}) /\ x = <<OggMark, i>>)
        BY <3>3 DEF Whole
      <4>3. Source' = Source /\ Source' # turn' /\ wires' = wires
        BY <1>a, <2>1, <2>3, <3>2
      <4> HIDE DEF came, more
      <4>4. (\E i \in more : IcyBlock(units, i) /\ x = IcyUnits(units, i))
            \/ (\E i \in more : EndsPage(units, i, {"tags", "damaged"}) /\ x = <<OggMark, i>>)
        BY <4>1, <4>2
      <4> QED BY <4>3, <4>4 DEF Whole, more
    <3> QED BY <2>1, <3>1, <3>2, <3>3
  <2>6. InBlock' /\ ~(at' > 0)
    BY <2>1, <2>4 DEF InBlock
  <2> QED BY <2>3, <2>4, <2>5, <2>6 DEF Pieces
<1>3. CASE Quit
  <2>1. UNCHANGED <<wires, turn, at, sent, overtaken, meta, mem, len>> /\ state' = "STOPPED"
    BY <1>3 DEF Quit, netVars, headVars, histVars
  <2>2. Header' = Header /\ ~Live' /\ state' \notin Quiet /\ InBlock'
    BY <2>1 DEF Header, Live, Quiet, InBlock, Streaming
  <2> QED BY <1>a, <2>1, <2>2, PiecesGrow
<1>4. CASE Report
  <2> DEFINE dsco == state = "DISCONNECT"
             resp == ~sentHeaders /\ state \in Answered
  <2>1. /\ UNCHANGED <<wires, turn, at, mem, len, overtaken>> /\ state' \in {state, "STOPPED"}
        /\ meta' = [meta EXCEPT !.send = FALSE]
        /\ sent' = sent \o Maybe(dsco, Message("DSCO", <<>>)) \o Maybe(resp, Message("RESP", Header))
                        \o Maybe(meta.send, Message("META", Header))
    BY <1>4 DEF Report, netVars, headVars, histVars, Answered, Maybe
  <2> HIDE DEF dsco, resp
  <2>2. /\ IsSeq(sent')
        /\ Range(sent') = With(With(With(Range(sent), dsco, Message("DSCO", <<>>)), resp, Message("RESP", Header)),
                               meta.send, Message("META", Header))
    <3>1. PICK x, y, z : x = Message("DSCO", <<>>) /\ y = Message("RESP", Header) /\ z = Message("META", Header)
      OBVIOUS
    <3>2. PICK t : t = sent'
      OBVIOUS
    <3>3. t = sent \o Maybe(dsco, x) \o Maybe(resp, y) \o Maybe(meta.send, z)
      BY <2>1, <3>1, <3>2
    <3>4. Adds(t, sent, dsco, x, resp, y, meta.send, z)
      BY <1>a, <3>3, AppendsThree
    <3> QED BY <3>1, <3>2, <3>4 DEF Adds
  <2>3. ~meta'.send
    <3>1. meta \in Counters(meta.send)
      BY <1>a DEF Metas
    <3> QED BY <2>1, <3>1 DEF Counters
  <2>4. Wire' = Wire /\ Units' = Units /\ Source' = Source /\ Header' = Header /\ Whole' = Whole
    BY <2>1, SameWire, SameSource DEF Header, Whole
  <2>5. ASSUME NEW p \in Range(sent'), p.m = "META" PROVE overtaken' \/ p.what \in Whole'
    <3>1. p \in Range(sent) \/ (meta.send /\ p = Message("META", Header))
      BY <2>2, <2>5 DEF With, Message
    <3> QED BY <2>1, <2>4, <2>5, <3>1 DEF Pieces, Message
  <2>6. /\ \A p \in Range(sent) : p \in Range(sent')
        /\ meta.send => Message("META", Header) \in Range(sent')
    BY <2>2 DEF With
  <2>7. ASSUME NEW j \in 1 .. at', IcyBlock(Units', j) PROVE MetaDue(j)'
    <3>1. MetaDue(j)
      BY <2>1, <2>4, <2>7 DEF Pieces
    <3> QED BY <2>1, <2>4, <2>6, <3>1 DEF MetaDue
  <2>8. (Live' => Live) /\ InBlock'
    BY <2>1, <2>3 DEF Live, InBlock
  <2> QED BY <2>1, <2>3, <2>4, <2>5, <2>7, <2>8 DEF Pieces
<1>5. CASE Cont
  <2>1. /\ UNCHANGED <<wires, turn, at, sent, overtaken, mem, len>> /\ state = "STREAMING_WAIT"
        /\ state' = "STREAMING_BUFFERING" /\ meta' = [meta EXCEPT !.interval = Wire.metaint, !.next = Wire.metaint]
    BY <1>5 DEF Cont, netVars, headVars, histVars
  <2>2. meta'.send = meta.send /\ meta'.left = meta.left
    <3>1. meta \in Counters(meta.send)
      BY <1>a DEF Metas
    <3> QED BY <2>1, <3>1 DEF Counters
  <2>3. ~meta.send
    BY <2>1 DEF Pieces, Quiet
  <2>4. InBlock' /\ Live
    BY <2>1, <2>2, <2>3 DEF InBlock, Live
  <2> QED BY <1>a, <2>1, <2>2, <2>3, <2>4, PiecesGrow DEF Quiet
<1>6. CASE Consume
  <2>1. UNCHANGED <<wires, turn, at, sent, overtaken, meta, mem, len, state>>
    BY <1>6 DEF Consume, netVars, connVars, headVars, histVars
  <2>2. Header' = Header /\ (Live' => Live) /\ InBlock'
    BY <2>1 DEF Header, Live, Pieces, InBlock, Streaming, AtMeta
  <2> QED BY <1>a, <2>1, <2>2, PiecesGrow
<1> QED BY <1>1, <1>2, <1>3, <1>4, <1>5, <1>6 DEF Controller

LEMMA ArraysNew == StreamSock \/ StreamFile => Arrays'
<1> SUFFICES ASSUME StreamSock \/ StreamFile PROVE Arrays'
  OBVIOUS
<1>1. mem' = [i \in 1 .. MaxHeader |-> IF i <= Len(Request) THEN Request[i] ELSE mem[i]] /\ len' = Len(Request)
  BY DEF StreamSock, StreamFile, StartConnection
<1>2. Array(mem') /\ len' = 2
  BY <1>1, AsksNew DEF Asks, Array
<1> QED BY <1>2, HttpAssumption DEF Arrays

\* A connection without Ogg tags parses none.
LEMMA NotParsed == Conn /\ Untagged /\ Responses /\ Pieces /\ Streaming => ogg.mode = "off"
<1> SUFFICES ASSUME Conn, Untagged, Responses, Pieces, Streaming PROVE ogg.mode = "off"
  OBVIOUS
<1>1. Live /\ turn > 0 /\ state \in HttpStates
  BY DEF Conn, ConnTyped, Streaming, Live, HttpStates
<1>2. Wire.ogg = "off"
  BY <1>1 DEF Pieces, Untagged, Wire
<1> QED BY <1>1, <1>2 DEF Responses

\* stream.header stays an array of MAX_HEADER characters, filled no further than that.
LEMMA ArraysStep == Untagged /\ Inv /\ Requests /\ Responses /\ Arrays /\ Pieces /\ [Next]_vars => Arrays'
<1> SUFFICES ASSUME Untagged, Inv, Requests, Responses, Arrays, Pieces, [Next]_vars PROVE Arrays'
  OBVIOUS
<1>a. Conn /\ Heads /\ Metas /\ Buffers
  BY DEF Inv
<1>b. Array(mem) /\ len \in 0 .. (MaxHeader - 1)
  BY DEF Arrays
<1>c. MaxHeader \in Nat /\ MaxHeader >= 3 /\ 0 \in 0 .. (MaxHeader - 1) /\ 2 \in 0 .. (MaxHeader - 1)
  BY HttpAssumption
<1>1. CASE UNCHANGED <<mem, len>>
  BY <1>1, <1>b DEF Arrays
<1>2. CASE StreamSock \/ StreamFile
  BY <1>2, ArraysNew
<1>3. CASE Unreachable \/ Quit \/ Report \/ Cont \/ Consume
  BY <1>1, <1>3 DEF Unreachable, Quit, Report, Cont, Consume, headVars, bodyVars
<1>4. CASE Poll \/ ReadFile \/ ClosedInPoll \/ IcyClosed \/ BodyClosed \/ StaleBody
  BY <1>1, <1>4 DEF Poll, ReadFile, ClosedInPoll, IcyClosed, BodyClosed, StaleBody, headVars, bodyVars
<1>5. CASE SendHeaders
  BY <1>5, <1>b, <1>c DEF SendHeaders, bodyVars, Arrays
<1>6. CASE HeaderClosed
  <2>1. mem' = mem /\ state = "RECV_HEADERS" /\ (len' = len \/ (len = 0 /\ len' = mlen))
    BY <1>6 DEF HeaderClosed, bodyVars, TriesTls, RetryLen
  <2> QED BY <1>b, <1>c, <2>1 DEF Arrays, Requests
<1>7. CASE RecvHeader
  <2>1. \/ UNCHANGED <<mem, len>>
        \/ ~(len >= MaxHeader - 1) /\ mem' = [mem EXCEPT ![len + 1] = at'] /\ len' = len + 1
    BY <1>7 DEF RecvHeader
  <2>2. CASE UNCHANGED <<mem, len>>
    BY <1>1, <2>2
  <2>3. CASE ~(len >= MaxHeader - 1) /\ mem' = [mem EXCEPT ![len + 1] = at'] /\ len' = len + 1
    <3>1. len \in Nat /\ len + 1 <= MaxHeader - 1
      BY <1>b, <1>c, <2>3
    <3>2. len' \in 0 .. (MaxHeader - 1)
      BY <1>c, <2>3, <3>1
    <3>3. Array(mem')
      <4>1. PICK S : mem \in Seq(S) /\ S = Range(mem)
        BY <1>b DEF Array
      <4>2. Len(mem) = MaxHeader /\ MaxHeader \in Nat /\ len + 1 \in 1 .. Len(mem)
        BY <1>b, <1>c, <3>1, HttpAssumption DEF Array
      <4>3. mem' \in Seq(S \cup {at'}) /\ Len(mem') = MaxHeader /\ DOMAIN mem' = 1 .. MaxHeader
        BY <2>3, <4>1, <4>2
      <4>4. \A i \in 1 .. Len(mem') : mem'[i] \in Range(mem')
        BY <4>3 DEF Range
      <4> HIDE DEF Range
      <4> QED BY <4>3, <4>4 DEF Array
    <3> QED BY <3>2, <3>3 DEF Arrays
  <2> QED BY <2>1, <2>2, <2>3
<1>8. CASE IcyLength \/ IcyMeta
  <2>1. len' \in 0 .. (MaxHeader - 1) /\ DOMAIN mem' = 1 .. MaxHeader /\ mem' = [i \in 1 .. MaxHeader |-> mem'[i]]
    <3>1. CASE IcyLength
      <4>1. PICK n \in 0 .. Least(Units[at + 1].left, Delivers - at - 1) :
              len' = n /\ mem' = [i \in 1 .. MaxHeader |-> IF i <= n THEN at + 1 + i ELSE mem[i]]
        BY <3>1 DEF IcyLength
      <4>2. Units[at + 1].left \in 0 .. (MaxHeader - 1)
        BY <1>a, <3>1, LengthNext DEF IcyLength
      <4>3. Delivers - at - 1 \in Int
        <5>1. turn > 0 /\ at \in Nat
          BY <1>a, <3>1 DEF IcyLength, Streaming, Conn, ConnTyped
        <5> QED BY <1>a, <5>1, DeliversSome
      <4>4. n \in Nat /\ n <= Units[at + 1].left
        BY <1>c, <4>1, <4>2, <4>3 DEF Least
      <4>5. len' \in 0 .. (MaxHeader - 1)
        BY <1>c, <4>1, <4>2, <4>4
      <4> QED BY <4>1, <4>5
    <3>2. CASE IcyMeta
      <4>1. PICK n \in 1 .. Least(meta.left, Delivers - at) :
              /\ len' = len + n
              /\ mem' = [i \in 1 .. MaxHeader |-> IF i \in (len + 1) .. (len + n) THEN at + i - len ELSE mem[i]]
        BY <3>2 DEF IcyMeta
      <4>2. /\ n \in Nat /\ n <= meta.left /\ at \in Nat /\ meta.left \in Nat
            /\ \E l \in DOMAIN Units : Copied(l) /\ Units[l].left \in 0 .. (MaxHeader - 1)
        BY <1>a, <3>2, PieceNext DEF IcyMeta
      <4>3. PICK l : at + meta.left = l + Units[l].left /\ len = at - l /\ Units[l].left \in 0 .. (MaxHeader - 1) /\ l \in DOMAIN Units
        BY <4>2 DEF Copied
      <4>4. l \in Nat
        <5>1. turn > 0
          BY <1>a, <3>2 DEF IcyMeta, Streaming, Conn, ConnTyped
        <5> QED BY <1>a, <4>3, <5>1, DeliversSome, WireSizes DEF Units
      <4>5. len + n \in 0 .. (MaxHeader - 1)
        BY <1>b, <1>c, <4>2, <4>3, <4>4
      <4> QED BY <4>1, <4>5
    <3> QED BY <1>8, <3>1, <3>2
  <2> QED BY <2>1, ArrayNew DEF Arrays
<1>9. CASE Body
  <2>1. /\ Streaming
        /\ \E n : LET r == StreamOgg([ogg |-> ogg, mem |-> mem, len |-> len, send |-> meta.send], n)
                  IN  mem' = r.mem /\ len' = r.len
    BY <1>9 DEF Body, Streaming
  <2>2. UNCHANGED <<mem, len>>
    BY <1>a, <2>1, NotParsed DEF StreamOgg
  <2> QED BY <1>1, <2>2
<1>10. CASE UNCHANGED vars
  BY <1>1, <1>10 DEF vars, headVars, bodyVars
<1> QED BY <1>2, <1>3, <1>4, <1>5, <1>6, <1>7, <1>8, <1>9, <1>10 DEF Next, StreamThread, Controller

LEMMA PiecesThread == Untagged /\ Inv /\ Inv' /\ Responses /\ Arrays /\ Arrays' /\ Pieces /\ StreamThread => Pieces'
<1> SUFFICES ASSUME Untagged, Inv, Inv', Responses, Arrays, Arrays', Pieces, StreamThread PROVE Pieces'
  OBVIOUS
<1>a. Conn /\ Conn' /\ Heads /\ Metas /\ Buffers /\ at \in Nat /\ at' \in Nat /\ turn \in Nat /\ (Live => turn > 0)
  BY DEF Inv, Conn, ConnTyped, Live
<1>b. Array(mem) /\ Array(mem') /\ InBlock
  BY DEF Arrays, Pieces
<1>1. CASE Poll \/ ClosedInPoll \/ IcyClosed \/ BodyClosed \/ StaleBody
  <2>1. /\ UNCHANGED <<wires, turn, at, sent, overtaken, meta, mem, len>> /\ state' \in {state, "STOPPED", "DISCONNECT"}
    BY <1>1 DEF Poll, ClosedInPoll, IcyClosed, BodyClosed, StaleBody, netVars, connVars, headVars, histVars, Disconnected
  <2>2. Header' = Header /\ (Live' => Live) /\ InBlock' /\ (state' \in Quiet => state \in Quiet)
    BY <1>b, <2>1 DEF Header, Live, InBlock, Streaming, AtMeta, Quiet
  <2> QED BY <1>a, <2>1, <2>2, PiecesGrow
<1>2. CASE SendHeaders \/ HeaderClosed
  <2>1. /\ UNCHANGED <<wires, turn, at, sent, overtaken, meta>> /\ state \in {"SEND_HEADERS", "RECV_HEADERS"}
        /\ state' \in {"SEND_HEADERS", "RECV_HEADERS", "STOPPED", "DISCONNECT"}
    BY <1>2 DEF SendHeaders, HeaderClosed, netVars, Disconnected
  <2>2. ~meta.send
    BY <2>1 DEF Pieces, Quiet
  <2>3. (Live' => Live) /\ InBlock' /\ (state' \in Quiet => state \in Quiet)
    BY <2>1 DEF Live, InBlock, Streaming, Quiet
  <2> QED BY <1>a, <2>1, <2>2, <2>3, PiecesGrow
<1>3. CASE RecvHeader
  <2>1. UNCHANGED <<wires, turn, sent, overtaken, meta>> /\ state = "RECV_HEADERS" /\ at' = at + 1 /\ ~Gone
    BY <1>3 DEF RecvHeader
  <2>2. ~meta.send /\ Live
    BY <2>1 DEF Pieces, Quiet, Live
  <2>3. IsWire(Wire) /\ Wire.asked # "file" /\ Delivers \in Nat /\ Delivers <= Wire.cut /\ at <= Delivers /\ at # Delivers
    BY <1>a, <2>1, <2>2, DeliversSome DEF Conn, HttpStates, Gone
  <2>4. at + 1 \in DOMAIN Wire.units
    BY <1>a, <2>3, WireSizes
  <2>5. InHeader(Units, at + 1)
    BY <1>a, <2>1 DEF Heads
  <2>6. Wire.units[at + 1].k \in {"c", "n"}
    BY <2>3, <2>4, <2>5 DEF IsWire, IsResponse, Units
  <2>7. ~IcyBlock(Units, at + 1)
    BY <2>3, <2>4, <2>6, BlockEndsM DEF Units
  <2>8. \A j \in (at + 1) .. at' : j = at + 1
    BY <1>a, <2>1
  <2>9. InBlock' /\ (state' \in Quiet => state \in Quiet)
    BY <2>1, <2>2 DEF InBlock, Quiet
  <2> QED BY <1>a, <2>1, <2>2, <2>7, <2>8, <2>9, PiecesGrow
<1>4. CASE ReadFile
  <2>1. /\ UNCHANGED <<wires, turn, sent, overtaken, meta, mem, len>> /\ state = "STREAMING_FILE" /\ state' \in {state, "DISCONNECT"}
        /\ \/ at' = at
           \/ \E n \in 1 .. Least(Space, Delivers - at) : at' = at + n
    BY <1>4 DEF ReadFile, headVars, histVars, connVars, Disconnected
  <2>2. Live /\ turn > 0 /\ Wire.asked = "file"
    BY <1>a, <2>1 DEF Live, Conn
  <2>3. IsWire(Wire) /\ Wire'.cut = Wire.cut /\ at' <= Wire.cut /\ Wire.cut \in Nat
    BY <1>a, <2>1, <2>2, DeliversSome, WireSizes, SameWire DEF Conn
  <2>4. at <= at'
    <3>1. CASE at' = at
      BY <1>a, <3>1
    <3>2. CASE \E n \in 1 .. Least(Space, Delivers - at) : at' = at + n
      <4>1. Space \in Int /\ Delivers - at \in Int
        BY <1>a, <2>2, DeliversSome, SpaceIs
      <4>2. Least(Space, Delivers - at) \in Int
        BY <4>1 DEF Least
      <4> QED BY <1>a, <3>2, <4>2
    <3> QED BY <2>1, <3>1, <3>2
  <2>5. ASSUME NEW j \in (at + 1) .. at' PROVE ~IcyBlock(Units, j)
    <3>1. j \in DOMAIN Wire.units
      BY <1>a, <2>3, WireSizes
    <3> QED BY <2>2, <2>3, <3>1, BlockEndsM DEF Units
  <2>6. Header' = Header /\ InBlock' /\ (state' \in Quiet => state \in Quiet)
    BY <2>1 DEF Header, InBlock, Streaming, Quiet
  <2> QED BY <1>a, <2>1, <2>2, <2>4, <2>5, <2>6, PiecesGrow
<1>5. CASE IcyLength
  <2>1. UNCHANGED <<wires, turn, sent, state>> /\ Streaming
    BY <1>5 DEF IcyLength, connVars
  <2> QED BY <1>5, <1>a, <1>b, <2>1, LengthReads, PiecesRead
<1>6. CASE IcyMeta
  <2>1. UNCHANGED <<wires, turn, sent, state>> /\ Streaming
    BY <1>6 DEF IcyMeta, connVars
  <2>2. PICK l : Reads(l) /\ Counts(l)
    BY <1>6, <1>a, <1>b, PieceReads
  <2> QED BY <1>a, <1>b, <2>1, <2>2, PiecesRead
<1>7. CASE Body
  <2>1. /\ UNCHANGED <<wires, turn, sent>> /\ Streaming /\ ~AtMeta
        /\ state' \in {"STREAMING_BUFFERING", "STREAMING_HTTP"}
    BY <1>7 DEF Body, Streaming
  <2>2. PICK n \in 1 .. Least(BodySpace, Delivers - at) :
          LET r == StreamOgg([ogg |-> ogg, mem |-> mem, len |-> len, send |-> meta.send], n)
          IN  /\ mem' = r.mem /\ len' = r.len
              /\ overtaken' = (overtaken \/ (meta.send /\ <<r.mem, r.len>> # <<mem, len>>))
              /\ at' = at + n
              /\ meta' = [meta EXCEPT !.send = r.send, !.next = IF meta.interval > 0 THEN @ - n ELSE @]
    BY <1>7 DEF Body
  <2>3. /\ mem' = mem /\ len' = len /\ (overtaken' <=> overtaken) /\ at' = at + n
        /\ meta' = [meta EXCEPT !.send = meta.send, !.next = IF meta.interval > 0 THEN @ - n ELSE @]
    BY <1>a, <2>1, <2>2, NotParsed DEF StreamOgg
  <2>4. /\ at \in Nat /\ n \in Nat /\ (meta.interval > 0 => meta.left = 0)
        /\ \A i \in (at + 1) .. (at + n) : i \in DOMAIN Units /\ InBody(Units[i].k)
    BY <1>a, <2>1, BodyNext
  <2>5. meta'.send = meta.send /\ meta'.left = meta.left /\ meta'.interval = meta.interval
    <3>1. meta \in Counters(meta.send)
      BY <1>a DEF Metas
    <3> QED BY <2>3, <3>1 DEF Counters
  <2>6. Live /\ turn > 0
    BY <1>a, <2>1 DEF Live, Streaming
  <2>7. ASSUME NEW j \in (at + 1) .. at' PROVE ~IcyBlock(Units, j)
    <3>1. j \in DOMAIN Units /\ InBody(Units[j].k)
      BY <2>3, <2>4
    <3> QED BY <1>a, <2>6, <3>1, DeliversSome, BlockEndsM DEF Units, InBody
  <2>8. Header' = Header /\ InBlock' /\ state' \notin Quiet /\ at <= at'
    <3>1. Header' = Header /\ state' \notin Quiet
      BY <2>1, <2>3 DEF Header, Quiet
    <3>2. at <= at'
      BY <2>3, <2>4
    <3>3. InBlock'
      <4>1. meta'.interval > 0 => ~(meta'.left > 0)
        BY <2>4, <2>5
      <4> QED BY <4>1 DEF InBlock, AtMeta
    <3> QED BY <3>1, <3>2, <3>3
  <2> QED BY <1>a, <2>1, <2>3, <2>5, <2>6, <2>7, <2>8, PiecesGrow
<1> QED BY <1>1, <1>2, <1>3, <1>4, <1>5, <1>6, <1>7 DEF StreamThread

LEMMA ArraysInit == Init => Arrays /\ EndCount
<1> SUFFICES ASSUME Init PROVE Arrays /\ EndCount
  OBVIOUS
<1>1. mem = [i \in 1 .. MaxHeader |-> 0] /\ len = 0 /\ endtok = 0
  BY DEF Init
<1>2. DOMAIN mem = 1 .. MaxHeader /\ mem = [i \in 1 .. MaxHeader |-> mem[i]]
  BY <1>1
<1>3. Array(mem)
  BY <1>2, ArrayNew
<1>4. 0 \in 0 .. (MaxHeader - 1) /\ 0 \in 0 .. HeaderEnd
  BY HttpAssumption DEF HeaderEnd
<1> QED BY <1>1, <1>3, <1>4 DEF Arrays, EndCount

LEMMA PiecesInit == Init => Pieces
<1> SUFFICES ASSUME Init PROVE Pieces
  OBVIOUS
<1>1. turn = 0 /\ at = 0 /\ sent = <<>> /\ ~meta.send /\ ~Live /\ ~Streaming
  BY DEF Init, NoMeta, Live, Streaming
<1>2. Range(sent) = {}
  <2>1. DOMAIN sent = {}
    BY <1>1
  <2> QED BY <2>1 DEF Range
<1>3. 1 .. at = {}
  BY <1>1
<1> QED BY <1>1, <1>2, <1>3 DEF Pieces, InBlock

LEMMA PiecesStep == Untagged /\ Inv /\ Inv' /\ Responses /\ Arrays /\ Arrays' /\ Pieces /\ [Next]_vars => Pieces'
<1> SUFFICES ASSUME Untagged, Inv, Inv', Responses, Arrays, Arrays', Pieces, [Next]_vars PROVE Pieces'
  OBVIOUS
<1>1. CASE StreamThread
  BY <1>1, PiecesThread
<1>2. CASE Controller \/ Consume
  BY <1>2, PiecesController
<1>3. CASE UNCHANGED vars
  <2>1. UNCHANGED <<wires, turn, at, sent, overtaken, meta, mem, len, state>>
    BY <1>3 DEF vars, netVars, connVars, headVars, histVars
  <2>2. Conn /\ at \in Nat /\ InBlock
    BY DEF Inv, Conn, ConnTyped, Pieces
  <2>3. Header' = Header /\ InBlock' /\ (Live' <=> Live)
    BY <2>1, <2>2 DEF Header, InBlock, Streaming, AtMeta, Live
  <2>4. \A j \in (at + 1) .. at' : FALSE
    BY <2>1, <2>2
  <2>5. at' \in Int /\ at <= at' /\ ~(at' > at)
    BY <2>1, <2>2
  <2> QED BY <2>1, <2>2, <2>3, <2>4, <2>5, PiecesGrow
<1> QED BY <1>1, <1>2, <1>3 DEF Next

\* The run of newline characters is never longer than the end of a header.
LEMMA EndCountStep == Conn /\ Heads /\ EndCount /\ [Next]_vars => EndCount'
<1> SUFFICES ASSUME Conn, Heads, EndCount, [Next]_vars PROVE EndCount'
  OBVIOUS
<1>1. CASE endtok' = endtok
  BY <1>1 DEF EndCount
<1>2. CASE RecvHeader
  <2>1. /\ state = "RECV_HEADERS"
        /\ endtok' = 0 \/ endtok' = IF len > 0 /\ Units[at'].k = "n" THEN endtok + 1 ELSE 0
    BY <1>2 DEF RecvHeader
  <2>2. CASE len > 0
    <3>1. endtok \in 0 .. 3
      BY <2>1, <2>2 DEF Conn, Heads, Run
    <3> QED BY <2>1, <3>1 DEF EndCount, HeaderEnd
  <2>3. CASE ~(len > 0)
    BY <2>1, <2>3 DEF EndCount, HeaderEnd
  <2> QED BY <2>2, <2>3
<1>3. CASE Controller \/ Consume
  <2>1. endtok' = endtok
    BY <1>3 DEF Controller, StreamSock, StreamFile, StartConnection, Unreachable, Quit, Report, Cont, Consume, headVars
  <2> QED BY <1>1, <2>1
<1>4. CASE UNCHANGED vars
  BY <1>1, <1>4 DEF vars, headVars
<1>5. CASE StreamThread /\ ~RecvHeader
  <2>1. endtok' = endtok
    BY <1>5 DEF StreamThread, Poll, ReadFile, ClosedInPoll, SendHeaders, HeaderClosed, IcyLength, IcyMeta,
                IcyClosed, Body, BodyClosed, StaleBody, headVars
  <2> QED BY <1>1, <2>1
<1> QED BY <1>2, <1>3, <1>4, <1>5 DEF Next

\* stream.header is of another connection only when one is made.
LEMMA UntaggedBefore == Conn /\ [Next]_vars /\ ~(StreamSock \/ StreamFile) /\ Untagged' => Untagged
<1> SUFFICES ASSUME Conn, [Next]_vars, ~(StreamSock \/ StreamFile), Untagged' PROVE Untagged
  OBVIOUS
<1>1. CASE UNCHANGED <<wires, turn>>
  BY <1>1, SameSource DEF Untagged
<1>2. CASE Unreachable
  <2>1. /\ wires' = wires /\ turn' = turn + 1 /\ turn \in Nat
        /\ wires[turn + 1].asked # "file" /\ Connects(wires[turn + 1]) = "unreachable"
    BY <1>2 DEF Unreachable, StartConnection, Conn, ConnTyped
  <2> QED BY <2>1, SourceOld DEF Untagged
<1>3. CASE StreamThread
  <2>1. UNCHANGED <<wires, turn>>
    BY <1>3 DEF StreamThread, Poll, ReadFile, ClosedInPoll, SendHeaders, RecvHeader, HeaderClosed, IcyLength, IcyMeta,
                IcyClosed, Body, BodyClosed, StaleBody, netVars
  <2> QED BY <1>1, <2>1
<1>4. CASE Quit \/ Report \/ Cont \/ Consume
  BY <1>1, <1>4 DEF Quit, Report, Cont, Consume, netVars
<1>5. CASE UNCHANGED vars
  BY <1>1, <1>5 DEF vars, netVars
<1> QED BY <1>2, <1>3, <1>4, <1>5 DEF Next, Controller

\* The invariant of the theorems below.
Pieced == Inv /\ Requests /\ Responses /\ EndCount /\ (Untagged => Arrays /\ Pieces)

LEMMA PiecedInit == Init => Pieced
<1>1. Init => Requests
  BY DEF Init, Requests
<1> QED BY <1>1, InvInit, RespInit, ArraysInit, PiecesInit DEF Pieced

LEMMA PiecedStep == Pieced /\ [Next]_vars => Pieced'
<1> SUFFICES ASSUME Pieced, [Next]_vars PROVE Pieced'
  OBVIOUS
<1>1. Inv /\ Conn /\ Heads /\ Requests /\ Responses /\ EndCount
  BY DEF Pieced, Inv
<1>2. Inv'
  BY <1>1, InvStep
<1>3. Requests'
  BY <1>1, RequestsStep
<1>4. Responses'
  BY <1>1, <1>2, RespStep
<1>5. EndCount'
  BY <1>1, EndCountStep
<1>6. ASSUME Untagged' PROVE Arrays' /\ Pieces'
  <2>1. CASE StreamSock \/ StreamFile
    BY <1>1, <2>1, ArraysNew, PiecesNew
  <2>2. CASE ~(StreamSock \/ StreamFile)
    <3>1. Untagged
      BY <1>1, <1>6, <2>2, UntaggedBefore
    <3>2. Arrays /\ Pieces
      BY <3>1 DEF Pieced
    <3>3. Arrays'
      BY <1>1, <3>1, <3>2, ArraysStep
    <3> QED BY <1>1, <1>2, <3>1, <3>2, <3>3, PiecesStep
  <2> QED BY <2>1, <2>2
<1> QED BY <1>2, <1>3, <1>4, <1>5, <1>6 DEF Pieced

LEMMA TypesOf == Inv /\ Arrays /\ EndCount => TypeOK
<1> SUFFICES ASSUME Inv, Arrays, EndCount PROVE TypeOK
  OBVIOUS
<1>1. wires \in Wires /\ turn \in 0 .. Len(wires) /\ tls \in 0 .. turn /\ (Live => fd)
  BY DEF Inv, Conn, ConnTyped
<1>2. Len(body) - taken \in 0 .. SCap
  <2>1. Len(body) \in Nat /\ taken \in Nat /\ taken <= Len(body) /\ Len(body) - taken <= SCap /\ SCap \in Nat
    BY HttpAssumption DEF Inv, Buffers
  <2> QED BY <2>1
<1>3. meta.next \in 0 .. meta.interval /\ meta.left \in 0 .. (MaxHeader - 1)
  <2>1. meta \in Counters(meta.send) /\ meta.next <= meta.interval
    BY DEF Inv, Metas
  <2>2. meta.next \in Nat /\ meta.interval \in Nat /\ meta.left \in 0 .. (MaxHeader - 1)
    BY <2>1 DEF Counters
  <2> QED BY <2>1, <2>2
<1>4. len \in 0 .. (MaxHeader - 1) /\ endtok \in 0 .. HeaderEnd
  BY DEF Arrays, EndCount
<1> QED BY <1>1, <1>2, <1>3, <1>4 DEF TypeOK

LEMMA ReportedOf == Untagged /\ Inv /\ Pieces => MetadataReported
<1> SUFFICES ASSUME Untagged, Inv, Pieces PROVE MetadataReported
  OBVIOUS
<1>1. ASSUME NEW j \in 1 .. at PROVE Wire.ogg = "off"
  <2>1. at > 0
    BY <1>1 DEF Inv, Conn, ConnTyped
  <2> QED BY <2>1 DEF Pieces, Untagged, Wire
<1>2. ASSUME NEW j \in 1 .. at, IcyBlock(Units, j)
      PROVE  \/ \E i \in DOMAIN sent : sent[i] = Message("META", IcyUnits(Units, j))
             \/ meta.send /\ Header = IcyUnits(Units, j)
             \/ overtaken
  <2>1. MetaDue(j)
    BY <1>2 DEF Pieces
  <2> QED BY <2>1 DEF MetaDue, Range
<1> QED BY <1>1, <1>2 DEF MetadataReported, EndsComments

\* The stream buffer holds the body in order, no buffer overflows, and every piece of metadata that
\* came in is reported whole or is about to be, for every response without the comments of Ogg,
\* whatever came before it, every interval and every way the reads were cut: a length or a piece of
\* metadata that comes in parts is put together, and none is taken for sound.
THEOREM FramingHolds == Spec => [](Untagged => FramingIsTrue)
<1>1. Pieced => (Untagged => FramingIsTrue)
  <2>1. Inv => BodyInOrder
    BY DEF Inv, Buffers, InOrder, BodyInOrder
  <2> QED BY <2>1, TypesOf, ReportedOf DEF Pieced, FramingIsTrue
<1> QED BY <1>1, PiecedInit, PiecedStep, PTL DEF Spec

\* stream.header holds the request, the response and the metadata in turn, and what the server gets
\* of each is whole: for every response without the comments of Ogg, whatever came before it, a META
\* is one piece of metadata, never parts of two, unless the next one had come in before it was copied.
THEOREM WholeHolds == Spec => [](Untagged => HeaderIsWhole)
<1>1. Pieced => (Untagged => MetaWhole)
  <2> SUFFICES ASSUME Pieced, Untagged, NEW i \in DOMAIN sent, sent[i].m = "META"
               PROVE  overtaken \/ sent[i].what \in Whole
    BY DEF MetaWhole
  <2>1. sent[i] \in Range(sent)
    BY DEF Range
  <2> QED BY <2>1 DEF Pieced, Pieces
<1>2. RequestIsWhole /\ RespIsHeaders /\ (Untagged => MetaWhole) => (Untagged => HeaderIsWhole)
  BY DEF HeaderIsWhole
<1> QED BY <1>1, <1>2, PiecedInit, PiecedStep, RequestHolds, RespHolds, PTL DEF Spec
====
