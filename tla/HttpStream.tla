---- MODULE HttpStream ----
(***************************************************************************)
(* The stream thread of squeezelite (stream.c): connecting with and        *)
(* without TLS, request and response headers, ICY metadata between the     *)
(* body's pieces, the search for tags in Ogg pages, and the sections of    *)
(* the controller (slimproto.c) that read the same state.                  *)
(*                                                                         *)
(* A connection is a record: the peer's units (characters of a header,     *)
(* pieces of sound, metadata, parts of Ogg pages), how many of them arrive *)
(* before it ends, and how it was asked for.  A unit is known by its index.*)
(* Each section under streambuf->mutex is one action; poll(), which is     *)
(* called without it, is another.                                          *)
(***************************************************************************)
EXTENDS Integers, Sequences, FiniteSetsExt, SequencesExt

CONSTANTS
    Wires,      \* sequences of connections the server may ask for
    SCap,       \* units in the stream buffer
    MaxHeader,  \* MAX_HEADER
    Threshold   \* stream.threshold

\* The header ends with the first four newline characters in a row, its first character aside.
\* Of the rest, pieces of sound, and parts of Ogg pages, go into the buffer.
EndsHeader(units, e) == e >= 5 /\ \A j \in (e - 3)..e : units[j].k = "n"
InHeader(units, i) == \A e \in 1..(i - 1) : ~EndsHeader(units, e)
InBody(k) == k \notin {"c", "n", "l", "m"}

\* After p comes as much of the body as the interval says, then a length.
Sounds(wire, p) ==
    /\ \A i \in (p + 1)..(p + wire.metaint) : i \in DOMAIN wire.units => InBody(wire.units[i].k)
    /\ p + wire.metaint + 1 \in DOMAIN wire.units => wire.units[p + wire.metaint + 1].k = "l"

\* A response, with pieces of metadata if their interval is told; there is room for each of them.
IsResponse(wire) ==
    /\ \A i \in DOMAIN wire.units : wire.units[i].k \in {"c", "n"} <=> InHeader(wire.units, i)
    /\ wire.metaint = 0 => \A i \in DOMAIN wire.units : wire.units[i].k \notin {"l", "m"}
    /\ wire.metaint > 0 =>
        /\ wire.wait
        /\ \A e \in DOMAIN wire.units : EndsHeader(wire.units, e) /\ InHeader(wire.units, e) => Sounds(wire, e)
        /\ \A l \in DOMAIN wire.units : wire.units[l].k = "l" =>
               LET left == wire.units[l].left
               IN  /\ left \in 0..(MaxHeader - 1)
                   /\ \A i \in (l + 1)..(l + left) : i \in DOMAIN wire.units => wire.units[i].k = "m"
                   /\ Sounds(wire, l + left)

IsWire(wire) ==
    /\ wire.asked \in {"plain", "tls", "443", "file"} /\ wire.peer \in {"plain", "tls", "down"}
    /\ wire.how \in {"close", "reset"} /\ wire.wait \in BOOLEAN /\ wire.metaint \in Nat
    /\ wire.ogg \in {"off", "native", "lib"}
    /\ wire.units \in Seq(Range(wire.units)) /\ wire.cut \in 0..Len(wire.units)
    /\ IF wire.asked = "file"
       THEN wire.peer # "tls" /\ \A i \in DOMAIN wire.units : InBody(wire.units[i].k)
       ELSE IsResponse(wire)

ASSUME HttpAssumption ==
    /\ SCap \in Nat \ {0} /\ MaxHeader \in Nat /\ MaxHeader >= 3 /\ Threshold \in Nat
    /\ \A ws \in Wires : ws \in Seq(Range(ws)) /\ \A t \in DOMAIN ws : IsWire(ws[t])

VARIABLES
    wires, turn,        \* the connections, and which one is open
    state, cause,       \* stream.state and stream.disconnect
    fd, tls,            \* fd >= 0, and the turn ssl is of, 0 for NULL
    at,                 \* units received over this connection
    polled,             \* what poll() said, and of which connection
    mem, len, mlen,     \* stream.header, stream.header_len, header_mlen
    endtok,             \* of the end of the header; static
    meta,               \* stream.meta_interval, _next, _left, _send
    sentHeaders,        \* stream.sent_headers
    body, taken,        \* what was written to streambuf, and how much of it was read
    ogg,                \* the state of the Ogg parser
    sent, heard,        \* messages to the server, and requests the peer heard
    stale, overtaken    \* a section ran for a poll of another connection; metadata was
                        \* written over before the controller had copied it

netVars == <<wires, turn, at>>
connVars == <<state, cause, fd, tls>>
headVars == <<mem, len, mlen, endtok>>
bodyVars == <<body, taken, ogg>>
histVars == <<stale, overtaken>>
vars == <<netVars, connVars, polled, headVars, meta, sentHeaders, bodyVars, sent, heard, histVars>>

Wire == wires[IF turn = 0 THEN 1 ELSE turn]
Units == Wire.units
Request == <<-1, -2>>           \* what strm s asks to send
OggMark == -3                   \* "Ogg", LMS's mark of such metadata
\* Without TLS where the peer wants it, or through the ssl of another socket, nothing gets through.
Fits == Wire.asked = "file" \/ tls = turn \/ (tls = 0 /\ Wire.peer # "tls")
Delivers == IF Fits THEN Wire.cut ELSE 0
Gone == at = Delivers           \* the peer closed, or reset, after all it sends

Least(a, b) == IF a < b THEN a ELSE b
WriteIndex == Len(body) % SCap
\* Faulty variant: what was not read yet is forgotten.
SpaceToWrap == SCap - WriteIndex
Space == Least(SCap - (Len(body) - taken), SCap - WriteIndex)
Live == state \notin {"STOPPED", "DISCONNECT"}
Header == SubSeq(mem, 1, len)

NoOgg(mode) == [mode |-> mode, state |-> "SYNC", miss |-> 0, match |-> 0, astray |-> FALSE,
                page |-> [serial |-> 0, bos |-> FALSE, granule |-> 0], pages |-> <<>>,
                flac |-> FALSE, serial |-> 0, noted |-> {}]
NoMeta == [interval |-> 0, next |-> 0, left |-> 0, send |-> FALSE]
NoPoll == [ready |-> "none", turn |-> 0]

Init ==
    /\ wires \in Wires /\ turn = 0 /\ at = 0
    /\ state = "STOPPED" /\ cause = "OK" /\ fd = FALSE /\ tls = 0
    /\ polled = NoPoll
    /\ mem = [i \in 1..MaxHeader |-> 0] /\ len = 0 /\ mlen = 0 /\ endtok = 0
    /\ meta = NoMeta /\ sentHeaders = FALSE
    /\ body = <<>> /\ taken = 0 /\ ogg = NoOgg("off")
    /\ sent = <<>> /\ heard = {} /\ stale = FALSE /\ overtaken = FALSE

----------------------------------------------------------------------------
(* The controller. *)

\* connect_socket(): whether the peer can be reached that way.
Reaches(wire, secure) == wire.peer = "tls" \/ (wire.peer = "plain" /\ ~secure)

\* stream_sock(): TLS if asked for or by the port; plain if only the port suggested TLS.
Secure(wire) == wire.asked \in {"tls", "443"}
Connects(wire) ==
    CASE Reaches(wire, Secure(wire)) -> "first"
      [] wire.asked = "443" /\ Reaches(wire, FALSE) -> "second"
      [] OTHER -> "unreachable"

\* What it leaves in ssl: a handshake that fails clears it, a plain socket keeps what was there.
SslAfter(wire) ==
    IF ~Secure(wire) \/ wire.peer = "down" THEN tls ELSE IF wire.peer = "tls" THEN turn + 1 ELSE 0

StartConnection ==
    /\ state = "STOPPED" /\ turn < Len(wires) /\ wires[turn + 1].asked # "file"
    /\ turn' = turn + 1 /\ at' = 0 /\ tls' = SslAfter(wires[turn + 1])
    /\ sent' = <<>> /\ heard' = {} /\ stale' = FALSE

StreamSock ==
    /\ StartConnection
    /\ LET wire == wires[turn + 1]
       IN  /\ Connects(wire) # "unreachable"
           /\ state' = "SEND_HEADERS" /\ fd' = TRUE
           /\ mem' = [i \in 1..MaxHeader |-> IF i <= Len(Request) THEN Request[i] ELSE mem[i]]
           /\ len' = Len(Request)
           /\ ogg' = NoOgg(wire.ogg)
    /\ meta' = NoMeta /\ sentHeaders' = FALSE
    /\ body' = <<>> /\ taken' = 0 /\ overtaken' = FALSE
    /\ UNCHANGED <<wires, cause, polled, mlen, endtok>>

\* Nothing but the state and the cause is set: the buffer keeps what was in it, and metadata that
\* waits for the controller is still sent.
Unreachable ==
    /\ StartConnection
    /\ Connects(wires[turn + 1]) = "unreachable"
    /\ state' = "DISCONNECT" /\ cause' = "UNREACHABLE"
    /\ UNCHANGED <<wires, fd, polled, headVars, meta, sentHeaders, bodyVars, overtaken>>

StreamFile ==
    /\ state = "STOPPED" /\ turn < Len(wires) /\ wires[turn + 1].asked = "file"
    /\ turn' = turn + 1 /\ at' = 0
    /\ sent' = <<>> /\ heard' = {} /\ stale' = FALSE /\ overtaken' = FALSE
    /\ fd' = (wires[turn + 1].peer # "down")
    /\ state' = IF fd' THEN "STREAMING_FILE" ELSE "DISCONNECT"
    /\ mem' = [i \in 1..MaxHeader |-> IF i <= Len(Request) THEN Request[i] ELSE mem[i]]
    /\ len' = Len(Request)
    /\ meta' = NoMeta /\ sentHeaders' = FALSE
    /\ body' = <<>> /\ taken' = 0
    /\ UNCHANGED <<wires, cause, tls, polled, mlen, endtok, ogg>>

\* stream_disconnect(), for strm q or the end of decoding.
Quit ==
    /\ state # "STOPPED"
    /\ state' = "STOPPED" /\ fd' = FALSE /\ tls' = 0
    /\ UNCHANGED <<netVars, cause, polled, headVars, meta, sentHeaders, bodyVars, sent, heard, histVars>>

Message(m, what) == [m |-> m, what |-> what]

\* slimproto_run, the section under streambuf->mutex.  RESP and META share one buffer: what META
\* copies is what RESP sends if both are due.
Report ==
    LET dsco == state = "DISCONNECT"
        resp == ~sentHeaders /\ state \in {"STREAMING_HTTP", "STREAMING_WAIT", "STREAMING_BUFFERING"}
    IN  /\ dsco \/ resp \/ meta.send
        /\ state' = IF dsco THEN "STOPPED" ELSE state
        /\ sentHeaders' = (sentHeaders \/ resp)
        /\ meta' = [meta EXCEPT !.send = FALSE]
        /\ sent' = sent \o (IF dsco THEN <<Message("DSCO", <<>>)>> ELSE <<>>)
                        \o (IF resp THEN <<Message("RESP", Header)>> ELSE <<>>)
                        \o (IF meta.send THEN <<Message("META", Header)>> ELSE <<>>)
        /\ UNCHANGED <<netVars, cause, fd, tls, polled, headVars, bodyVars, heard, histVars>>

\* process_cont(): the server has seen the response header and tells the metadata interval.
Cont ==
    /\ Wire.wait /\ state = "STREAMING_WAIT" /\ sentHeaders
    /\ state' = "STREAMING_BUFFERING"
    /\ meta' = [meta EXCEPT !.interval = Wire.metaint, !.next = Wire.metaint]
    /\ UNCHANGED <<netVars, cause, fd, tls, polled, headVars, sentHeaders, bodyVars, sent, heard, histVars>>

\* The decode thread reads from the stream buffer.
Consume ==
    /\ taken < Len(body)
    /\ taken' = taken + 1
    /\ UNCHANGED <<netVars, connVars, polled, headVars, meta, sentHeaders, body, ogg, sent, heard, histVars>>

----------------------------------------------------------------------------
(* stream_ogg().  A page is a capture pattern of two units, a header, its segment table and its  *)
(* content: <<"p1", "p2", "h", "s", "d", ..., "d">>, the content's units naming what is in it.   *)

Noted(r, i) == [r EXCEPT !.mem = [@ EXCEPT ![1] = OggMark, ![2] = i], !.len = 2, !.send = TRUE,
                         !.ogg.flac = FALSE, !.ogg.serial = 0, !.ogg.noted = @ \cup {i}]

\* The comments of a page or packet that ends at unit i.  Of a damaged list libogg's variant sends
\* what it could read; the other leaves its mark in stream.header and says nothing.
Parse(r, i) ==
    LET what == Units[i].what
    IN  CASE what = "tags" \/ (what = "damaged" /\ r.ogg.mode = "lib") -> Noted(r, i)
          [] what = "damaged" -> [r EXCEPT !.mem[1] = OggMark, !.len = 1]
          [] what = "flac" -> [r EXCEPT !.ogg.flac = TRUE]
          [] OTHER -> r

\* Follow the serial number of the first stream that begins, let go of one whose headers are over.
Serial(o, page) ==
    LET own == IF o.serial = 0 /\ page.bos THEN page.serial ELSE o.serial
    IN  IF own = page.serial /\ page.granule > 0 THEN 0 ELSE own

\* One unit through the parser of pages; index is where in the ring it lies.  The header is copied
\* from where its pattern began: before the buffer, if that was at the ring's end.
OggUnit(r, i, index) ==
    LET o == r.ogg
        u == Units[i]
        Goto(s, m) == [r EXCEPT !.ogg.state = s, !.ogg.miss = m]
    IN  CASE o.state = "SYNC" /\ o.miss > 0 -> Goto("SYNC", o.miss - 1)
          [] o.state = "SYNC" /\ o.match = 0 -> [r EXCEPT !.ogg.match = IF u.k = "p1" THEN 1 ELSE 0]
          [] o.state = "SYNC" /\ o.match = 1 ->
                 IF u.k = "p2"
                 THEN [Goto("HEADER", 0) EXCEPT !.ogg.match = 0, !.ogg.astray = (index = 0)]
                 ELSE [r EXCEPT !.ogg.match = 0]
          [] o.state = "HEADER" ->
                 IF o.astray \/ u.k # "h" THEN Goto("SYNC", 0)
                 ELSE [Goto("SEGMENTS", 0) EXCEPT !.ogg.page = [serial |-> u.serial, bos |-> u.bos, granule |-> u.granule]]
          [] o.state = "SEGMENTS" ->
                 LET own == Serial(o, o.page)
                 IN  [Goto(IF u.size > 0 /\ own = o.page.serial THEN "PAGE" ELSE "SYNC", u.size)
                        EXCEPT !.ogg.serial = IF u.size = 0 THEN o.serial ELSE own]
          [] o.state = "PAGE" /\ o.miss > 1 -> Goto("PAGE", o.miss - 1)
          [] o.state = "PAGE" -> Parse(Goto("SYNC", 0), i)

\* libogg: pages are assembled in its own memory, and handed over until the first comments.
LibUnit(r, i) ==
    LET o == r.ogg
        u == Units[i]
        done == [page |-> o.page, last |-> i]
    IN  CASE u.k = "h" -> [r EXCEPT !.ogg.page = [serial |-> u.serial, bos |-> u.bos, granule |-> u.granule]]
          [] u.k = "s" /\ u.size > 0 -> [r EXCEPT !.ogg.miss = u.size]
          [] u.k = "s" -> [r EXCEPT !.ogg.pages = Append(@, done)]
          [] u.k = "d" /\ o.miss > 1 -> [r EXCEPT !.ogg.miss = @ - 1]
          [] u.k = "d" -> [r EXCEPT !.ogg.miss = 0, !.ogg.pages = Append(@, done)]
          [] OTHER -> r

LibPages(r) ==
    LET Handle(s, page) ==
            LET own == Serial(s.ogg, page.page)
                next == [s EXCEPT !.ogg.serial = own, !.ogg.pages = Tail(@)]
            IN  IF s.ogg.noted # r.ogg.noted THEN s
                ELSE IF own = page.page.serial /\ Units[page.last].k = "d" THEN Parse(next, page.last) ELSE next
    IN  FoldLeft(Handle, r, r.ogg.pages)

\* Faulty variant: a pattern is looked for in each read on its own.
StreamOggAnew(r, n) ==
    FoldLeft(LAMBDA s, i : OggUnit(s, i, (WriteIndex + i - at - 1) % SCap), [r EXCEPT !.ogg.match = 0],
             [j \in 1..n |-> at + j])

OggUnits(r, n) ==
    LET units == [j \in 1..n |-> at + j]
    IN  IF r.ogg.mode = "native"
        THEN FoldLeft(LAMBDA s, i : OggUnit(s, i, (WriteIndex + i - at - 1) % SCap), r, units)
        ELSE LibPages(FoldLeft(LibUnit, r, units))

StreamOgg(r, n) == IF r.ogg.mode = "off" THEN r ELSE OggUnits(r, n)

----------------------------------------------------------------------------
(* The stream thread. *)

Disconnected(s, c) ==
    /\ state' = s /\ cause' = c /\ fd' = FALSE /\ tls' = 0

\* The top of the loop: nothing to do without a socket, without space or outside of a stream.
MayPoll == polled = NoPoll /\ fd /\ Space > 0 /\ Live /\ state # "STREAMING_WAIT"

\* poll() waits without the mutex: what it says is about the connection it was called for.
Poll ==
    /\ MayPoll /\ state # "STREAMING_FILE"
    /\ polled' = [ready |-> IF state = "SEND_HEADERS" THEN "out" ELSE "in", turn |-> turn]
    /\ UNCHANGED <<netVars, connVars, headVars, meta, sentHeaders, bodyVars, sent, heard, histVars>>

\* A file is read with the mutex held from the top of the loop.
ReadFile ==
    /\ MayPoll /\ state = "STREAMING_FILE"
    /\ \/ \E n \in 1..Least(Space, Delivers - at) :
             /\ body' = body \o [j \in 1..n |-> at + j]
             /\ at' = at + n
             /\ UNCHANGED connVars
       \/ /\ Gone
          /\ Disconnected("DISCONNECT", IF Wire.how = "close" THEN "OK" ELSE "REMOTE")
          /\ UNCHANGED <<at, body>>
    /\ UNCHANGED <<wires, turn, polled, headVars, meta, sentHeaders, taken, ogg, sent, heard, histVars>>

\* After poll() the mutex is taken again; the connection may be another one by now.
Polled(ready) ==
    /\ polled.ready = ready /\ fd
    /\ polled' = NoPoll
    /\ stale' = (stale \/ polled.turn # turn)

ClosedInPoll ==
    /\ polled # NoPoll
    /\ ~fd \/ (polled.ready = "out" /\ state # "SEND_HEADERS")
    /\ polled' = NoPoll
    /\ UNCHANGED <<netVars, connVars, headVars, meta, sentHeaders, bodyVars, sent, heard, histVars>>

\* send_header() sends it all or gives up; a failure leaves the socket open.
SendHeaders ==
    /\ Polled("out") /\ state = "SEND_HEADERS"
    /\ \/ /\ tls \in {0, turn} /\ state' = "RECV_HEADERS"
          /\ heard' = heard \cup {Header}
          /\ UNCHANGED cause
       \/ /\ Gone /\ state' = "DISCONNECT" /\ cause' = "LOCAL"
          /\ UNCHANGED heard
    /\ mlen' = len /\ len' = 0
    /\ UNCHANGED <<netVars, fd, tls, mem, endtok, meta, sentHeaders, bodyVars, sent, overtaken>>

\* One byte of the response header; the end is the fourth newline character in a row.
\* Faulty variant: the end of a line is taken for the end.
HeaderEndOfLine == 2
HeaderEnd == 4
RecvHeader ==
    /\ Polled("in") /\ state = "RECV_HEADERS" /\ ~Gone
    /\ at' = at + 1
    /\ IF len >= MaxHeader - 1
       THEN /\ Disconnected("DISCONNECT", "LOCAL")
            /\ endtok' = 0
            /\ UNCHANGED <<mem, len>>
       ELSE LET tok == IF len > 0 /\ Units[at'].k = "n" THEN endtok + 1 ELSE 0
            IN  /\ mem' = [mem EXCEPT ![len + 1] = at'] /\ len' = len + 1
                /\ endtok' = tok
                /\ state' = IF tok # HeaderEnd THEN state
                            ELSE IF Wire.wait THEN "STREAMING_WAIT" ELSE "STREAMING_BUFFERING"
                /\ UNCHANGED <<cause, fd, tls>>
    /\ UNCHANGED <<wires, turn, mlen, meta, sentHeaders, bodyVars, sent, heard, overtaken>>

\* Whether a connection that closed without an answer is tried again with TLS.
\* Faulty variant: also one with TLS.
TriesTlsAgain == len = 0
TriesTls == tls = 0 /\ len = 0

\* Faulty variant: the length of what was received is kept.
RetryLenReceived == len
RetryLen == mlen

\* The socket is closed; the request is still in stream.header, and only its length is set again.
HeaderClosed ==
    /\ Polled("in") /\ state = "RECV_HEADERS" /\ Gone
    /\ IF TriesTls
       THEN /\ len' = RetryLen
            /\ IF Reaches(Wire, TRUE)
               THEN state' = "SEND_HEADERS" /\ tls' = turn /\ UNCHANGED <<cause, fd>>
               ELSE Disconnected("STOPPED", "LOCAL")
       ELSE Disconnected("STOPPED", "LOCAL") /\ UNCHANGED len
    /\ UNCHANGED <<netVars, mem, mlen, endtok, meta, sentHeaders, bodyVars, sent, heard, overtaken>>

----------------------------------------------------------------------------
Streaming == state \in {"STREAMING_BUFFERING", "STREAMING_HTTP"}
AtMeta == meta.interval > 0 /\ meta.next = 0

\* What a recv of n units of metadata leaves, of left still to come.
\* Faulty variant: whatever was read is announced.
MetaReadPart(left, n) ==
    [meta EXCEPT !.left = left - n, !.next = IF left = n THEN meta.interval ELSE 0, !.send = @ \/ len' > 0]
MetaRead(left, n) ==
    [meta EXCEPT !.left = left - n,
                 !.next = IF left = n THEN meta.interval ELSE 0,
                 !.send = @ \/ (left = n /\ len' > 0)]

\* The length of the metadata is read together with whatever has come of it.
IcyLength ==
    /\ Polled("in") /\ Streaming /\ AtMeta /\ meta.left = 0 /\ ~Gone
    /\ LET left == Units[at + 1].left
       IN  \E n \in 0..Least(left, Delivers - at - 1) :
             /\ at' = at + 1 + n
             /\ mem' = [i \in 1..MaxHeader |-> IF i <= n THEN at + 1 + i ELSE mem[i]]
             /\ len' = n
             /\ meta' = MetaRead(left, n)
    /\ overtaken' = (overtaken \/ meta.send)
    /\ UNCHANGED <<wires, turn, connVars, mlen, endtok, sentHeaders, bodyVars, sent, heard>>

IcyMeta ==
    /\ Polled("in") /\ Streaming /\ AtMeta /\ meta.left > 0 /\ ~Gone
    /\ \E n \in 1..Least(meta.left, Delivers - at) :
         /\ at' = at + n
         /\ mem' = [i \in 1..MaxHeader |-> IF i \in (len + 1)..(len + n) THEN at + i - len ELSE mem[i]]
         /\ len' = len + n
         /\ meta' = MetaRead(meta.left, n)
    /\ UNCHANGED <<wires, turn, connVars, mlen, endtok, sentHeaders, bodyVars, sent, heard, overtaken>>

IcyClosed ==
    /\ Polled("in") /\ Streaming /\ AtMeta /\ Gone
    /\ Disconnected("STOPPED", "LOCAL")
    /\ UNCHANGED <<netVars, headVars, meta, sentHeaders, bodyVars, sent, heard, overtaken>>

\* How much of the body one recv may take.
\* Faulty variant: metadata may begin in the middle of a read.
BodySpacePast == Space
BodySpace == IF meta.interval > 0 THEN Least(Space, meta.next) ELSE Space

Body ==
    /\ Polled("in") /\ Streaming /\ ~AtMeta
    /\ \E n \in 1..Least(BodySpace, Delivers - at) :
         LET r == StreamOgg([ogg |-> ogg, mem |-> mem, len |-> len, send |-> meta.send], n)
         IN  /\ ogg' = r.ogg /\ mem' = r.mem /\ len' = r.len
             /\ overtaken' = (overtaken \/ (meta.send /\ <<r.mem, r.len>> # <<mem, len>>))
             /\ body' = body \o [j \in 1..n |-> at + j]
             /\ at' = at + n
             /\ meta' = [meta EXCEPT !.send = r.send,
                                     !.next = IF meta.interval > 0 THEN @ - n ELSE @]
    /\ state' = IF state = "STREAMING_BUFFERING" /\ Len(body') > Threshold THEN "STREAMING_HTTP" ELSE state
    /\ UNCHANGED <<wires, turn, cause, fd, tls, mlen, endtok, sentHeaders, taken, sent, heard>>

\* Faulty variant: a reset is taken for the end.
EndCauseOk == "OK"
EndCause == IF Wire.how = "close" THEN "OK" ELSE "REMOTE"
BodyClosed ==
    /\ Polled("in") /\ Streaming /\ ~AtMeta /\ Gone
    /\ Disconnected("DISCONNECT", EndCause)
    /\ UNCHANGED <<netVars, headVars, meta, sentHeaders, bodyVars, sent, heard, overtaken>>

\* A result of poll() for the last connection lets the body of one be read that is not there yet:
\* nothing comes, unless it was closed at once or is a file, of which recv() is an error.
StaleBody ==
    /\ Polled("in") /\ state \in {"SEND_HEADERS", "STREAMING_FILE"}
    /\ IF state = "STREAMING_FILE" THEN Disconnected("DISCONNECT", "REMOTE")
       ELSE IF Gone THEN Disconnected("DISCONNECT", EndCause)
       ELSE UNCHANGED connVars
    /\ UNCHANGED <<netVars, headVars, meta, sentHeaders, bodyVars, sent, heard, overtaken>>

StreamThread ==
    \/ Poll \/ ReadFile \/ ClosedInPoll \/ SendHeaders \/ RecvHeader \/ HeaderClosed
    \/ IcyLength \/ IcyMeta \/ IcyClosed \/ Body \/ BodyClosed \/ StaleBody
Controller == StreamSock \/ Unreachable \/ StreamFile \/ Quit \/ Report \/ Cont
Next == StreamThread \/ Controller \/ Consume

(* The thread goes on as long as it may, the controller polls every 100 ms, the server answers *)
(* a response header, and the decoder empties the buffer.                                      *)
Fairness == WF_vars(StreamThread) /\ WF_vars(Report) /\ WF_vars(Cont) /\ WF_vars(Consume)

Spec == Init /\ [][Next]_vars
FairSpec == Spec /\ Fairness

----------------------------------------------------------------------------
HeadLen == Max({0} \cup {i \in DOMAIN Units : Units[i].k \in {"c", "n"}})
Upto(n) == [i \in 1..n |-> i]

\* Type invariant: neither buffer overflows, a stream that is on has a socket, and metadata is
\* counted down to where it begins.
TypeOK ==
    /\ wires \in Wires /\ turn \in 0..Len(wires)
    /\ Len(body) - taken \in 0..SCap
    /\ len \in 0..(MaxHeader - 1) /\ endtok \in 0..HeaderEnd
    /\ meta.next \in 0..meta.interval /\ meta.left \in 0..(MaxHeader - 1)
    /\ Live => fd
    /\ tls \in 0..turn

\* The stream buffer holds the body of the response as it was sent: no character of a header and
\* no metadata gets into it, and nothing of the body is left out, wherever the reads were cut.
BodyInOrder ==
    at > 0 =>
        /\ \A i, j \in DOMAIN body : i < j => body[i] < body[j]
        /\ Range(body) = {i \in 1..at : InBody(Units[i].k)}

\* Whatever is sent to a peer is the whole request of strm s, also when the connection is tried
\* again with TLS after one that closed without an answer.
RequestIsWhole == heard \subseteq {Request}

\* RESP is the response header up to its empty line, and nothing that was received later, unless
\* Ogg tags come in before the controller when the server did not ask to be waited for.
RespIsHeaders ==
    \A i \in DOMAIN sent : sent[i].m = "RESP" /\ (Wire.wait \/ Wire.ogg = "off") =>
        sent[i].what = Upto(HeadLen)

\* The units of a piece of metadata that ends at i, and the comments of a page.
IcyBlock(units, i) ==
    \E l \in 1..i : units[l].k = "l" /\ units[l].left = i - l /\ l < i
IcyUnits(units, i) == LET l == Max({j \in 1..i : units[j].k = "l"}) IN [k \in 1..(i - l) |-> l + k]
EndsPage(units, i, what) == units[i].k = "d" /\ units[i].last /\ units[i].what \in what
\* stream.header was filled by the last connection that was made: by what came over it.
Source == Max({1} \cup {t \in 1..turn : wires[t].asked = "file" \/ Connects(wires[t]) # "unreachable"})
Whole ==
    LET units == wires[Source].units
        came == 1..IF Source = turn THEN at ELSE wires[Source].cut
    IN  {IcyUnits(units, i) : i \in {j \in came : IcyBlock(units, j)}}
        \cup {<<OggMark, i>> : i \in {j \in came : EndsPage(units, j, {"tags", "damaged"})}}

\* META is one whole piece of metadata, never a part of one or two of them mixed, unless the next
\* one came in before the controller had copied it.  It may be of the connection before one that
\* could not be made.
MetaWhole ==
    \A i \in DOMAIN sent : sent[i].m = "META" => overtaken \/ sent[i].what \in Whole

\* The page whose header is unit h begins with a capture pattern across the end of the ring: the
\* parser of pages reads on before the buffer, finds no header and misses this page.
Straddled(h) == Wire.ogg = "native" /\ \E k \in DOMAIN body : body[k] = h - 1 /\ k % SCap = 1

\* The pages before unit e that the parser sees, by their headers, and the one unit i is in.
Seen(e) == {h \in 1..(e - 1) : Units[h].k = "h" /\ ~Straddled(h)}
PageOf(i) == Max({h \in 1..i : Units[h].k = "h"})
Comments == IF Wire.ogg = "lib" THEN {"tags", "damaged"} ELSE {"tags"}

\* The stream that begins with page g is over before page h: its comments or its sound have come.
Over(g, h) ==
    \E f \in Seen(h) :
        /\ f > g /\ Units[f].serial = Units[g].serial
        /\ \/ Units[f].granule > 0 /\ (Units[f + 1].size > 0 \/ Wire.ogg = "lib")
           \/ \E i \in f..(h - 1) : PageOf(i) = f /\ EndsPage(Units, i, Comments)

\* Unit j ends the comments of a stream that begins when none is followed.
EndsComments(j) ==
    /\ Wire.ogg # "off" /\ EndsPage(Units, j, Comments)
    /\ ~Straddled(PageOf(j))
    /\ \E h \in Seen(PageOf(j)) :
           /\ Units[h].bos /\ Units[h].serial = Units[j].serial /\ ~Over(h, PageOf(j))
           /\ \A g \in Seen(h) : Units[g].bos => Over(g, h)

\* Whatever the reads and the pages, the metadata of a piece of sound, or the comments of a stream
\* in a chain, reach the server, or are about to: what the controller did not copy in time is
\* lost, and libogg's variant keeps pages until more data arrives.  A page that is missed costs no
\* more than its own comments, those of the stream that begins with it, and, if only that page
\* ended the stream before, those of the next.
MetadataReported ==
    LET due == {j \in 1..at : IcyBlock(Units, j) \/ EndsComments(j)}
        what(j) == IF IcyBlock(Units, j) THEN IcyUnits(Units, j) ELSE <<OggMark, j>>
    IN  \A j \in due :
            \/ \E i \in DOMAIN sent : sent[i] = Message("META", what(j))
            \/ meta.send /\ Header = what(j)
            \/ overtaken
            \/ \E i \in DOMAIN ogg.pages : ogg.pages[i].last = j

\* DSCO's cause tells how the connection ended: OK only after the whole of a body that was closed
\* by a peer that had answered, a reset only of a connection that was reset.  stream_file sets no
\* cause for a file it cannot open, and a stale poll() may take one connection for another.
NotFound == Wire.asked = "file" /\ Wire.peer = "down"
CauseIsTrue ==
    state = "DISCONNECT" /\ ~stale /\ ~NotFound =>
        /\ cause = "OK" => at = Wire.cut /\ Wire.how = "close" /\ (Wire.asked = "file" \/ at >= HeadLen)
        /\ cause = "REMOTE" => at = Wire.cut /\ Wire.how = "reset"
        /\ cause = "UNREACHABLE" => heard = {}

\* Every connection comes to an end, however it closes, whatever it was asked for and whatever
\* came over it, and the controller knows.
Finishes == (state # "STOPPED") ~> (state = "STOPPED")

\* The framing does not depend on how reads are cut: the body, without what lies in it, goes into
\* streambuf, and the metadata in it to the server.
FramingIsTrue == TypeOK /\ BodyInOrder /\ MetadataReported

\* stream.header holds the request, the response and each piece of metadata in turn, and each is
\* whole when it is sent.
HeaderIsWhole == RequestIsWhole /\ RespIsHeaders /\ MetaWhole
====
