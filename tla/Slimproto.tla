---- MODULE Slimproto ----
(***************************************************************************)
(* The connection to the server (slimproto.c): discovery, connecting and   *)
(* the HELO, packets read in pieces and dispatched, reports sent by the    *)
(* passes of the controller, silence, the switch to another server and the *)
(* way back, the player's name, stopping and starting again.               *)
(*                                                                         *)
(* A packet is a length of two units and a body of len units.  What strm,  *)
(* cont, codc, aude and audg do to the player is in the modules Player,    *)
(* OutputFrames and CoreAudio; here they are packets that are handled.     *)
(***************************************************************************)
EXTENDS Naturals, Sequences, FiniteSetsExt, SequencesExt

CONSTANTS
    Servers, None,
    Homes,          \* the servers option -s may name, or None for no option
    Caps,           \* the capabilities a switch may carry
    Packets,        \* what a server may send
    MaxBuf,         \* MAXBUF
    MinLen,         \* the least length of a packet
    Patience,       \* seconds of silence before a connection is dead
    Retries,        \* failed connections before the server is looked for again
    NameLen,        \* PLAYER_NAME_LEN; a name is known by its length
    MaxPackets, MaxEvents, MaxFaults, MaxAll    \* what a behaviour contains

Packet == [op : STRING, len : Nat, to : Servers \cup {None}, cap : Caps \cup {None}, name : Nat]

SlimprotoAssumption ==
    /\ Homes \subseteq Servers \cup {None} /\ None \notin Servers
    /\ Packets \subseteq Packet
    /\ MinLen \in Nat \ {0} /\ MaxBuf \in Nat \ {0, 1}
    /\ Patience \in Nat /\ Retries \in Nat /\ NameLen \in Nat \ {0}
    /\ {MaxPackets, MaxEvents, MaxFaults, MaxAll} \subseteq Nat
ASSUME SlimprotoAssumption

VARIABLES
    home,           \* the server of option -s
    pc,             \* "discover", "connect", "wait", "loop" or "off"
    running, up,    \* and the servers that can be reached
    server,         \* slimproto_ip, the address connected to
    newServer, newCap,      \* new_server, new_server_cap
    reconnect, failed,      \* locals of slimproto()
    link,           \* the connection: to whom, whether alive or closed, and its HELO
    script, read,   \* packets the server sent on it, each with the units before it, and units received
    buffer, got, expect, handled, timeouts,     \* locals of slimproto_run(), and packets handled
    wake,           \* wake_e
    flags,          \* what other threads leave for a pass to report: stream.state, stream.sent_headers,
                    \* stream.meta_send, decode.state and output.track_started
    say,            \* _sendDSCO ... _sendMETA, _stream_disconnect ("close") and status.stream_state ("open")
    account,        \* of each kind of report: the last event, the last one a pass took and the last told
    name, file,     \* player_name and the file of option -N
    events, packets, faults,    \* how many there were
    history         \* what the properties compare with

netVars == <<home, up, script, packets, faults>>
connVars == <<server, newServer, newCap, reconnect, failed>>
readVars == <<read, buffer, got, expect, handled, timeouts>>
repVars == <<wake, flags, say, account, events>>
nameVars == <<name, file>>
vars == <<pc, running, netVars, connVars, link, readVars, repVars, nameVars, history>>

NoLink == [peer |-> None, alive |-> FALSE, closed |-> FALSE,
           helo |-> [reconnect |-> FALSE, cap |-> None]]
\* The last server connected to and the one before (None before the first connection); what the
\* last serv asked for, and what one asked for that came before this connection; whether a name
\* could not be written to the file.
NoSwitch == [asked |-> FALSE, to |-> None, cap |-> None]
NoHistory == [here |-> None, prior |-> None, serv |-> NoSwitch, served |-> NoSwitch, unsaved |-> FALSE]

\* What a pass tells that other threads began, in the order it sends it.  What it finds itself (STMt,
\* STMl, STMu, STMo) is in Player, what RESP and META carry in HttpStream.
Order == <<"DSCO", "STMs", "STMd", "STMn", "RESP", "META">>
Kinds == {"DSCO", "STMs", "STMd", "STMn", "RESP", "META"}
NoFlags == [stream |-> "stopped", sent_headers |-> FALSE, meta_send |-> FALSE, decode |-> "stopped",
            track_started |-> FALSE]
Nothing == [raised |-> 0, taken |-> 0, told |-> 0]

NoBytes == [i \in 1..MaxBuf |-> <<0, 0>>]

Init ==
    /\ home \in Homes /\ up \in SUBSET Servers
    /\ events = 0 /\ packets = 0 /\ faults = 0
    /\ running = TRUE
    /\ pc = IF home = None THEN "discover" ELSE "connect"
    /\ server = home
    /\ newServer = None /\ newCap = None /\ reconnect = FALSE /\ failed = 0
    /\ link = NoLink /\ script = <<>> /\ read = 0
    /\ buffer = NoBytes /\ got = 0 /\ expect = 0 /\ handled = <<>> /\ timeouts = 0
    /\ wake = FALSE /\ flags = NoFlags /\ say = {} /\ account = [k \in Kinds |-> Nothing]
    /\ name = 0 /\ file = 0 /\ history = NoHistory

----------------------------------------------------------------------------
(* The server's side and the threads of the player. *)

\* A unit of the connection is <<packet, index>>; the units 1 and 2 of a packet are its length.
LenOf(p) == script[p].packet.len
Ends(p) == script[p].at + 2 + LenOf(p)
Sent == IF script = <<>> THEN 0 ELSE Ends(Len(script))
UnitAt(k) == LET p == CHOOSE q \in DOMAIN script : script[q].at < k /\ k <= Ends(q)
             IN  <<p, k - script[p].at>>
Arrived == Sent - read
MayHappen == packets + events + faults < MaxAll

Send ==
    /\ MayHappen /\ packets < MaxPackets /\ link.alive /\ ~link.closed
    /\ \E p \in Packets : script' = Append(script, [at |-> Sent, packet |-> p])
    /\ packets' = packets + 1
    /\ UNCHANGED <<pc, running, home, up, faults, connVars, link, readVars, repVars, nameVars, history>>

\* A server closes the connection, or is no longer heard of; another one can be reached or not.
Fault ==
    /\ MayHappen /\ faults < MaxFaults /\ faults' = faults + 1
    /\ \/ /\ link.alive /\ link' = [link EXCEPT !.closed = TRUE] /\ UNCHANGED up
       \/ /\ \E s \in Servers : up' = IF s \in up THEN up \ {s} ELSE up \cup {s}
          /\ link' = [link EXCEPT !.alive = @ /\ link.peer \in up']
    /\ UNCHANGED <<pc, running, home, script, packets, connVars, readVars, repVars, nameVars, history>>

\* Another thread leaves something to report, in a flag of its kind.  Most of them wake the controller.
Raise(k, f) ==
    /\ MayHappen /\ events < MaxEvents /\ running
    /\ events' = events + 1 /\ wake' \in {wake, TRUE}
    /\ flags' = f
    /\ account' = [account EXCEPT ![k].raised = events']
    /\ UNCHANGED <<pc, running, netVars, connVars, link, readVars, say, nameVars, history>>

HeadersArrive == flags.stream = "opened" /\ Raise("RESP", [flags EXCEPT !.stream = "streaming"])
MetaArrives == flags.stream = "streaming" /\ Raise("META", [flags EXCEPT !.meta_send = TRUE])
TrackStarts == Raise("STMs", [flags EXCEPT !.track_started = TRUE])
DecodeEnds ==
    /\ flags.decode = "running"
    /\ \/ Raise("STMd", [flags EXCEPT !.decode = "complete"])
       \/ Raise("STMn", [flags EXCEPT !.decode = "error"])

\* The events of these kinds that no pass took are forgotten.
Withdrawn(kinds) == [k \in Kinds |-> IF k \in kinds THEN [account[k] EXCEPT !.raised = account[k].taken] ELSE account[k]]

\* With its end a stream's headers are no longer reported; closed inside its headers or its metadata
\* it is STOPPED at once, and nothing is.
StreamEnds ==
    /\ MayHappen /\ events < MaxEvents /\ running /\ flags.stream \in {"opened", "streaming"}
    /\ events' = events + 1 /\ wake' \in {wake, TRUE}
    /\ \/ /\ flags' = [flags EXCEPT !.stream = "disconnect"]
          /\ account' = [Withdrawn({"RESP"}) EXCEPT !["DSCO"].raised = events']
       \/ flags' = [flags EXCEPT !.stream = "stopped"] /\ account' = Withdrawn({"RESP"})
    /\ UNCHANGED <<pc, running, netVars, connVars, link, readVars, say, nameVars, history>>

Happens == HeadersArrive \/ MetaArrives \/ TrackStarts \/ DecodeEnds \/ StreamEnds

SlimprotoStop ==
    /\ running /\ running' = FALSE
    /\ MayHappen /\ faults < MaxFaults /\ faults' = faults + 1
    /\ UNCHANGED <<pc, home, up, script, packets, connVars, link, readVars, repVars, nameVars, history>>

\* Faulty variant: one character less.
NameReadShort == IF file < NameLen - 1 THEN file ELSE NameLen - 2

\* The name file is read with fgets, which leaves room for the end of the string; of an empty file
\* it reads nothing.
NameRead == IF file < NameLen THEN file ELSE NameLen - 1

\* The player is killed and started again.
Restart ==
    /\ MayHappen /\ faults < MaxFaults /\ faults' = faults + 1
    /\ running' = TRUE
    /\ pc' = IF home = None THEN "discover" ELSE "connect"
    /\ server' = home
    /\ newServer' = None /\ newCap' = None /\ reconnect' = FALSE /\ failed' = 0
    /\ link' = NoLink /\ script' = <<>> /\ read' = 0
    /\ buffer' = NoBytes /\ got' = 0 /\ expect' = 0 /\ handled' = <<>> /\ timeouts' = 0
    /\ wake' = FALSE /\ flags' = NoFlags /\ say' = {} /\ account' = [k \in Kinds |-> Nothing]
    /\ name' = NameRead /\ file' = file
    /\ history' = NoHistory
    /\ UNCHANGED <<home, up, packets, events>>

----------------------------------------------------------------------------
(* slimproto(): one turn of its loop. *)

\* discover_server(): the answer to the broadcast, unless the name of option -s is known by now.
\* Faulty variant: only an answer ends it.
GivesUpNever == FALSE
GivesUp == ~running
Discover ==
    /\ pc = "discover"
    /\ \/ /\ GivesUp /\ server' = None /\ pc' = "off"
       \/ /\ \E s \in up : server' = s
          /\ pc' = IF running THEN "connect" ELSE "off"
    /\ UNCHANGED <<running, netVars, newServer, newCap, reconnect, failed, link, readVars, repVars, nameVars, history>>

\* The server to connect to, and the one to go back to.
Target == IF newServer # None THEN newServer ELSE server
Previous == IF newServer # None THEN server ELSE None
\* Faulty variant: a switch is no new beginning.
SaysStill == reconnect
Says == reconnect /\ newServer = None

Connect ==
    /\ pc = "connect" /\ running /\ Target \in up
    /\ server' = Target
    /\ link' = [NoLink EXCEPT !.peer = Target, !.alive = TRUE,
                              !.helo = [reconnect |-> Says, cap |-> newCap]]
    /\ history' = [history EXCEPT !.here = Target, !.prior = history.here,
                                  !.served = history.serv, !.serv = NoSwitch]
    /\ newServer' = None /\ newCap' = None /\ reconnect' = Says /\ failed' = 0
    /\ script' = <<>> /\ read' = 0 /\ got' = 0 /\ expect' = 0 /\ handled' = <<>> /\ timeouts' = 0
    /\ pc' = "loop"
    /\ UNCHANGED <<running, home, up, packets, faults, buffer, repVars, nameVars>>

\* Back to the server that was left, if there is one; after some failures, look for any.
\* Faulty variant: the new server is tried again.
NextTryTarget == Target
NextTry == IF Previous # None THEN Previous ELSE Target
CannotConnect ==
    /\ pc = "connect" /\ running /\ Target \notin up
    /\ server' = NextTry
    /\ failed' = IF home = None THEN Min({failed + 1, Retries + 1}) ELSE failed
    /\ pc' = IF failed' > Retries THEN "discover" ELSE "connect"
    /\ newServer' = None /\ reconnect' = Says
    /\ UNCHANGED <<running, netVars, newCap, link, readVars, repVars, nameVars, history>>

ConnectStopped ==
    /\ pc = "connect" /\ ~running /\ pc' = "off"
    /\ UNCHANGED <<running, netVars, connVars, link, readVars, repVars, nameVars, history>>

\* slimproto_run() returns, and the socket is closed.
Leave ==
    /\ pc' = "connect" /\ reconnect' = TRUE
    /\ link' = NoLink

----------------------------------------------------------------------------
(* slimproto_run(): one turn of its loop is a wait and what is done about it, then the pass. *)

LoopTop ==
    /\ pc = "loop"
    /\ IF running /\ newServer = None THEN pc' = "wait" /\ UNCHANGED <<reconnect, link>> ELSE Leave
    /\ UNCHANGED <<running, netVars, server, newServer, newCap, failed, readVars, repVars, nameVars, history>>

\* recv(): up to want units to the place where the next one goes.
Received(n) == [i \in DOMAIN buffer |-> IF i \in (got + 1)..(got + n) THEN UnitAt(read + i - got) ELSE buffer[i]]
\* Faulty variant: what came of the length is not counted.
LengthWantTwo == 2
LengthWant == 2 - got
BodyWant == expect

\* The length is what its two units say; units of anything else make no sense.
Length(b) == IF b[1][2] = 1 /\ b[2] = <<b[1][1], 2>> THEN LenOf(b[1][1]) ELSE MaxBuf + 1
\* Faulty variant: no upper limit.
ValidAny(length) == length >= MinLen
Valid(length) == length >= MinLen /\ length <= MaxBuf

ReadLength ==
    /\ pc = "wait" /\ expect = 0 /\ Arrived > 0
    /\ \E n \in 1..LengthWant :
         /\ n <= Arrived
         /\ read' = read + n
         /\ buffer' = Received(n)
         /\ IF got + n < 2 THEN /\ got' = got + n /\ pc' = "pass" /\ UNCHANGED <<expect, reconnect, link>>
            ELSE /\ got' = 0 /\ expect' = Length(buffer')
                 /\ IF Valid(expect') THEN pc' = "pass" /\ UNCHANGED <<reconnect, link>> ELSE Leave
    /\ timeouts' = 0
    /\ UNCHANGED <<running, netVars, server, newServer, newCap, failed, handled, repVars, nameVars, history>>

\* process(): by its opcode, if it is long enough for the handler.  Unknown ones are passed over.
MinOf(op) == IF op = "serv" THEN 2 ELSE MinLen
Known == {"strm", "serv", "setd"}

\* process_serv(): a server that cannot be named is no switch, but what goes with it is kept.
ProcessServ(p) ==
    /\ newServer' = p.to
    /\ newCap' = p.cap
    /\ history' = [history EXCEPT !.serv = [asked |-> TRUE, to |-> p.to, cap |-> p.cap]]
    /\ UNCHANGED <<repVars, nameVars>>

\* process_setd(): a query (name 0) changes nothing; a name is cut, kept and told, and then stored.
ProcessSetd(p) ==
    /\ name' = IF p.name = 0 THEN name ELSE Min({p.name, NameLen})
    /\ UNCHANGED <<newServer, newCap, repVars, file, history>>

\* process_strm(), as far as it takes back what was to be reported: s opens another stream, or finds
\* its server unreachable, which is reported like an end; q and f close the stream; others leave it alone.
ProcessStrm ==
    /\ \/ /\ flags' = [flags EXCEPT !.stream = "opened", !.sent_headers = FALSE, !.meta_send = FALSE,
                                     !.decode = "running"]
          /\ account' = [k \in Kinds |-> IF k = "STMs" THEN account[k] ELSE Nothing]
          /\ UNCHANGED events
       \/ /\ events < MaxEvents /\ events' = events + 1
          /\ flags' = [flags EXCEPT !.stream = "disconnect", !.decode = "running"]
          /\ account' = [[k \in Kinds |-> IF k \in {"STMs", "META"} THEN account[k] ELSE Nothing]
                            EXCEPT !["DSCO"].raised = events']
       \/ /\ flags' = [flags EXCEPT !.stream = "stopped", !.decode = "stopped"]
          /\ account' = Withdrawn({"DSCO", "RESP", "STMd", "STMn"})
          /\ UNCHANGED events
       \/ UNCHANGED <<flags, account, events>>
    /\ UNCHANGED <<newServer, newCap, wake, say, nameVars, history>>

Process(p) ==
    /\ handled' = IF p.op \in Known /\ p.len >= MinOf(p.op) THEN Append(handled, SubSeq(buffer', 1, got + expect))
                  ELSE handled
    /\ CASE p.op = "serv" /\ p.len >= MinOf(p.op) -> ProcessServ(p)
         [] p.op = "setd" -> ProcessSetd(p)
         [] p.op = "strm" -> ProcessStrm
         [] OTHER -> UNCHANGED <<newServer, newCap, repVars, nameVars, history>>

Renames(p) == p.op = "setd" /\ p.name # 0

ReadBody ==
    /\ pc = "wait" /\ expect > 0 /\ Arrived > 0
    /\ \E n \in 1..BodyWant :
         /\ n <= Arrived
         /\ read' = read + n
         /\ buffer' = Received(n)
         /\ expect' = expect - n
         /\ got' = IF expect' = 0 THEN 0 ELSE got + n
         /\ IF expect' = 0 THEN LET p == script[buffer'[1][1]].packet
                                IN  Process(p) /\ pc' = IF Renames(p) THEN "store" ELSE "pass"
            ELSE pc' = "pass" /\ UNCHANGED <<handled, newServer, newCap, repVars, nameVars, history>>
    /\ timeouts' = 0
    /\ UNCHANGED <<running, netVars, server, reconnect, failed, link>>

\* The name that was told is stored: fopen(), which empties the file or fails, and then fputs() and
\* fclose(), which may fail too.  The player may be killed in between.
StoreName ==
    /\ pc = "store"
    /\ \/ pc' = "write" /\ file' = 0 /\ UNCHANGED history
       \/ pc' = "pass" /\ history' = [history EXCEPT !.unsaved = TRUE] /\ UNCHANGED file
    /\ UNCHANGED <<running, netVars, connVars, link, readVars, repVars, name>>

WriteName ==
    /\ pc = "write" /\ pc' = "pass"
    /\ \E written \in BOOLEAN :
         /\ file' = IF written THEN name ELSE file
         /\ history' = [history EXCEPT !.unsaved = ~written]
    /\ UNCHANGED <<running, netVars, connVars, link, readVars, repVars, name>>

Closed ==
    /\ pc = "wait" /\ Arrived = 0 /\ link.closed
    /\ Leave
    /\ UNCHANGED <<running, netVars, server, newServer, newCap, failed, readVars, repVars, nameVars, history>>

\* The socket is looked at first; a wake is cleared and makes a pass.
Woken ==
    /\ pc = "wait" /\ Arrived = 0 /\ ~link.closed /\ wake
    /\ wake' = FALSE /\ timeouts' = 0 /\ pc' = "report"
    /\ UNCHANGED <<running, netVars, connVars, link, read, buffer, got, expect, handled, flags, say, account, events,
                   nameVars, history>>

Counted == timeouts + 1
Silence ==
    /\ pc = "wait" /\ Arrived = 0 /\ ~link.closed /\ ~wake
    /\ IF Counted > Patience THEN Leave /\ UNCHANGED timeouts
       ELSE pc' = "report" /\ timeouts' = Counted /\ UNCHANGED <<reconnect, link>>
    /\ UNCHANGED <<running, netVars, server, newServer, newCap, failed, read, buffer, got, expect, handled, repVars, nameVars, history>>

\* A pass takes what was left for it, in sections S, D and O, and clears the flags: what is left
\* while it sends is the next pass's.
Takes(kinds) ==
    /\ say' = say \cup kinds
    /\ account' = [k \in Kinds |-> IF k \in kinds THEN [account[k] EXCEPT !.taken = account[k].raised] ELSE account[k]]

\* Faulty variant: the headers of a stream that has ended are reported after its end.
HeadersDueStill == ~flags.sent_headers /\ flags.stream \in {"streaming", "disconnect"}
HeadersDue == ~flags.sent_headers /\ flags.stream = "streaming"

DueS == (IF flags.stream = "disconnect" THEN {"DSCO"} ELSE {}) \cup (IF HeadersDue THEN {"RESP"} ELSE {})
          \cup (IF flags.meta_send THEN {"META"} ELSE {})
PassS ==
    /\ pc \in {"pass", "report"} /\ pc' = "passD"
    /\ Takes(DueS \cup (IF flags.stream = "streaming" THEN {"open"} ELSE {}))
    /\ flags' = [flags EXCEPT !.stream = IF @ = "disconnect" THEN "stopped" ELSE @,
                              !.sent_headers = @ \/ HeadersDue, !.meta_send = FALSE]
    /\ UNCHANGED <<running, netVars, connVars, link, readVars, wake, events, nameVars, history>>

DueD == (IF flags.decode = "complete" THEN {"STMd"} ELSE {}) \cup (IF flags.decode = "error" THEN {"STMn"} ELSE {})
PassD ==
    /\ pc = "passD" /\ pc' = "passO"
    /\ Takes(DueD \cup (IF DueD # {} /\ "open" \in say THEN {"close"} ELSE {}))
    /\ flags' = [flags EXCEPT !.decode = IF DueD # {} THEN "stopped" ELSE @]
    /\ UNCHANGED <<running, netVars, connVars, link, readVars, wake, events, nameVars, history>>

\* Faulty variant: the flag is left set.
StartSeenStill == flags
StartSeen == [flags EXCEPT !.track_started = FALSE]

DueO == IF flags.track_started THEN {"STMs"} ELSE {}
PassO ==
    /\ pc = "passO" /\ pc' = "send"
    /\ Takes(DueO)
    /\ flags' = StartSeen
    /\ UNCHANGED <<running, netVars, connVars, link, readVars, wake, events, nameVars, history>>

\* stream_disconnect(): an end that came since section S is not reported (Player's FailureIsReported).
PassClose ==
    /\ pc = "send" /\ "close" \in say
    /\ say' = say \ {"close"}
    /\ flags' = [flags EXCEPT !.stream = "stopped"]
    /\ account' = Withdrawn({"DSCO", "RESP"})
    /\ UNCHANGED <<pc, running, netVars, connVars, link, readVars, wake, events, nameVars, history>>

\* What was taken is sent, each kind once, whether or not it arrives.
PassSend ==
    /\ pc = "send" /\ "close" \notin say
    /\ \E i \in DOMAIN Order :
         /\ Order[i] \in say /\ \A j \in 1..(i - 1) : Order[j] \notin say
         /\ say' = say \ {Order[i]}
         /\ account' = [account EXCEPT ![Order[i]].told = account[Order[i]].taken]
    /\ UNCHANGED <<pc, running, netVars, connVars, link, readVars, wake, flags, events, nameVars, history>>

PassEnds ==
    /\ pc = "send" /\ say \subseteq {"open"} /\ say' = {} /\ pc' = "loop"
    /\ UNCHANGED <<running, netVars, connVars, link, readVars, wake, flags, account, events, nameVars, history>>

Pass == PassS \/ PassD \/ PassO \/ PassClose \/ PassSend \/ PassEnds

\* Less than 100 ms after the last pass there is none, unless the controller was woken.
NoPass ==
    /\ pc = "pass" /\ pc' = "loop"
    /\ UNCHANGED <<running, netVars, connVars, link, readVars, repVars, nameVars, history>>

Controller ==
    \/ Discover \/ Connect \/ CannotConnect \/ ConnectStopped \/ LoopTop
    \/ ReadLength \/ ReadBody \/ StoreName \/ WriteName \/ Closed \/ Woken \/ Silence \/ Pass \/ NoPass
Around == Send \/ Fault \/ Happens \/ SlimprotoStop \/ Restart
Next == Controller \/ Around

(* The controller's thread goes on, its waits and connects all have a time limit. *)
Spec == Init /\ [][Next]_vars
FairSpec == Spec /\ WF_vars(Controller)

----------------------------------------------------------------------------
\* Type invariant: what is read stays in the buffer.
InRun == {"loop", "wait", "store", "write", "pass", "report", "passD", "passO", "send"}
TypeOK ==
    /\ pc \in InRun \cup {"discover", "connect", "off"}
    /\ server \in Servers \cup {None} /\ newServer \in Servers \cup {None}
    /\ pc \in InRun => got + expect <= MaxBuf
    /\ timeouts <= Patience /\ failed <= Retries + 1
    /\ name \in 0..NameLen

\* Packets are handled whole, once each and in the order they were sent, however TCP cuts them:
\* those of a known kind that are long enough, up to one whose length makes no sense.
Whole == {p \in DOMAIN script : Ends(p) <= read}
ToHandle(p) == script[p].packet.op \in Known /\ LenOf(p) >= MinOf(script[p].packet.op)
BodyOf(p) == [j \in 1..LenOf(p) |-> <<p, j + 2>>]
HandledInOrder ==
    /\ \A i \in DOMAIN handled : \E p \in Whole : ToHandle(p) /\ handled[i] = BodyOf(p)
    /\ \A p \in Whole : ToHandle(p) => \E i \in DOMAIN handled : handled[i] = BodyOf(p)
    /\ \A i, j \in DOMAIN handled : i < j => handled[i][1][1] < handled[j][1][1]

\* HELO says it is a reconnection only to the server of the last connection (or one discovered
\* after it), and says so always unless a switch was asked for.  The capability of a switch goes
\* out once, after that switch: to the new server, or to the old one that was gone back to.
HeloIsTrue ==
    link.peer # None =>
        /\ link.helo.reconnect => link.peer = history.prior \/ home = None
        /\ link.helo.reconnect \/ history.prior = None \/ history.served.asked
        /\ link.helo.cap = history.served.cap
        /\ history.served.asked => link.peer \in {history.served.to, history.prior} \/ home = None

\* Of each kind, a pass takes what happened since one last did and sends one report for all of it:
\* nothing is told twice, nothing that happens during the sections or sends of a pass is lost, and
\* a report stands for something, across closed connections and switches.  What is sent on a dead
\* connection is not sent again, and strm s, q and f take back what no pass took.
Due == DueS \cup DueD \cup DueO
ReportedOnce ==
    \A k \in Kinds :
        /\ account[k].told <= account[k].taken /\ account[k].taken <= account[k].raised
        /\ k \in say <=> account[k].told < account[k].taken
        /\ k \in Due <=> account[k].taken < account[k].raised

\* Once a stream's end is reported or about to be, its headers are not.
EndIsLast == account["DSCO"].taken > 0 => "RESP" \notin say \cup Due

\* A player that is killed has the name it told the server when it is started again, unless it was
\* killed while it stored that name: then it has the old one, or, if the file was emptied, none.
\* Excepted are a file that could not be written and a name of full length (of which fgets reads one
\* character less).
NameSurvives ==
    [][faults' # faults /\ name' # name =>
          \/ history.unsaved \/ name = NameLen \/ pc = "store"
          \/ pc = "write" /\ name' = 0]_vars

\* If the server last connected to can be reached from some time on, the player comes back to it or
\* stays with another: out of a connection that is silent, closed or ended by a length that makes
\* no sense, and back from a switch to a server that does not answer.
AtWork == pc \in InRun /\ link.alive /\ ~link.closed
LastHere == IF history.here = None THEN home ELSE history.here
ComesBack == <>[](LastHere \in up \/ (home = None /\ up # {})) => []<>(AtWork \/ ~running)

\* slimproto_stop ends the thread wherever it is.
Stops == ~running ~> (pc = "off" \/ running)

\* Nothing is handled or reported twice, out of order or in part, and no packet overruns the buffer.
ExactlyOnce == TypeOK /\ HandledInOrder /\ ReportedOnce /\ EndIsLast

\* The controller finds its way back to a server, unless it is stopped: then it ends.
ComesBackOrStops == ComesBack /\ Stops
====
