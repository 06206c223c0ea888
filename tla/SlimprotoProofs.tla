--------------------------- MODULE SlimprotoProofs ---------------------------
(* Proofs about Slimproto, for every set of servers and packets, every      *)
(* limit and every number of faults: packets are handled whole and in the   *)
(* order they were sent, what happens is reported once, the HELO is true    *)
(* and the player's name survives.                                          *)
EXTENDS Slimproto, TLAPS

(* The inductive invariant, in parts.                                       *)

\* Where a pass of the controller is under way, and where a name is being stored.
Sections == {"passD", "passO", "send"}
Storing == {"store", "write"}
Link == [peer : Servers \cup {None}, alive : BOOLEAN, closed : BOOLEAN,
         helo : [reconnect : BOOLEAN, cap : Caps \cup {None}]]
Switch == [asked : BOOLEAN, to : Servers \cup {None}, cap : Caps \cup {None}]
History == [here : Servers \cup {None}, prior : Servers \cup {None}, serv : Switch, served : Switch,
            unsaved : BOOLEAN]
Item == [at : Nat, packet : Packets]

ConnTyped ==
    /\ home \in Homes /\ up \in SUBSET Servers /\ running \in BOOLEAN
    /\ pc \in InRun \cup {"discover", "connect", "off"}
    /\ server \in Servers \cup {None} /\ newServer \in Servers \cup {None}
    /\ newCap \in Caps \cup {None} /\ reconnect \in BOOLEAN /\ failed \in 0 .. Retries + 1
    /\ link \in Link /\ history \in History
    /\ wake \in BOOLEAN /\ events \in Nat
    /\ name \in 0 .. NameLen /\ file \in 0 .. NameLen
ReadTyped ==
    /\ script \in Seq(Item) /\ read \in Nat
    /\ buffer \in [1 .. MaxBuf -> Nat \X Nat] /\ got \in Nat /\ expect \in Nat
    /\ timeouts \in 0 .. Patience
Typed == ConnTyped /\ ReadTyped

\* The packets lie one after the other on the connection.
Tiled ==
    /\ script # <<>> => script[1].at = 0
    /\ \A p \in DOMAIN script : p > 1 => script[p].at = Ends(p - 1)
    /\ \A p, q \in DOMAIN script : p < q => Ends(p) <= script[q].at

\* Packet p is the next to be handled: its length is being read, or its body.
At(p) == IF p \in DOMAIN script THEN script[p].at ELSE Sent
InLength(p) ==
    /\ expect = 0 /\ got < 2 /\ read = At(p) + got
    /\ got = 1 => p \in DOMAIN script /\ buffer[1] = <<p, 1>>
InBody(p) ==
    /\ p \in DOMAIN script /\ expect > 0 /\ got + expect = LenOf(p) /\ Valid(LenOf(p))
    /\ read = At(p) + 2 + got
    /\ \A j \in 1 .. got : buffer[j] = <<p, j + 2>>
Reading ==
    /\ read <= Sent /\ handled \in Seq(Seq(Nat \X Nat))
    /\ pc \in InRun => \E p \in 1 .. Len(script) + 1 : InLength(p) \/ InBody(p)

\* Whom the player is connected to, or connects to next.
Linked ==
    /\ link.peer # None <=> pc \in InRun
    /\ link.peer # None => link.peer = server /\ link.peer = history.here
    /\ pc = "connect" => server # None
    /\ home # None => pc # "discover" /\ failed = 0
    /\ home # None /\ pc = "connect" => server = LastHere

\* What becomes of a switch a server asked for.
Switched ==
    /\ newCap = history.serv.cap
    /\ newServer # None => history.serv.asked /\ newServer = history.serv.to
    /\ history.serv.asked \/ reconnect => history.here # None
    /\ pc \in {"connect", "discover"} => reconnect \/ history.here = None \/ history.serv.asked

\* A name that was written is the one in the file, or is one too long for it; the file that is
\* being written is empty.
NameSaved ==
    /\ pc \notin Storing /\ ~history.unsaved => name = file \/ (file = NameLen /\ name = NameLen - 1)
    /\ pc = "write" => file = 0

\* What is due of each kind, and what was taken and told of it.
Flags == [stream : {"stopped", "opened", "streaming", "disconnect"}, sent_headers : BOOLEAN, meta_send : BOOLEAN,
          decode : {"stopped", "running", "complete", "error"}, track_started : BOOLEAN]
Account == [raised : Nat, taken : Nat, told : Nat]
IsDue(k, f) ==
    \/ k = "DSCO" /\ f.stream = "disconnect"
    \/ k = "RESP" /\ ~f.sent_headers /\ f.stream = "streaming"
    \/ k = "META" /\ f.meta_send
    \/ k = "STMd" /\ f.decode = "complete"
    \/ k = "STMn" /\ f.decode = "error"
    \/ k = "STMs" /\ f.track_started
Right(a, said, due, last) ==
    /\ a.told <= a.taken /\ a.taken <= a.raised /\ a.raised <= last
    /\ said <=> a.told < a.taken
    /\ due <=> a.taken < a.raised
Reported ==
    /\ flags \in Flags /\ say \in SUBSET (Kinds \cup {"open", "close"}) /\ account \in [Kinds -> Account]
    /\ \A k \in Kinds : Right(account[k], k \in say, IsDue(k, flags), events)
    /\ pc \notin Sections => say = {}
    /\ flags.stream = "opened" => ~flags.sent_headers
    /\ account["DSCO"].taken > 0 => flags.stream \in {"stopped", "disconnect"} /\ "RESP" \notin say

Settled == Linked /\ Switched /\ HeloIsTrue /\ NameSaved

IInv == Typed /\ Tiled /\ Reading /\ HandledInOrder /\ Settled /\ Reported
-----------------------------------------------------------------------------
(* Lemmas about the operators.                                              *)

LEMMA MinIs ==
  ASSUME NEW a \in Int, NEW b \in Int
  PROVE  Min({a, b}) = IF a <= b THEN a ELSE b
  <1> DEFINE least(x) == x \in {a, b} /\ \A y \in {a, b} : x <= y
  <1>1. \E x \in {a, b} : least(x)
    OBVIOUS
  <1>2. least(Min({a, b}))
    BY <1>1 DEF Min
  <1> QED BY <1>2

LEMMA ItemIs ==
  ASSUME Typed, NEW p \in DOMAIN script
  PROVE  /\ script[p].at \in Nat /\ script[p].packet \in Packet /\ LenOf(p) \in Nat /\ Ends(p) \in Nat
         /\ Ends(p) = script[p].at + 2 + LenOf(p) /\ p \in Nat
  <1>0. script \in Seq(Item)
    BY DEF Typed, ConnTyped, ReadTyped
  <1>1. script[p] \in Item /\ p \in Nat
    BY <1>0
  <1>2. script[p].at \in Nat /\ script[p].packet \in Packet
    BY <1>1, SlimprotoAssumption DEF Item, SlimprotoAssumption
  <1> QED BY <1>1, <1>2 DEF Packet, LenOf, Ends

LEMMA SentIs ==
  ASSUME Typed, Tiled
  PROVE  /\ Sent \in Nat
         /\ \A p \in DOMAIN script : Ends(p) <= Sent
  <1>1. CASE script = <<>>
    BY <1>1 DEF Sent
  <1>2. CASE script # <<>>
    <2>1. Len(script) \in DOMAIN script /\ Sent = Ends(Len(script)) /\ DOMAIN script = 1 .. Len(script)
      BY <1>2 DEF Typed, ConnTyped, ReadTyped, Sent
    <2>2. ASSUME NEW p \in DOMAIN script PROVE Ends(p) <= Sent
      <3>1. CASE p = Len(script)
        BY <2>1, <3>1, ItemIs
      <3>2. CASE p # Len(script)
        <4>1. Ends(p) <= script[Len(script)].at
          BY <2>1, <3>2 DEF Tiled
        <4>2. script[Len(script)].at \in Nat /\ Ends(p) \in Nat /\ LenOf(Len(script)) \in Nat
          BY <2>1, ItemIs
        <4>3. Ends(Len(script)) = script[Len(script)].at + 2 + LenOf(Len(script))
          BY DEF Ends
        <4> QED BY <2>1, <4>1, <4>2, <4>3
      <3> QED BY <3>1, <3>2
    <2> QED BY <2>1, <2>2, ItemIs
  <1> QED BY <1>1, <1>2

LEMMA UnitIs ==
  ASSUME Typed, Tiled, NEW p \in DOMAIN script, NEW i \in 1 .. 2 + LenOf(p)
  PROVE  UnitAt(script[p].at + i) = <<p, i>>
  <1> DEFINE k == script[p].at + i
             there(q) == script[q].at < k /\ k <= Ends(q)
             found == CHOOSE q \in DOMAIN script : there(q)
  <1>1. there(p)
    BY ItemIs
  <1>2. found \in DOMAIN script /\ there(found)
    BY <1>1
  <1>3. UnitAt(k) = <<found, k - script[found].at>>
    BY DEF UnitAt
  <1> HIDE DEF found
  <1>4. /\ script[p].at \in Nat /\ Ends(p) \in Nat /\ script[found].at \in Nat /\ Ends(found) \in Nat
        /\ p \in Nat /\ found \in Nat
    BY <1>2, ItemIs
  <1>5. found = p
    <2>1. ~(p < found) /\ ~(found < p)
      BY <1>1, <1>2, <1>4 DEF Tiled
    <2> QED BY <1>4, <2>1
  <1>6. k - script[p].at = i
    BY <1>4
  <1> QED BY <1>3, <1>5, <1>6

\* What is read of a length.
LEMMA LengthIs ==
  ASSUME Typed, Tiled, Reading, ReadLength
  PROVE  \E p \in DOMAIN script, n \in 1 .. 2 - got :
           /\ expect = 0 /\ got < 2 /\ read = script[p].at + got /\ read' = read + n
           /\ buffer'[1] = <<p, 1>> /\ buffer' \in [1 .. MaxBuf -> Nat \X Nat]
           /\ IF got + n < 2 THEN /\ got' = got + n /\ pc' = "pass" /\ UNCHANGED <<expect, reconnect, link>>
              ELSE /\ got' = 0 /\ expect' = LenOf(p)
                   /\ IF Valid(expect') THEN pc' = "pass" /\ UNCHANGED <<reconnect, link>> ELSE Leave
  <1>1. PICK n \in 1 .. LengthWant :
          /\ n <= Arrived
          /\ read' = read + n
          /\ buffer' = Received(n)
          /\ IF got + n < 2 THEN /\ got' = got + n /\ pc' = "pass" /\ UNCHANGED <<expect, reconnect, link>>
             ELSE /\ got' = 0 /\ expect' = Length(buffer')
                  /\ IF Valid(expect') THEN pc' = "pass" /\ UNCHANGED <<reconnect, link>> ELSE Leave
    BY DEF ReadLength
  <1>2. expect = 0 /\ pc = "wait" /\ Arrived > 0
    BY DEF ReadLength
  <1>3. PICK p \in 1 .. Len(script) + 1 : InLength(p)
    BY <1>2 DEF Reading, InBody, InRun
  <1>4. got \in {0, 1} /\ n \in 1 .. 2 - got /\ MaxBuf \in Nat /\ MaxBuf >= 2
    <2>1. got \in Nat /\ got < 2
      BY <1>3 DEF InLength, Typed, ConnTyped, ReadTyped
    <2>2. MaxBuf \in Nat /\ MaxBuf >= 2
      BY SlimprotoAssumption DEF SlimprotoAssumption
    <2> QED BY <1>1, <2>1, <2>2 DEF LengthWant
  <1>5. p \in DOMAIN script
    <2>1. Sent \in Nat /\ read \in Nat /\ Sent > read
      BY <1>2, SentIs DEF Arrived, Typed, ConnTyped, ReadTyped
    <2> QED BY <1>3, <1>4, <2>1 DEF InLength, At
  <1>6. read = script[p].at + got
    BY <1>3, <1>5 DEF InLength, At
  <1>7. /\ buffer' = [i \in 1 .. MaxBuf |-> IF i \in (got + 1)..(got + n) THEN UnitAt(read + i - got) ELSE buffer[i]]
        /\ \A i \in 1 .. MaxBuf : buffer'[i] = IF i \in (got + 1)..(got + n) THEN UnitAt(read + i - got) ELSE buffer[i]
    BY <1>1 DEF Received, Typed, ConnTyped, ReadTyped
  <1>8. \A i \in 1 .. 2 : UnitAt(script[p].at + i) = <<p, i>>
    <2>1. \A i \in 1 .. 2 : i \in 1 .. 2 + LenOf(p)
      BY <1>5, ItemIs
    <2> QED BY <1>5, <2>1, UnitIs
  <1>9. script[p].at \in Nat
    BY <1>5, ItemIs
  <1>10. buffer'[1] = <<p, 1>>
    <2>1. CASE got = 0
      <3>1. 1 \in (got + 1)..(got + n) /\ read + 1 - got = script[p].at + 1 /\ 1 \in 1 .. MaxBuf
        BY <1>4, <1>6, <1>9, <2>1
      <3> QED BY <1>7, <1>8, <3>1
    <2>2. CASE got = 1
      <3>1. 1 \notin (got + 1)..(got + n) /\ 1 \in 1 .. MaxBuf
        BY <1>4, <2>2
      <3> QED BY <1>3, <1>7, <2>2, <3>1 DEF InLength
    <2> QED BY <1>4, <2>1, <2>2
  <1>11. ASSUME got + n >= 2 PROVE Length(buffer') = LenOf(p)
    <2>1. 2 \in (got + 1)..(got + n) /\ read + 2 - got = script[p].at + 2 /\ 2 \in 1 .. MaxBuf
      BY <1>4, <1>6, <1>9, <1>11
    <2>2. buffer'[2] = <<p, 2>>
      BY <1>7, <1>8, <2>1
    <2> QED BY <1>10, <2>2 DEF Length
  <1>12. got < 2 /\ (~(got + n < 2) => got + n >= 2)
    BY <1>4
  <1>13. buffer' \in [1 .. MaxBuf -> Nat \X Nat]
    <2>1. ASSUME NEW i \in 1 .. MaxBuf PROVE buffer'[i] \in Nat \X Nat
      <3>1. CASE i \in (got + 1)..(got + n)
        <4>1. i \in 1 .. 2 /\ read + i - got = script[p].at + i
          BY <1>4, <1>6, <1>9, <3>1
        <4>2. buffer'[i] = <<p, i>> /\ p \in Nat
          BY <1>5, <1>7, <1>8, <3>1, <4>1, ItemIs
        <4> QED BY <4>1, <4>2
      <3>2. CASE i \notin (got + 1)..(got + n)
        <4>1. buffer \in [1 .. MaxBuf -> Nat \X Nat]
          BY DEF Typed, ConnTyped, ReadTyped
        <4> QED BY <1>7, <3>2, <4>1
      <3> QED BY <3>1, <3>2
    <2> QED BY <1>7, <2>1
  <1> QED BY <1>1, <1>2, <1>4, <1>5, <1>6, <1>10, <1>11, <1>12, <1>13

Handles(p) == Process(p) /\ pc' = IF Renames(p) THEN "store" ELSE "pass"
Waits == pc' = "pass" /\ UNCHANGED <<handled, newServer, newCap, repVars, nameVars, history>>

\* What is read of a body.
LEMMA BodyIs ==
  ASSUME Typed, Tiled, Reading, ReadBody
  PROVE  \E p \in DOMAIN script, n \in 1 .. expect :
           /\ InBody(p) /\ read = script[p].at + 2 + got /\ read' = read + n /\ expect' = expect - n
           /\ buffer' \in [1 .. MaxBuf -> Nat \X Nat]
           /\ \A j \in 1 .. got + n : buffer'[j] = <<p, j + 2>>
           /\ got' = IF expect' = 0 THEN 0 ELSE got + n
           /\ IF expect' = 0 THEN Handles(script[p].packet) ELSE Waits
  <1>1. PICK n \in 1 .. BodyWant :
          /\ n <= Arrived
          /\ read' = read + n
          /\ buffer' = Received(n)
          /\ expect' = expect - n
          /\ got' = IF expect' = 0 THEN 0 ELSE got + n
          /\ IF expect' = 0 THEN Handles(script[buffer'[1][1]].packet) ELSE Waits
    BY DEF ReadBody, Handles, Waits
  <1>2. expect > 0 /\ pc = "wait" /\ Arrived > 0
    BY DEF ReadBody
  <1>0. pc \in InRun
    BY <1>2 DEF InRun
  <1>3. PICK p \in 1 .. Len(script) + 1 : InBody(p)
    BY <1>0, <1>2 DEF Reading, InLength
  <1>4. /\ p \in DOMAIN script /\ n \in 1 .. expect /\ got \in Nat /\ expect \in Nat
        /\ MaxBuf \in Nat /\ got + expect = LenOf(p) /\ LenOf(p) <= MaxBuf
    BY <1>1, <1>3, SlimprotoAssumption DEF InBody, BodyWant, Valid, SlimprotoAssumption, Typed, ConnTyped, ReadTyped
  <1>5. read = script[p].at + 2 + got /\ script[p].at \in Nat
    BY <1>3, <1>4, ItemIs DEF InBody, At
  <1>6. /\ buffer' = [i \in 1 .. MaxBuf |-> IF i \in (got + 1)..(got + n) THEN UnitAt(read + i - got) ELSE buffer[i]]
        /\ \A i \in 1 .. MaxBuf : buffer'[i] = IF i \in (got + 1)..(got + n) THEN UnitAt(read + i - got) ELSE buffer[i]
    BY <1>1 DEF Received, Typed, ConnTyped, ReadTyped
  <1>7. ASSUME NEW j \in 1 .. got + n PROVE buffer'[j] = <<p, j + 2>>
    <2>1. j \in 1 .. MaxBuf
      BY <1>4
    <2>2. CASE j <= got
      <3>1. j \in 1 .. got /\ j \notin (got + 1)..(got + n)
        BY <2>2, <1>4
      <3>2. buffer[j] = <<p, j + 2>>
        BY <1>3, <3>1 DEF InBody
      <3> QED BY <1>6, <2>1, <3>1, <3>2
    <2>3. CASE j > got
      <3>1. j \in (got + 1)..(got + n)
        BY <2>3, <1>4
      <3>3. read + j - got = script[p].at + (j + 2)
        <4>1. j \in Int /\ got \in Int /\ script[p].at \in Int
          BY <1>4, <1>5
        <4> QED BY <1>5, <4>1
      <3>4. j + 2 \in 1 .. 2 + LenOf(p)
        <4>1. LenOf(p) \in Nat
          BY <1>4, ItemIs
        <4> QED BY <1>4, <4>1
      <3>2. UnitAt(script[p].at + (j + 2)) = <<p, j + 2>>
        BY <1>4, <3>4, UnitIs
      <3> QED BY <1>6, <2>1, <3>1, <3>2, <3>3
    <2> QED BY <1>4, <2>2, <2>3
  <1>8. buffer'[1][1] = p
    <2>1. 1 \in 1 .. got + n
      BY <1>4
    <2> QED BY <1>7, <2>1
  <1>9. buffer' \in [1 .. MaxBuf -> Nat \X Nat]
    <2>1. ASSUME NEW i \in 1 .. MaxBuf PROVE buffer'[i] \in Nat \X Nat
      <3>1. CASE i \in (got + 1)..(got + n)
        <4>1. i \in 1 .. got + n /\ i + 2 \in Nat /\ p \in Nat
          BY <1>4, <3>1, ItemIs
        <4>2. buffer'[i] = <<p, i + 2>>
          BY <1>7, <4>1
        <4> QED BY <4>1, <4>2
      <3>2. CASE i \notin (got + 1)..(got + n)
        <4>1. buffer \in [1 .. MaxBuf -> Nat \X Nat]
          BY DEF Typed, ConnTyped, ReadTyped
        <4> QED BY <1>6, <3>2, <4>1
      <3> QED BY <3>1, <3>2
    <2> QED BY <1>6, <2>1
  <1> QED BY <1>1, <1>3, <1>4, <1>5, <1>7, <1>8, <1>9
-----------------------------------------------------------------------------
(* The type invariant.                                                      *)

LEMMA LeaveTyped == ASSUME Leave PROVE pc' = "connect" /\ reconnect' = TRUE /\ link' = NoLink /\ NoLink \in Link
  BY DEF Leave, NoLink, Link

LEMMA ProcessTyped ==
  ASSUME Typed, NEW p \in Packet, Process(p)
  PROVE  /\ newServer' \in Servers \cup {None} /\ newCap' \in Caps \cup {None}
         /\ history' \in History /\ name' \in 0 .. NameLen /\ file' \in 0 .. NameLen
  <1>1. /\ newServer \in Servers \cup {None} /\ newCap \in Caps \cup {None}
        /\ history \in History /\ name \in 0 .. NameLen /\ file \in 0 .. NameLen
    BY DEF Typed, ConnTyped, ReadTyped
  <1>2. /\ p.to \in Servers \cup {None} /\ p.cap \in Caps \cup {None} /\ p.name \in Nat
        /\ NameLen \in Nat \ {0}
    BY SlimprotoAssumption DEF Packet, SlimprotoAssumption
  <1>3. CASE ProcessServ(p)
    <2>1. [asked |-> TRUE, to |-> p.to, cap |-> p.cap] \in Switch
      BY <1>2 DEF Switch
    <2>2. history' = [history EXCEPT !.serv = [asked |-> TRUE, to |-> p.to, cap |-> p.cap]]
      BY <1>3 DEF ProcessServ
    <2>3. history' \in History
      BY <1>1, <2>1, <2>2 DEF History
    <2> QED BY <1>1, <1>2, <1>3, <2>3 DEF ProcessServ, nameVars
  <1>4. CASE ProcessSetd(p)
    <2>1. name' \in 0 .. NameLen
      <3>1. Min({p.name, NameLen}) = IF p.name <= NameLen THEN p.name ELSE NameLen
        BY <1>2, MinIs
      <3>2. name' = IF p.name = 0 THEN name ELSE Min({p.name, NameLen})
        BY <1>4 DEF ProcessSetd
      <3> QED BY <1>1, <1>2, <3>1, <3>2
    <2> QED BY <1>1, <1>4, <2>1 DEF ProcessSetd
  <1>5. CASE ProcessStrm \/ UNCHANGED <<newServer, newCap, nameVars, history>>
    BY <1>1, <1>5 DEF ProcessStrm, nameVars
  <1> QED BY <1>3, <1>4, <1>5 DEF Process

LEMMA ProcessTypedRep ==
  ASSUME Typed, NEW p \in Packet, Process(p)
  PROVE  wake' = wake /\ events' \in Nat
  BY DEF Process, ProcessServ, ProcessSetd, ProcessStrm, repVars, Typed, ConnTyped

LEMMA TypedStep ==
  ASSUME Typed, Tiled, Reading, [Next]_vars
  PROVE  Typed'
  <1> USE DEF netVars, connVars, readVars, repVars, nameVars, InRun
  <1>0. SlimprotoAssumption
    BY SlimprotoAssumption
  <1>1. CASE Send
    <2>1. PICK p \in Packets : script' = Append(script, [at |-> Sent, packet |-> p])
      BY <1>1 DEF Send
    <2>2. Sent \in Nat
      <3>1. CASE script = <<>>
        BY <3>1 DEF Sent
      <3>2. CASE script # <<>>
        <4>1. Len(script) \in DOMAIN script /\ script[Len(script)] \in Item
          BY <3>2 DEF Typed, ConnTyped, ReadTyped
        <4>2. script[Len(script)].at \in Nat /\ script[Len(script)].packet.len \in Nat
          BY <4>1, <1>0 DEF Item, Packet, SlimprotoAssumption
        <4> QED BY <4>2, <3>2 DEF Sent, Ends, LenOf
      <3> QED BY <3>1, <3>2
    <2>3. [at |-> Sent, packet |-> p] \in Item
      BY <2>2 DEF Item
    <2>4. script' \in Seq(Item)
      BY <2>1, <2>3 DEF Typed, ConnTyped, ReadTyped
    <2> QED BY <1>1, <2>4 DEF Send, Typed, ConnTyped, ReadTyped
  <1>2. CASE Fault
    <2>1. link' \in Link /\ up' \in SUBSET Servers
      BY <1>2 DEF Fault, Typed, ConnTyped, ReadTyped, Link
    <2> QED BY <1>2, <2>1 DEF Fault, Typed, ConnTyped, ReadTyped
  <1>3. CASE Happens
    <2>1. /\ events' = events + 1 /\ wake' \in {wake, TRUE}
          /\ UNCHANGED <<pc, running, netVars, connVars, link, readVars, nameVars, history>>
      BY <1>3 DEF Happens, HeadersArrive, MetaArrives, TrackStarts, DecodeEnds, StreamEnds, Raise
    <2>2. wake' \in BOOLEAN /\ events' \in Nat
      <3>1. wake \in BOOLEAN /\ events \in Nat
        BY DEF Typed, ConnTyped
      <3>2. wake' = wake \/ wake' = TRUE
        BY <2>1
      <3>3. wake' \in BOOLEAN
        BY <3>1, <3>2
      <3> QED BY <2>1, <3>1, <3>3
    <2> QED BY <2>1, <2>2 DEF Typed, ConnTyped, ReadTyped
  <1>4. CASE SlimprotoStop
    BY <1>4 DEF SlimprotoStop, Typed, ConnTyped, ReadTyped
  <1>5. CASE Restart
    <2>1. history' \in History
      <3>1. NoHistory \in History
        BY DEF NoHistory, History, NoSwitch, Switch
      <3> QED BY <1>5, <3>1 DEF Restart
    <2>2. link' \in Link /\ buffer' \in [1 .. MaxBuf -> Nat \X Nat]
      <3>1. NoLink \in Link /\ NoBytes \in [1 .. MaxBuf -> Nat \X Nat]
        BY DEF NoLink, Link, NoBytes
      <3> QED BY <1>5, <3>1 DEF Restart
    <2>3. name' \in 0 .. NameLen /\ file' \in 0 .. NameLen
      <3>1. file \in 0 .. NameLen
        BY DEF Typed, ConnTyped, ReadTyped
      <3> QED BY <1>5, <1>0, <3>1 DEF Restart, NameRead, SlimprotoAssumption
    <2>4. server' \in Servers \cup {None} /\ home' \in Homes /\ up' \in SUBSET Servers
      BY <1>5, <1>0 DEF Restart, Typed, ConnTyped, ReadTyped, SlimprotoAssumption
    <2>5. script' \in Seq(Item) /\ read' \in Nat /\ got' \in Nat /\ expect' \in Nat
      BY <1>5 DEF Restart
    <2>6. timeouts' \in 0 .. Patience /\ failed' \in 0 .. Retries + 1 /\ wake' \in BOOLEAN /\ events' \in Nat
      <3>1. timeouts' = 0 /\ failed' = 0 /\ wake' = FALSE /\ events' = events
        BY <1>5 DEF Restart
      <3>2. Patience \in Nat /\ Retries \in Nat /\ events \in Nat
        BY <1>0 DEF SlimprotoAssumption, Typed, ConnTyped, ReadTyped
      <3>3. timeouts' \in 0 .. Patience /\ failed' \in 0 .. Retries + 1
        BY <3>1, <3>2
      <3> QED BY <3>1, <3>2, <3>3
    <2>7. pc' \in InRun \cup {"discover", "connect", "off"} /\ running' \in BOOLEAN
          /\ newServer' \in Servers \cup {None} /\ newCap' \in Caps \cup {None} /\ reconnect' \in BOOLEAN
      BY <1>5 DEF Restart
    <2> QED BY <2>1, <2>2, <2>3, <2>4, <2>5, <2>6, <2>7 DEF Typed, ConnTyped, ReadTyped
  <1>6. CASE Discover
    BY <1>6 DEF Discover, Typed, ConnTyped, ReadTyped
  <1>7. CASE Connect
    <2>1. link' = [peer |-> Target, alive |-> TRUE, closed |-> FALSE,
                   helo |-> [reconnect |-> Says, cap |-> newCap]]
      BY <1>7 DEF Connect, NoLink
    <2>2. Target \in Servers \cup {None} /\ Says \in BOOLEAN /\ newCap \in Caps \cup {None}
      <3>1. server \in Servers \cup {None} /\ newServer \in Servers \cup {None} /\ newCap \in Caps \cup {None}
            /\ reconnect \in BOOLEAN
        BY DEF Typed, ConnTyped, ReadTyped
      <3> QED BY <3>1 DEF Target, Says
    <2>3. link' \in Link /\ server' \in Servers \cup {None}
      <3>1. [reconnect |-> Says, cap |-> newCap] \in [reconnect : BOOLEAN, cap : Caps \cup {None}]
        BY <2>2
      <3>2. link' \in Link
        BY <2>1, <2>2, <3>1 DEF Link
      <3> QED BY <1>7, <2>2, <3>2 DEF Connect
    <2>4. /\ history' = [history EXCEPT !.here = Target, !.prior = history.here,
                                        !.served = history.serv, !.serv = NoSwitch]
          /\ NoSwitch \in Switch /\ history \in History
      BY <1>7 DEF Connect, NoSwitch, Switch, Typed, ConnTyped, ReadTyped
    <2>5. history' \in History
      BY <2>2, <2>4 DEF History
    <2>6. failed' \in 0 .. Retries + 1 /\ timeouts' \in 0 .. Patience
      BY <1>0, <1>7 DEF Connect, SlimprotoAssumption
    <2>7. ConnTyped'
      BY <1>7, <2>2, <2>3, <2>5, <2>6 DEF Connect, Typed, ConnTyped
    <2>8. ReadTyped'
      BY <1>7, <2>6 DEF Connect, Typed, ReadTyped
    <2> QED BY <2>7, <2>8 DEF Typed
  <1>8. CASE CannotConnect
    <2>1. failed' \in 0 .. Retries + 1
      <3>1. failed \in 0 .. Retries + 1 /\ Retries \in Nat
        BY <1>0 DEF Typed, ConnTyped, SlimprotoAssumption
      <3>2. Min({failed + 1, Retries + 1}) = IF failed + 1 <= Retries + 1 THEN failed + 1 ELSE Retries + 1
        BY <3>1, MinIs
      <3>3. failed' = IF home = None THEN Min({failed + 1, Retries + 1}) ELSE failed
        BY <1>8 DEF CannotConnect
      <3> QED BY <3>1, <3>2, <3>3
    <2>2. server' \in Servers \cup {None} /\ newServer' \in Servers \cup {None} /\ reconnect' \in BOOLEAN
      BY <1>8 DEF CannotConnect, Typed, ConnTyped, ReadTyped, NextTry, Previous, Target, Says
    <2>3. pc' \in InRun \cup {"discover", "connect", "off"}
      BY <1>8 DEF CannotConnect
    <2> QED BY <1>8, <2>1, <2>2, <2>3 DEF CannotConnect, Typed, ConnTyped, ReadTyped
  <1>9. CASE ConnectStopped
    BY <1>9 DEF ConnectStopped, Typed, ConnTyped, ReadTyped
  <1>10. CASE LoopTop
    BY <1>10, LeaveTyped DEF LoopTop, Typed, ConnTyped, ReadTyped
  <1>11. CASE ReadLength
    <2>1. PICK p \in DOMAIN script, n \in 1 .. 2 - got :
            /\ expect = 0 /\ got < 2 /\ read' = read + n /\ buffer' \in [1 .. MaxBuf -> Nat \X Nat]
            /\ IF got + n < 2 THEN /\ got' = got + n /\ pc' = "pass" /\ UNCHANGED <<expect, reconnect, link>>
               ELSE /\ got' = 0 /\ expect' = LenOf(p)
                    /\ IF Valid(expect') THEN pc' = "pass" /\ UNCHANGED <<reconnect, link>> ELSE Leave
      BY <1>11, LengthIs
    <2>2. read' \in Nat /\ got' \in Nat /\ expect' \in Nat
      <3>1. read \in Nat /\ got \in Nat /\ expect \in Nat /\ LenOf(p) \in Nat
        BY ItemIs DEF Typed, ConnTyped, ReadTyped
      <3> QED BY <2>1, <3>1
    <2>4. /\ pc' \in InRun \cup {"discover", "connect", "off"}
          /\ reconnect' \in BOOLEAN /\ link' \in Link
      BY <2>1, LeaveTyped DEF Typed, ConnTyped, ReadTyped
    <2>5. timeouts' \in 0 .. Patience
      BY <1>0, <1>11 DEF ReadLength, SlimprotoAssumption
    <2> QED BY <1>11, <2>1, <2>2, <2>4, <2>5 DEF ReadLength, Typed, ConnTyped, ReadTyped
  <1>12. CASE ReadBody
    <2>1. PICK p \in DOMAIN script, n \in 1 .. expect :
            /\ read' = read + n /\ expect' = expect - n /\ buffer' \in [1 .. MaxBuf -> Nat \X Nat]
            /\ got' = IF expect' = 0 THEN 0 ELSE got + n
            /\ IF expect' = 0 THEN Handles(script[p].packet) ELSE Waits
      BY <1>12, BodyIs
    <2>2. read' \in Nat /\ got' \in Nat /\ expect' \in Nat
      <3>1. read \in Nat /\ got \in Nat /\ expect \in Nat
        BY DEF Typed, ConnTyped, ReadTyped
      <3> QED BY <2>1, <3>1
    <2>3. /\ newServer' \in Servers \cup {None} /\ newCap' \in Caps \cup {None}
          /\ history' \in History /\ name' \in 0 .. NameLen /\ file' \in 0 .. NameLen
          /\ pc' \in {"store", "pass"} /\ wake' \in BOOLEAN /\ events' \in Nat
      <3>1. CASE Handles(script[p].packet)
        <4>1. script[p].packet \in Packet
          BY ItemIs
        <4> QED BY <3>1, <4>1, ProcessTyped, ProcessTypedRep DEF Handles, Typed, ConnTyped
      <3>2. CASE Waits
        BY <3>2 DEF Waits, Typed, ConnTyped, ReadTyped
      <3> QED BY <2>1, <3>1, <3>2
    <2>4. timeouts' \in 0 .. Patience
      BY <1>0, <1>12 DEF ReadBody, SlimprotoAssumption
    <2> QED BY <1>12, <2>1, <2>2, <2>3, <2>4 DEF ReadBody, Typed, ConnTyped, ReadTyped
  <1>13. CASE Closed
    BY <1>13, LeaveTyped DEF Closed, Typed, ConnTyped, ReadTyped
  <1>14. CASE Woken
    <2>1. timeouts' \in 0 .. Patience
      BY <1>0, <1>14 DEF Woken, SlimprotoAssumption
    <2> QED BY <1>14, <2>1 DEF Woken, Typed, ConnTyped, ReadTyped
  <1>15. CASE Silence
    <2>1. timeouts' \in 0 .. Patience
      <3>1. timeouts \in 0 .. Patience /\ Patience \in Nat
        BY <1>0 DEF Typed, ConnTyped, ReadTyped, SlimprotoAssumption
      <3> QED BY <1>15, <3>1 DEF Silence, Counted
    <2>2. pc' \in InRun \cup {"discover", "connect", "off"} /\ reconnect' \in BOOLEAN /\ link' \in Link
      BY <1>15, LeaveTyped DEF Silence, Typed, ConnTyped, ReadTyped
    <2> QED BY <1>15, <2>1, <2>2 DEF Silence, Typed, ConnTyped, ReadTyped
  <1>16. CASE Pass
    <2>1. /\ pc' \in InRun
          /\ UNCHANGED <<running, netVars, connVars, link, readVars, wake, events, nameVars, history>>
      BY <1>16 DEF Pass, PassS, PassD, PassO, PassClose, PassSend, PassEnds
    <2> QED BY <2>1 DEF Typed, ConnTyped, ReadTyped
  <1>19. CASE StoreName \/ WriteName
    <2>1. /\ pc' \in InRun
          /\ UNCHANGED <<running, netVars, connVars, link, readVars, repVars, name>>
      BY <1>19 DEF StoreName, WriteName
    <2>2. NameLen \in Nat /\ name \in 0 .. NameLen /\ file \in 0 .. NameLen
      BY <1>0 DEF SlimprotoAssumption, Typed, ConnTyped
    <2>3. file' \in 0 .. NameLen
      BY <1>19, <2>2 DEF StoreName, WriteName
    <2>4. history' \in History
      BY <1>19 DEF StoreName, WriteName, Typed, ConnTyped, History
    <2> QED BY <2>1, <2>3, <2>4 DEF Typed, ConnTyped, ReadTyped
  <1>17. CASE NoPass
    BY <1>17 DEF NoPass, Typed, ConnTyped, ReadTyped
  <1>18. CASE UNCHANGED vars
    BY <1>18 DEF vars, Typed, ConnTyped, ReadTyped
  <1> QED BY <1>1, <1>2, <1>3, <1>4, <1>5, <1>6, <1>7, <1>8, <1>9, <1>10, <1>11, <1>12, <1>13, <1>14, <1>15,
             <1>16, <1>17, <1>18, <1>19 DEF Next, Controller, Around
-----------------------------------------------------------------------------
(* What is read is what was sent, packet after packet.                      *)

LEMMA Appended ==
  ASSUME Typed, Tiled, Send
  PROVE  \E n \in Nat :
         /\ n = Len(script) + 1 /\ DOMAIN script = 1 .. n - 1 /\ Len(script) = n - 1
         /\ DOMAIN script' = 1 .. n /\ Len(script') = n /\ n > 0
         /\ \A p \in DOMAIN script : script'[p] = script[p] /\ LenOf(p)' = LenOf(p) /\ Ends(p)' = Ends(p)
         /\ script'[n].at = Sent
         /\ Ends(n)' \in Nat /\ Ends(n)' > Sent
         /\ Sent' = Ends(n)'
  <1>1. PICK m \in Packets : script' = Append(script, [at |-> Sent, packet |-> m])
    BY DEF Send
  <1>2. script \in Seq(Item) /\ [at |-> Sent, packet |-> m] \in Item
    BY SentIs DEF Typed, ConnTyped, ReadTyped, Item
  <1>3. PICK n \in Nat : n = Len(script) + 1
    BY <1>2
  <1>4. /\ n = Len(script) + 1 /\ DOMAIN script = 1 .. n - 1 /\ Len(script) = n - 1
        /\ DOMAIN script' = 1 .. n /\ Len(script') = n /\ n > 0
    BY <1>1, <1>2, <1>3
  <1>5. \A p \in DOMAIN script : script'[p] = script[p]
    BY <1>1, <1>2
  <1>6. \A p \in DOMAIN script : LenOf(p)' = LenOf(p) /\ Ends(p)' = Ends(p)
    BY <1>5 DEF LenOf, Ends
  <1>7. script'[n].at = Sent /\ script'[n].packet = m
    BY <1>1, <1>2, <1>3
  <1>8. m.len \in Nat /\ Sent \in Nat
    BY SentIs, SlimprotoAssumption DEF Packet, SlimprotoAssumption
  <1>9. Ends(n)' = Sent + 2 + m.len
    BY <1>7 DEF Ends, LenOf
  <1>10. Sent' = Ends(n)'
    <2>1. script' # <<>>
      BY <1>1, <1>2
    <2>2. Sent' = Ends(Len(script))'
      BY <2>1 DEF Sent
    <2> QED BY <1>4, <2>2 DEF Ends, LenOf
  <1> QED BY <1>4, <1>5, <1>6, <1>7, <1>8, <1>9, <1>10

LEMMA SendKeeps ==
  ASSUME Typed, Tiled, Reading, HandledInOrder, Send
  PROVE  Tiled' /\ Reading' /\ HandledInOrder'
  <1>1. PICK n \in Nat :
        /\ n = Len(script) + 1 /\ DOMAIN script = 1 .. n - 1 /\ Len(script) = n - 1
        /\ DOMAIN script' = 1 .. n /\ Len(script') = n /\ n > 0
        /\ \A p \in DOMAIN script : script'[p] = script[p] /\ LenOf(p)' = LenOf(p) /\ Ends(p)' = Ends(p)
        /\ script'[n].at = Sent /\ Ends(n)' > Sent /\ Sent' = Ends(n)' /\ Ends(n)' \in Nat
    BY Appended
  <1>2. Sent \in Nat /\ \A p \in DOMAIN script : Ends(p) <= Sent
    BY SentIs
  <1>3. UNCHANGED <<pc, read, buffer, got, expect, handled>>
    BY DEF Send, readVars
  <1>4. Tiled'
    <2>1. script'[1].at = 0
      <3>1. CASE script = <<>>
        <4>1. n = 1 /\ Sent = 0
          BY <1>1, <3>1 DEF Sent
        <4> QED BY <1>1, <4>1
      <3>2. CASE script # <<>>
        BY <1>1, <3>2 DEF Tiled, Typed, ConnTyped, ReadTyped
      <3> QED BY <3>1, <3>2
    <2>2. ASSUME NEW p \in DOMAIN script', p > 1 PROVE script'[p].at = Ends(p - 1)'
      <3>1. CASE p = n
        <4>1. p - 1 = Len(script) /\ p - 1 \in DOMAIN script /\ script # <<>>
          BY <1>1, <2>2, <3>1 DEF Typed, ConnTyped, ReadTyped
        <4>2. Ends(p - 1) = Sent
          BY <1>1, <4>1 DEF Sent
        <4> QED BY <1>1, <3>1, <4>1, <4>2
      <3>2. CASE p # n
        <4>1. p \in DOMAIN script /\ p - 1 \in DOMAIN script
          BY <1>1, <2>2, <3>2
        <4> QED BY <1>1, <2>2, <4>1 DEF Tiled
      <3> QED BY <3>1, <3>2
    <2>3. ASSUME NEW p \in DOMAIN script', NEW q \in DOMAIN script', p < q PROVE Ends(p)' <= script'[q].at
      <3>1. p \in DOMAIN script
        BY <1>1, <2>3
      <3>2. CASE q = n
        BY <1>1, <1>2, <3>1, <3>2
      <3>3. CASE q # n
        <4>1. q \in DOMAIN script
          BY <1>1, <3>3
        <4> QED BY <1>1, <2>3, <3>1, <4>1 DEF Tiled
      <3> QED BY <3>2, <3>3
    <2> QED BY <2>1, <2>2, <2>3 DEF Tiled
  <1>5. Reading'
    <2>1. read' <= Sent'
      BY <1>1, <1>2, <1>3 DEF Reading, Typed, ConnTyped, ReadTyped
    <2>2. ASSUME pc \in InRun PROVE \E p \in 1 .. n + 1 : InLength(p)' \/ InBody(p)'
      <3>1. PICK p \in 1 .. n : InLength(p) \/ InBody(p)
        BY <1>1, <2>2 DEF Reading
      <3>2. At(p)' = At(p) /\ p \in DOMAIN script' /\ p \in 1 .. n + 1
        BY <1>1 DEF At
      <3>3. CASE InLength(p)
        BY <1>3, <3>2, <3>3 DEF InLength
      <3>4. CASE InBody(p)
        BY <1>1, <1>3, <3>2, <3>4 DEF InBody, Valid
      <3> QED BY <3>1, <3>2, <3>3, <3>4
    <2> QED BY <1>1, <1>3, <2>1, <2>2 DEF Reading
  <1>6. HandledInOrder'
    <2>1. Whole' = Whole
      <3>1. ~(Ends(n)' <= read)
        BY <1>1, <1>2 DEF Reading, Typed, ConnTyped, ReadTyped
      <3>2. \A p \in DOMAIN script : p \in DOMAIN script' /\ Ends(p)' = Ends(p)
        BY <1>1
      <3>3. \A p \in DOMAIN script' : p \in DOMAIN script \/ p = n
        BY <1>1
      <3> QED BY <1>3, <3>1, <3>2, <3>3 DEF Whole
    <2>2. \A p \in Whole : ToHandle(p)' = ToHandle(p) /\ BodyOf(p)' = BodyOf(p)
      BY <1>1 DEF Whole, ToHandle, BodyOf, LenOf
    <2> QED BY <1>3, <2>1, <2>2 DEF HandledInOrder
  <1> QED BY <1>4, <1>5, <1>6

\* The packets before the one being read are whole, those after it are not.
LEMMA BeforeAndAfter ==
  ASSUME Typed, Tiled, NEW p \in DOMAIN script, NEW q \in DOMAIN script
  PROVE  /\ q < p => Ends(q) <= script[p].at
         /\ q > p => Ends(q) > Ends(p)
         /\ p \in Nat /\ q \in Nat
  <1>1. /\ p \in Nat /\ q \in Nat /\ script[q].at \in Nat /\ LenOf(q) \in Nat
        /\ Ends(p) \in Nat /\ Ends(q) = script[q].at + 2 + LenOf(q)
    BY ItemIs
  <1>2. q < p => Ends(q) <= script[p].at
    BY DEF Tiled
  <1>3. q > p => Ends(p) <= script[q].at
    BY <1>1 DEF Tiled
  <1> QED BY <1>1, <1>2, <1>3

LEMMA LengthKeeps ==
  ASSUME Typed, Tiled, Reading, HandledInOrder, ReadLength
  PROVE  Tiled' /\ Reading' /\ HandledInOrder'
  <1>1. PICK p \in DOMAIN script, n \in 1 .. 2 - got :
           /\ expect = 0 /\ got < 2 /\ read = script[p].at + got /\ read' = read + n
           /\ buffer'[1] = <<p, 1>>
           /\ IF got + n < 2 THEN /\ got' = got + n /\ pc' = "pass" /\ UNCHANGED <<expect, reconnect, link>>
              ELSE /\ got' = 0 /\ expect' = LenOf(p)
                   /\ IF Valid(expect') THEN pc' = "pass" /\ UNCHANGED <<reconnect, link>> ELSE Leave
    BY LengthIs
  <1>2. UNCHANGED <<script, handled>>
    BY DEF ReadLength, netVars
  <1>3. /\ got \in Nat /\ read \in Nat /\ script[p].at \in Nat /\ LenOf(p) \in Nat /\ p \in Nat /\ MinLen \in Nat \ {0}
        /\ Ends(p) = script[p].at + 2 + LenOf(p) /\ p \in 1 .. Len(script) + 1 /\ Ends(p) \in Nat
    <2>1. script \in Seq(Item) /\ got \in Nat /\ read \in Nat
      BY DEF Typed, ReadTyped
    <2>2. p \in 1 .. Len(script) + 1
      BY <2>1
    <2> QED BY <2>1, <2>2, ItemIs, SlimprotoAssumption DEF SlimprotoAssumption
  <1>10. PICK a \in Nat, l \in Nat, e \in Nat : a = script[p].at /\ l = LenOf(p) /\ e = Ends(p)
    BY <1>3
  <1>11. /\ n \in 1 .. 2 - got /\ got \in Nat /\ read \in Nat /\ read' \in Nat
         /\ read = a + got /\ read' = read + n /\ e = a + 2 + l /\ got < 2
    <2>1. /\ n \in 1 .. 2 - got /\ got \in Nat /\ read \in Nat
          /\ read = a + got /\ read' = read + n /\ e = a + 2 + l /\ got < 2
      BY <1>1, <1>3, <1>10
    <2> QED BY <2>1
  <1>4. read' <= a + 2 /\ read' >= read /\ read >= a
    BY <1>11
  <1>5. Tiled' /\ Sent' = Sent /\ At(p)' = script[p].at
    BY <1>2 DEF Tiled, Sent, Ends, LenOf, At
  <1>6. Reading'
    <2>1. read' <= Sent'
      <3>1. Ends(p) <= Sent /\ Sent \in Nat
        BY SentIs
      <3>2. e <= Sent /\ Sent' = Sent
        BY <1>5, <1>10, <3>1
      <3> QED BY <1>4, <1>11, <3>1, <3>2
    <2>2. CASE got + n < 2
      <3>0. got + n = 1
        BY <1>11, <2>2
      <3>1. got' = 1 /\ expect' = 0 /\ read' = script[p].at + 1
        <4>1. read' = a + 1
          BY <1>11, <3>0
        <4> QED BY <1>1, <1>10, <2>2, <3>0, <4>1
      <3>2. InLength(p)'
        BY <1>1, <1>2, <1>5, <3>1 DEF InLength
      <3> QED BY <1>2, <1>3, <2>1, <3>2 DEF Reading
    <2>3. CASE ~(got + n < 2) /\ Valid(LenOf(p))
      <3>1. got' = 0 /\ expect' = LenOf(p) /\ read' = script[p].at + 2 /\ LenOf(p)' = LenOf(p)
        BY <1>1, <1>2, <1>3, <2>3 DEF LenOf
      <3>2. expect' > 0
        BY <1>3, <2>3, <3>1 DEF Valid
      <3>3. InBody(p)'
        BY <1>2, <1>3, <1>5, <2>3, <3>1, <3>2 DEF InBody, Valid
      <3> QED BY <1>2, <1>3, <2>1, <3>3 DEF Reading
    <2>4. CASE ~(got + n < 2) /\ ~Valid(LenOf(p))
      <3>1. pc' = "connect"
        BY <1>1, <2>4, LeaveTyped
      <3> QED BY <1>2, <2>1, <3>1 DEF Reading, InRun
    <2> QED BY <2>2, <2>3, <2>4
  <1>7. ASSUME NEW q \in Whole' PROVE q \in Whole \/ ~ToHandle(q)
    <2>1. q \in DOMAIN script /\ Ends(q) <= read'
      BY <1>2 DEF Whole, Ends, LenOf
    <2>2. /\ q < p => Ends(q) <= script[p].at
          /\ q > p => Ends(q) > Ends(p)
          /\ q \in Nat /\ Ends(q) \in Nat /\ LenOf(q) \in Nat
      BY <2>1, BeforeAndAfter, ItemIs
    <2>6. PICK o \in Nat : o = Ends(q)
      BY <2>2
    <2>7. o <= read' /\ (q < p => o <= a) /\ (q > p => o > e)
      BY <1>10, <2>1, <2>2, <2>6
    <2>3. CASE q < p
      <3>1. o <= read
        BY <1>4, <1>11, <2>3, <2>7
      <3> QED BY <2>1, <2>6, <3>1 DEF Whole
    <2>4. CASE q = p
      <3>1. LenOf(p) = 0
        <4>1. e <= read'
          BY <1>10, <2>1, <2>4
        <4>2. l = 0
          BY <1>4, <1>11, <4>1
        <4> QED BY <1>10, <4>2
      <3> QED BY <1>3, <2>4, <3>1 DEF ToHandle, MinOf
    <2>5. CASE q > p
      <3>1. FALSE
        BY <1>4, <1>11, <2>5, <2>7
      <3> QED BY <3>1
    <2> QED BY <1>3, <2>2, <2>3, <2>4, <2>5
  <1>8. Whole \subseteq Whole'
    <2>1. ASSUME NEW q \in Whole PROVE q \in Whole'
      <3>1. q \in DOMAIN script /\ Ends(q) <= read /\ Ends(q) \in Nat
        BY ItemIs DEF Whole
      <3>2. Ends(q)' = Ends(q) /\ Ends(q) <= read'
        BY <1>1, <1>2, <1>3, <1>4, <3>1 DEF Ends, LenOf
      <3> QED BY <1>2, <3>1, <3>2 DEF Whole
    <2> QED BY <2>1
  <1>9. HandledInOrder'
    <2>1. \A q : ToHandle(q)' = ToHandle(q) /\ BodyOf(q)' = BodyOf(q)
      BY <1>2 DEF ToHandle, BodyOf, LenOf
    <2> QED BY <1>2, <1>7, <1>8, <2>1 DEF HandledInOrder
  <1> QED BY <1>5, <1>6, <1>9

LEMMA BodyIsSubSeq ==
  ASSUME NEW m \in Nat, NEW b \in [1 .. m -> Nat \X Nat], NEW k \in 0 .. m
  PROVE  SubSeq(b, 1, k) \in Seq(Nat \X Nat) /\ SubSeq(b, 1, k) = [j \in 1 .. k |-> b[j]]
  <1>1. b \in Seq(Nat \X Nat) /\ Len(b) = m
    OBVIOUS
  <1>2. SubSeq(b, 1, k) \in Seq(Nat \X Nat) /\ Len(SubSeq(b, 1, k)) = k
    BY <1>1
  <1>3. \A j \in 1 .. k : SubSeq(b, 1, k)[j] = b[j]
    BY <1>1
  <1> QED BY <1>2, <1>3

LEMMA BodyKeeps ==
  ASSUME Typed, Tiled, Reading, HandledInOrder, ReadBody
  PROVE  Tiled' /\ Reading' /\ HandledInOrder'
  <1>1. PICK p \in DOMAIN script, n \in 1 .. expect :
           /\ InBody(p) /\ read = script[p].at + 2 + got /\ read' = read + n /\ expect' = expect - n
           /\ buffer' \in [1 .. MaxBuf -> Nat \X Nat]
           /\ \A j \in 1 .. got + n : buffer'[j] = <<p, j + 2>>
           /\ got' = IF expect' = 0 THEN 0 ELSE got + n
           /\ IF expect' = 0 THEN Handles(script[p].packet) ELSE Waits
    BY BodyIs
  <1>2. UNCHANGED script
    BY DEF ReadBody, netVars
  <1>3. /\ got \in Nat /\ expect \in Nat /\ read \in Nat /\ script[p].at \in Nat /\ LenOf(p) \in Nat /\ p \in Nat
        /\ Ends(p) = script[p].at + 2 + LenOf(p) /\ p \in 1 .. Len(script) /\ Ends(p) \in Nat
        /\ MinLen \in Nat \ {0} /\ MaxBuf \in Nat
    <2>1. script \in Seq(Item) /\ got \in Nat /\ read \in Nat /\ expect \in Nat
      BY DEF Typed, ReadTyped
    <2>2. p \in 1 .. Len(script)
      BY <2>1
    <2> QED BY <2>1, <2>2, ItemIs, SlimprotoAssumption DEF SlimprotoAssumption
  <1>4. got + expect = LenOf(p) /\ LenOf(p) <= MaxBuf
    BY <1>1 DEF InBody, Valid
  <1>10. PICK a \in Nat, l \in Nat, e \in Nat : a = script[p].at /\ l = LenOf(p) /\ e = Ends(p)
    BY <1>3
  <1>11. /\ n \in 1 .. expect /\ got \in Nat /\ expect \in Nat /\ read \in Nat /\ read' \in Nat
         /\ read = a + 2 + got /\ read' = read + n /\ e = a + 2 + l /\ got + expect = l
         /\ expect' = expect - n
    <2>1. /\ n \in 1 .. expect /\ got \in Nat /\ expect \in Nat /\ read \in Nat
          /\ read = a + 2 + got /\ read' = read + n /\ e = a + 2 + l /\ got + expect = l
          /\ expect' = expect - n
      BY <1>1, <1>3, <1>4, <1>10
    <2> QED BY <2>1
  <1>12. read' <= e /\ read < e /\ a <= read /\ read < read'
    BY <1>11
  <1>5. Tiled' /\ Sent' = Sent /\ \A q : At(q)' = At(q) /\ LenOf(q)' = LenOf(q) /\ Ends(q)' = Ends(q)
    BY <1>2 DEF Tiled, Sent, Ends, LenOf, At
  <1>6. At(p) = script[p].at
    BY DEF At
  <1>7. read' <= Sent'
    <2>1. Ends(p) <= Sent /\ Sent \in Nat
      BY SentIs
    <2>2. e <= Sent /\ Sent' = Sent
      BY <1>5, <1>10, <2>1
    <2> QED BY <1>11, <1>12, <2>1, <2>2
  <1>8. CASE n < expect
    <2>1. expect' > 0 /\ expect' # 0 /\ got' = got + n /\ handled' = handled /\ got' + expect' = LenOf(p)
          /\ read' = script[p].at + 2 + got' /\ read' < Ends(p)
      <3>1. /\ expect' > 0 /\ expect' # 0 /\ got + n + expect' = l /\ got + n \in Nat
            /\ read' = a + 2 + (got + n) /\ read' < e
        BY <1>8, <1>11
      <3> QED BY <1>1, <1>10, <3>1 DEF Waits
    <2>2. InBody(p)'
      BY <1>1, <1>2, <1>5, <1>6, <2>1 DEF InBody, Valid
    <2>3. Reading'
      BY <1>2, <1>3, <1>7, <2>1, <2>2 DEF Reading
    <2>4. ASSUME NEW q \in DOMAIN script PROVE Ends(q) <= read' <=> Ends(q) <= read
      <3>1. /\ q < p => Ends(q) <= script[p].at
            /\ q > p => Ends(q) > Ends(p)
            /\ q \in Nat /\ Ends(q) \in Nat
        BY BeforeAndAfter, ItemIs
      <3>2. PICK o \in Nat : o = Ends(q)
        BY <3>1
      <3>3. (q < p => o <= a) /\ (q > p => o > e) /\ (q = p => o = e) /\ read' < e
        BY <1>10, <2>1, <3>1, <3>2
      <3>4. o <= read' <=> o <= read
        BY <1>3, <1>11, <1>12, <3>1, <3>3
      <3> QED BY <3>2, <3>4
    <2>5. Whole' = Whole
      BY <1>2, <1>5, <2>4 DEF Whole
    <2>6. \A q : ToHandle(q)' = ToHandle(q) /\ BodyOf(q)' = BodyOf(q)
      BY <1>2 DEF ToHandle, BodyOf, LenOf
    <2> QED BY <1>5, <2>1, <2>3, <2>5, <2>6 DEF HandledInOrder
  <1>9. CASE n = expect
    <2>1. expect' = 0 /\ got' = 0 /\ read' = Ends(p) /\ Process(script[p].packet) /\ got + n = LenOf(p)
      <3>1. expect' = 0 /\ read' = e /\ got + n = l
        BY <1>9, <1>11
      <3> QED BY <1>1, <1>10, <3>1 DEF Handles
    <2>2. InLength(p + 1)' /\ p + 1 \in 1 .. Len(script) + 1
      <3>1. At(p + 1) = Ends(p)
        <4>1. CASE p + 1 \in DOMAIN script
          <5>1. p \in Nat /\ p >= 1
            BY <1>3
          <5>2. p + 1 > 1 /\ (p + 1) - 1 = p
            BY <5>1
          <5>3. script[p + 1].at = Ends((p + 1) - 1)
            BY <4>1, <5>2 DEF Tiled
          <5> QED BY <4>1, <5>2, <5>3 DEF At
        <4>2. CASE p + 1 \notin DOMAIN script
          <5>1. p = Len(script) /\ script # <<>>
            BY <1>3, <4>2 DEF Typed, ReadTyped
          <5> QED BY <4>2, <5>1 DEF At, Sent
        <4> QED BY <4>1, <4>2
      <3>2. p + 1 \in 1 .. Len(script) + 1
        <4>1. script \in Seq(Item)
          BY DEF Typed, ReadTyped
        <4> QED BY <1>3, <4>1
      <3>3. At(p + 1)' = Ends(p)
        BY <1>2, <3>1 DEF At, Sent, Ends, LenOf
      <3> QED BY <1>3, <2>1, <3>2, <3>3 DEF InLength
    <2>3. Whole' = Whole \cup {p} /\ \A q \in Whole : q < p /\ q \in DOMAIN script
      <3>1. ASSUME NEW q \in DOMAIN script
            PROVE  /\ Ends(q) <= read' <=> Ends(q) <= read \/ q = p
                   /\ Ends(q) <= read => q < p
        <4>1. /\ q < p => Ends(q) <= script[p].at
              /\ q > p => Ends(q) > Ends(p)
              /\ q \in Nat /\ Ends(q) \in Nat
          BY BeforeAndAfter, ItemIs
        <4>2. PICK o \in Nat : o = Ends(q)
          BY <4>1
        <4>3. (q < p => o <= a) /\ (q > p => o > e) /\ (q = p => o = e) /\ read' = e
          BY <1>10, <2>1, <4>1, <4>2
        <4>4. q < p \/ q = p \/ q > p
          BY <1>3, <4>1
        <4>5. (q < p => o <= read /\ o <= read' /\ q # p) /\ (q = p => ~(o <= read) /\ o <= read')
          BY <1>3, <1>11, <1>12, <4>1, <4>3
        <4>6. q > p => ~(o <= read) /\ ~(o <= read') /\ q # p
          BY <1>3, <1>11, <1>12, <4>1, <4>3
        <4> QED BY <4>2, <4>4, <4>5, <4>6
      <3> QED BY <1>2, <1>5, <3>1 DEF Whole
    <2>4. \A q : ToHandle(q)' = ToHandle(q) /\ BodyOf(q)' = BodyOf(q)
      BY <1>2 DEF ToHandle, BodyOf, LenOf
    <2>5. handled \in Seq(Seq(Nat \X Nat))
      BY DEF Reading
    <2>6. CASE ~ToHandle(p)
      <3>1. handled' = handled
        BY <2>1, <2>6 DEF Process, ToHandle, LenOf
      <3>2. Reading'
        BY <1>2, <1>7, <2>2, <2>5, <3>1 DEF Reading
      <3> QED BY <1>5, <2>3, <2>4, <2>6, <3>1, <3>2 DEF HandledInOrder
    <2>7. CASE ToHandle(p)
      <3> DEFINE body == SubSeq(buffer', 1, got + expect)
      <3>1. handled' = Append(handled, body)
        BY <2>1, <2>7 DEF Process, ToHandle, LenOf
      <3>2. body \in Seq(Nat \X Nat) /\ body = BodyOf(p)
        <4>1. got + expect \in 0 .. MaxBuf
          BY <1>3, <1>4
        <4>2. body \in Seq(Nat \X Nat) /\ body = [j \in 1 .. got + expect |-> buffer'[j]]
          <5>1. PICK b \in [1 .. MaxBuf -> Nat \X Nat], k \in 0 .. MaxBuf : b = buffer' /\ k = got + expect
            BY <1>1, <4>1
          <5>2. SubSeq(b, 1, k) \in Seq(Nat \X Nat) /\ SubSeq(b, 1, k) = [j \in 1 .. k |-> b[j]]
            BY <1>3, BodyIsSubSeq
          <5> QED BY <5>1, <5>2
        <4>3. \A j \in 1 .. got + expect : buffer'[j] = <<p, j + 2>>
          BY <1>1, <1>9
        <4> QED BY <1>4, <4>2, <4>3 DEF BodyOf
      <3> HIDE DEF body
      <3>3. Reading'
        BY <1>2, <1>7, <2>2, <2>5, <3>1, <3>2 DEF Reading
      <3>4. /\ DOMAIN handled = 1 .. Len(handled) /\ Len(handled) \in Nat
            /\ DOMAIN handled' = 1 .. Len(handled) + 1
            /\ \A i \in DOMAIN handled : handled'[i] = handled[i]
            /\ handled'[Len(handled) + 1] = BodyOf(p)
        BY <2>5, <3>1, <3>2
      <3>5. \A i \in DOMAIN handled' : \E q \in Whole \cup {p} : ToHandle(q) /\ handled'[i] = BodyOf(q)
        <4>1. \A i \in DOMAIN handled' : i \in DOMAIN handled \/ i = Len(handled) + 1
          BY <3>4
        <4>2. \A i \in DOMAIN handled : \E q \in Whole : ToHandle(q) /\ handled'[i] = BodyOf(q)
          BY <3>4 DEF HandledInOrder
        <4> QED BY <2>7, <3>4, <4>1, <4>2
      <3>6. \A q \in Whole \cup {p} : ToHandle(q) => \E i \in DOMAIN handled' : handled'[i] = BodyOf(q)
        <4>1. Len(handled) + 1 \in DOMAIN handled' /\ DOMAIN handled \subseteq DOMAIN handled'
          BY <3>4
        <4>2. \A q \in Whole : ToHandle(q) => \E i \in DOMAIN handled : handled[i] = BodyOf(q)
          BY DEF HandledInOrder
        <4> QED BY <3>4, <4>1, <4>2
      <3>7. \A i, j \in DOMAIN handled' : i < j => handled'[i][1][1] < handled'[j][1][1]
        <4>1. \A q \in DOMAIN script : ToHandle(q) => BodyOf(q)[1][1] = q
          <5>1. \A q \in DOMAIN script : ToHandle(q) => LenOf(q) \in Nat /\ LenOf(q) >= 1
            BY <1>3, ItemIs DEF ToHandle, MinOf
          <5> QED BY <5>1 DEF BodyOf
        <4>2. ASSUME NEW i \in DOMAIN handled PROVE handled'[i][1][1] < handled'[Len(handled) + 1][1][1]
          <5>1. PICK q \in Whole : ToHandle(q) /\ handled[i] = BodyOf(q)
            BY DEF HandledInOrder
          <5>2. handled'[i][1][1] = q /\ q < p
            BY <2>3, <3>4, <4>1, <5>1
          <5>3. handled'[Len(handled) + 1][1][1] = p
            BY <2>7, <3>4, <4>1
          <5> QED BY <5>2, <5>3
        <4>3. \A i, j \in DOMAIN handled : i < j => handled'[i][1][1] < handled'[j][1][1]
          BY <3>4 DEF HandledInOrder
        <4>4. \A i, j \in DOMAIN handled' : i < j => i \in DOMAIN handled /\ (j \in DOMAIN handled \/ j = Len(handled) + 1)
          BY <3>4
        <4> QED BY <4>2, <4>3, <4>4
      <3> QED BY <1>5, <2>3, <2>4, <3>3, <3>5, <3>6, <3>7 DEF HandledInOrder
    <2> QED BY <2>6, <2>7
  <1> QED BY <1>1, <1>3, <1>8, <1>9

\* Nothing else is read or handled, and a new connection begins with nothing.
LEMMA ReadingStep ==
  ASSUME Typed, Tiled, Reading, HandledInOrder, [Next]_vars
  PROVE  Tiled' /\ Reading' /\ HandledInOrder'
  <1>1. CASE Connect \/ Restart
    <2>1. script' = <<>> /\ read' = 0 /\ handled' = <<>> /\ got' = 0 /\ expect' = 0
      BY <1>1 DEF Connect, Restart
    <2>2. Tiled'
      BY <2>1 DEF Tiled
    <2>3. Sent' = 0 /\ At(1)' = 0
      BY <2>1 DEF Sent, At
    <2>4. InLength(1)'
      BY <2>1, <2>3 DEF InLength
    <2>5. Reading'
      BY <2>1, <2>3, <2>4 DEF Reading
    <2>6. HandledInOrder'
      BY <2>1 DEF HandledInOrder, Whole
    <2> QED BY <2>2, <2>5, <2>6
  <1>2. CASE UNCHANGED <<script, read, buffer, got, expect, handled>> /\ (pc' \in InRun => pc \in InRun)
    <2>1. Tiled' /\ Sent' = Sent /\ Whole' = Whole
      BY <1>2 DEF Tiled, Sent, Ends, LenOf, Whole
    <2>2. \A q : /\ InLength(q)' = InLength(q) /\ InBody(q)' = InBody(q)
                 /\ ToHandle(q)' = ToHandle(q) /\ BodyOf(q)' = BodyOf(q)
      BY <1>2 DEF InLength, InBody, At, Sent, Ends, LenOf, Valid, ToHandle, BodyOf
    <2>3. Reading' /\ HandledInOrder'
      BY <1>2, <2>1, <2>2 DEF Reading, HandledInOrder
    <2> QED BY <2>1, <2>3
  <1>3. CASE Fault \/ Happens \/ SlimprotoStop \/ Discover \/ CannotConnect \/ ConnectStopped \/ LoopTop
               \/ Closed \/ Woken \/ Silence \/ Pass \/ NoPass \/ StoreName \/ WriteName \/ UNCHANGED vars
    <2>1. CASE Happens
      BY <1>2, <2>1 DEF Happens, HeadersArrive, MetaArrives, TrackStarts, DecodeEnds, StreamEnds, Raise, netVars, readVars
    <2>2. CASE Pass
      <3>1. UNCHANGED <<script, read, buffer, got, expect, handled>> /\ pc \in InRun
        BY <2>2 DEF Pass, PassS, PassD, PassO, PassClose, PassSend, PassEnds, netVars, readVars, InRun
      <3> QED BY <1>2, <3>1
    <2>3. CASE Fault \/ SlimprotoStop \/ Discover \/ CannotConnect \/ ConnectStopped \/ LoopTop
               \/ Closed \/ Woken \/ Silence \/ NoPass \/ StoreName \/ WriteName \/ UNCHANGED vars
      <3>1. UNCHANGED <<script, read, buffer, got, expect, handled>> /\ (pc' \in InRun => pc \in InRun)
        BY <2>3, LeaveTyped DEF Fault, SlimprotoStop, Discover, CannotConnect, ConnectStopped, LoopTop,
           Closed, Woken, Silence, NoPass, StoreName, WriteName, vars, netVars, readVars, InRun
      <3> QED BY <1>2, <3>1
    <2> QED BY <1>3, <2>1, <2>2, <2>3
  <1> QED BY <1>1, <1>3, SendKeeps, LengthKeeps, BodyKeeps DEF Next, Controller, Around
-----------------------------------------------------------------------------
(* What is connected to, what is announced there, and the player's name.    *)

Aside == <<home, server, newServer, newCap, failed, name, file>>

LEMMA SteadyKeeps ==
  ASSUME Typed, Settled, UNCHANGED <<Aside, history, reconnect, link.peer, link.helo>>,
         pc' = pc \/ {pc, pc'} \subseteq InRun \ Storing \/ (pc = "connect" /\ pc' = "off")
  PROVE  Settled'
  <1>1. /\ pc' \in InRun <=> pc \in InRun
        /\ pc' \notin Storing => pc \notin Storing
        /\ pc' = "write" => pc = "write"
        /\ pc' = "connect" => pc = "connect"
        /\ pc' = "discover" => pc = "discover"
    BY DEF InRun, Storing
  <1>2. /\ link'.peer = link.peer /\ link'.helo = link.helo /\ history' = history /\ reconnect' = reconnect
        /\ home' = home /\ server' = server /\ newServer' = newServer /\ newCap' = newCap /\ failed' = failed
        /\ name' = name /\ file' = file
    BY DEF Aside
  <1>3. Linked'
    BY <1>1, <1>2 DEF Settled, Linked, LastHere
  <1>4. Switched'
    BY <1>1, <1>2 DEF Settled, Switched
  <1>5. HeloIsTrue' /\ NameSaved'
    BY <1>1, <1>2 DEF Settled, HeloIsTrue, NameSaved
  <1> QED BY <1>3, <1>4, <1>5 DEF Settled

\* The next connection is a reconnection to the server that is left.
LEMMA LeaveKeeps ==
  ASSUME Typed, Settled, UNCHANGED <<Aside, history>>, Leave, pc \in InRun \ Storing
  PROVE  Settled'
  <1>1. /\ pc' = "connect" /\ reconnect' = TRUE /\ link' = NoLink /\ NoLink.peer = None
        /\ home' = home /\ server' = server /\ newServer' = newServer /\ newCap' = newCap /\ failed' = failed
        /\ name' = name /\ file' = file /\ history' = history
    BY DEF Leave, Aside, NoLink
  <1>2. link.peer # None /\ server # None /\ history.here = server
    BY DEF Settled, Linked
  <1>3. Linked'
    BY <1>1, <1>2 DEF Settled, Linked, InRun, LastHere
  <1>4. Switched'
    BY <1>1, <1>2 DEF Settled, Switched
  <1>5. HeloIsTrue' /\ NameSaved'
    BY <1>1 DEF Settled, HeloIsTrue, NameSaved
  <1> QED BY <1>3, <1>4, <1>5 DEF Settled

\* The name is stored, or cannot be.
LEMMA StoreKeeps ==
  ASSUME Typed, Settled, StoreName \/ WriteName
  PROVE  Settled'
  <1>1. /\ pc \in Storing /\ pc' \in {"write", "pass"} /\ history \in History
        /\ UNCHANGED <<home, server, newServer, newCap, reconnect, failed, link, name>>
    BY DEF StoreName, WriteName, Storing, connVars, netVars, Typed, ConnTyped
  <1>2. /\ history'.here = history.here /\ history'.prior = history.prior /\ history'.served = history.served
        /\ history'.serv = history.serv
    BY <1>1 DEF StoreName, WriteName, History
  <1>3. Linked' /\ Switched'
    BY <1>1, <1>2 DEF Settled, Linked, Switched, InRun, Storing
  <1>4. HeloIsTrue'
    BY <1>1, <1>2 DEF Settled, HeloIsTrue
  <1>5. NameSaved'
    BY <1>1 DEF StoreName, WriteName, NameSaved, History, Storing
  <1> QED BY <1>3, <1>4, <1>5 DEF Settled

LEMMA ProcessKeeps ==
  ASSUME Typed, Settled, NEW p \in Packet, Handles(p), pc = "wait",
         UNCHANGED <<home, server, failed, reconnect, link>>
  PROVE  Settled'
  <1>1. /\ link.peer # None /\ history.here # None /\ history \in History
        /\ pc' \in InRun /\ pc' # "write" /\ pc \in InRun /\ (pc' \notin Storing => ~Renames(p))
    BY DEF Settled, Linked, Typed, ConnTyped, Handles, InRun, Storing
  <1>2. CASE ProcessServ(p)
    <2>1. /\ history'.here = history.here /\ history'.prior = history.prior /\ history'.served = history.served
          /\ history'.unsaved = history.unsaved
          /\ history'.serv = [asked |-> TRUE, to |-> p.to, cap |-> p.cap]
      BY <1>1, <1>2 DEF ProcessServ, History
    <2>2. newServer' = p.to /\ newCap' = p.cap /\ name' = name /\ file' = file
      BY <1>2 DEF ProcessServ, nameVars
    <2>3. Linked'
      BY <1>1, <2>1 DEF Settled, Linked, InRun
    <2>4. Switched'
      BY <1>1, <2>1, <2>2 DEF Switched, InRun
    <2>5. HeloIsTrue' /\ NameSaved'
      BY <1>1, <2>1, <2>2 DEF Settled, HeloIsTrue, NameSaved, Storing
    <2> QED BY <2>3, <2>4, <2>5 DEF Settled
  <1>3. CASE p.op = "setd" /\ ProcessSetd(p)
    <2>1. UNCHANGED <<newServer, newCap, file, history>> /\ (pc' \notin Storing => name' = name)
      BY <1>1, <1>3 DEF ProcessSetd, Renames
    <2>2. Linked' /\ Switched'
      BY <1>1, <2>1 DEF Settled, Linked, Switched, InRun
    <2>3. HeloIsTrue' /\ NameSaved'
      BY <1>1, <2>1 DEF Settled, HeloIsTrue, NameSaved, Storing
    <2> QED BY <2>2, <2>3 DEF Settled
  <1>4. CASE p.op # "setd" /\ UNCHANGED <<newServer, newCap, nameVars, history>>
    <2>1. UNCHANGED <<Aside, history, reconnect, link.peer, link.helo>> /\ pc' = "pass"
      BY <1>4 DEF nameVars, Aside, Handles, Renames
    <2> QED BY <2>1, SteadyKeeps DEF InRun, Storing
  <1>5. ProcessServ(p) \/ (p.op = "setd" /\ ProcessSetd(p))
          \/ (p.op # "setd" /\ UNCHANGED <<newServer, newCap, nameVars, history>>)
    BY DEF Handles, Process, ProcessStrm
  <1> QED BY <1>2, <1>3, <1>4, <1>5

LEMMA ConnectKeeps ==
  ASSUME Typed, Settled, Connect
  PROVE  Settled'
  <1>1. /\ server \in Servers \cup {None} /\ newServer \in Servers \cup {None} /\ history \in History
        /\ reconnect \in BOOLEAN /\ up \subseteq Servers /\ None \notin Servers
    BY SlimprotoAssumption DEF Typed, ConnTyped, SlimprotoAssumption
  <1>2. /\ link' = [peer |-> Target, alive |-> TRUE, closed |-> FALSE,
                    helo |-> [reconnect |-> Says, cap |-> newCap]]
        /\ history' = [history EXCEPT !.here = Target, !.prior = history.here,
                                      !.served = history.serv, !.serv = NoSwitch]
    BY DEF Connect, NoLink
  <1>3. /\ link'.peer = Target /\ link'.helo.reconnect = Says /\ link'.helo.cap = newCap
        /\ history'.here = Target /\ history'.prior = history.here /\ history'.served = history.serv
        /\ history'.serv = NoSwitch /\ history'.unsaved = history.unsaved
    BY <1>1, <1>2 DEF History
  <1>4. /\ Target \in Servers /\ Target # None /\ pc = "connect" /\ pc' = "loop" /\ server' = Target
        /\ newServer' = None /\ newCap' = None /\ failed' = 0 /\ home' = home /\ name' = name /\ file' = file
        /\ NoSwitch.asked = FALSE /\ NoSwitch.cap = None
    BY <1>1 DEF Connect, nameVars, NoSwitch
  <1>5. Linked'
    BY <1>3, <1>4 DEF Linked, InRun
  <1>6. Switched'
    BY <1>3, <1>4 DEF Switched
  <1>7. HeloIsTrue'
    <2>1. Says => newServer = None /\ Target = server /\ history.here # None
      BY DEF Says, Target, Settled, Switched
    <2>2. Says => Target = history.here \/ home = None
      BY <1>4, <2>1 DEF Settled, Linked, LastHere
    <2>3. Says \/ history.here = None \/ history.serv.asked
      BY <1>4 DEF Says, Settled, Switched
    <2>4. newCap = history.serv.cap
      BY DEF Settled, Switched
    <2>5. history.serv.asked => Target \in {history.serv.to, history.here} \/ home = None
      BY <1>4 DEF Target, Settled, Switched, Linked, LastHere
    <2> QED BY <1>3, <1>4, <2>2, <2>3, <2>4, <2>5 DEF HeloIsTrue
  <1>8. NameSaved'
    BY <1>3, <1>4 DEF Settled, NameSaved, Storing
  <1> QED BY <1>5, <1>6, <1>7, <1>8 DEF Settled

\* It is never another server than the one that was left that is gone back to.
LEMMA CannotConnectKeeps ==
  ASSUME Typed, Settled, CannotConnect
  PROVE  Settled'
  <1>1. /\ pc = "connect" /\ server' = NextTry /\ newServer' = None /\ reconnect' = Says
        /\ (home # None => failed' = failed) /\ pc' = (IF failed' > Retries THEN "discover" ELSE "connect")
        /\ home' = home /\ newCap' = newCap /\ link' = link /\ history' = history /\ name' = name /\ file' = file
    BY DEF CannotConnect, netVars, nameVars
  <1>2. server # None
    BY <1>1 DEF Settled, Linked
  <1>3. NextTry = server
    BY <1>2 DEF NextTry, Previous, Target
  <1>4. home # None => failed' = 0 /\ pc' = "connect"
    BY <1>1, SlimprotoAssumption DEF Settled, Linked, SlimprotoAssumption
  <1>5. pc' \in {"connect", "discover"}
    BY <1>1
  <1>6. Linked'
    BY <1>1, <1>2, <1>3, <1>4, <1>5 DEF Settled, Linked, InRun, LastHere
  <1>7. Switched'
    BY <1>1 DEF Settled, Switched, Says
  <1>8. HeloIsTrue' /\ NameSaved'
    BY <1>1, <1>5 DEF Storing, Settled, HeloIsTrue, NameSaved
  <1> QED BY <1>6, <1>7, <1>8 DEF Settled

LEMMA DiscoverKeeps ==
  ASSUME Typed, Settled, Discover
  PROVE  Settled'
  <1>1. /\ up \subseteq Servers /\ None \notin Servers
    BY SlimprotoAssumption DEF Typed, ConnTyped, SlimprotoAssumption
  <1>2. /\ pc = "discover" /\ pc' \in {"off", "connect"} /\ (pc' = "connect" => server' \in up)
        /\ home' = home /\ newServer' = newServer /\ newCap' = newCap /\ reconnect' = reconnect /\ failed' = failed
        /\ link' = link /\ history' = history /\ name' = name /\ file' = file
    BY DEF Discover, netVars, nameVars
  <1>3. home = None /\ link.peer = None
    BY <1>2 DEF Settled, Linked, InRun
  <1>4. Linked'
    BY <1>1, <1>2, <1>3 DEF Settled, Linked, InRun
  <1>5. Switched'
    BY <1>2 DEF Settled, Switched
  <1>6. HeloIsTrue' /\ NameSaved'
    BY <1>2, <1>3 DEF Storing, Settled, HeloIsTrue, NameSaved
  <1> QED BY <1>4, <1>5, <1>6 DEF Settled

LEMMA RestartKeeps ==
  ASSUME Typed, Settled, Restart
  PROVE  Settled'
  <1>1. history' = NoHistory /\ link' = NoLink
    BY DEF Restart
  <1>2. /\ history'.here = None /\ history'.serv.asked = FALSE /\ history'.serv.cap = None
        /\ link'.peer = None
    BY <1>1 DEF NoHistory, NoSwitch, NoLink
  <1>3. /\ pc' = (IF home = None THEN "discover" ELSE "connect") /\ server' = home /\ home' = home
        /\ newServer' = None /\ newCap' = None /\ reconnect' = FALSE /\ failed' = 0
        /\ name' = NameRead /\ file' = file
    BY DEF Restart
  <1>4. Linked'
    BY <1>2, <1>3 DEF Linked, InRun, LastHere
  <1>5. Switched'
    BY <1>2, <1>3 DEF Switched
  <1>6. NameSaved'
    <2>1. file \in 0 .. NameLen /\ NameLen \in Nat
      BY SlimprotoAssumption DEF Typed, ConnTyped, SlimprotoAssumption
    <2> QED BY <1>2, <1>3, <2>1 DEF NameSaved, NameRead
  <1> QED BY <1>2, <1>4, <1>5, <1>6 DEF Settled, HeloIsTrue

LEMMA SettledStep ==
  ASSUME Typed, Tiled, Reading, Settled, [Next]_vars
  PROVE  Settled'
  <1>1. CASE Send \/ Fault \/ SlimprotoStop \/ ConnectStopped \/ Woken \/ NoPass \/ UNCHANGED vars
    <2>1. link'.peer = link.peer /\ link'.helo = link.helo
      BY <1>1 DEF Send, Fault, SlimprotoStop, ConnectStopped, Woken, NoPass, vars, Typed, ConnTyped, Link
    <2>2. UNCHANGED <<Aside, history, reconnect>>
      BY <1>1 DEF Send, Fault, SlimprotoStop, ConnectStopped, Woken, NoPass, vars, Aside,
                  netVars, connVars, nameVars
    <2>3. pc' = pc \/ {pc, pc'} \subseteq InRun \ Storing \/ (pc = "connect" /\ pc' = "off")
      BY <1>1 DEF Send, Fault, SlimprotoStop, ConnectStopped, Woken, NoPass, vars, InRun, Storing
    <2> QED BY <2>1, <2>2, <2>3, SteadyKeeps
  <1>4. CASE Happens
    <2>1. UNCHANGED <<pc, link, Aside, history, reconnect>>
      BY <1>4 DEF Happens, HeadersArrive, MetaArrives, TrackStarts, DecodeEnds, StreamEnds, Raise, Aside,
                  netVars, connVars, nameVars
    <2> QED BY <2>1, SteadyKeeps
  <1>5. CASE Pass
    <2>1. UNCHANGED <<link, Aside, history, reconnect>> /\ {pc, pc'} \subseteq InRun \ Storing
      BY <1>5 DEF Pass, PassS, PassD, PassO, PassClose, PassSend, PassEnds, Aside,
                  netVars, connVars, nameVars, InRun, Storing
    <2> QED BY <2>1, SteadyKeeps
  <1>2. CASE LoopTop \/ ReadLength \/ Closed \/ Silence
    <2>1. /\ pc \in InRun \ Storing
          /\ Leave \/ (UNCHANGED <<reconnect, link>> /\ pc' \in InRun \ Storing)
      <3>1. CASE ReadLength
        <4>1. pc = "wait" /\ (Leave \/ (UNCHANGED <<reconnect, link>> /\ pc' = "pass"))
          BY <3>1, LengthIs DEF ReadLength
        <4> QED BY <4>1 DEF InRun, Storing
      <3>2. CASE LoopTop \/ Closed \/ Silence
        BY <3>2 DEF LoopTop, Closed, Silence, InRun, Storing
      <3> QED BY <1>2, <3>1, <3>2
    <2>2. UNCHANGED <<Aside, history>>
      BY <1>2 DEF LoopTop, ReadLength, Closed, Silence, Aside, netVars, nameVars
    <2>3. CASE Leave
      BY <2>1, <2>2, <2>3, LeaveKeeps
    <2>4. CASE UNCHANGED <<reconnect, link>> /\ pc' \in InRun \ Storing
      <3>1. UNCHANGED <<Aside, history, reconnect, link.peer, link.helo>> /\ {pc, pc'} \subseteq InRun \ Storing
        BY <2>1, <2>2, <2>4
      <3> QED BY <3>1, SteadyKeeps
    <2> QED BY <2>1, <2>3, <2>4
  <1>3. CASE ReadBody
    <2>1. PICK p \in DOMAIN script : Handles(script[p].packet) \/ Waits
      BY <1>3, BodyIs
    <2>2. pc = "wait" /\ UNCHANGED <<home, server, failed, reconnect, link>>
      BY <1>3 DEF ReadBody, netVars
    <2>3. CASE Handles(script[p].packet)
      <3>1. script[p].packet \in Packet
        BY ItemIs
      <3> QED BY <2>2, <2>3, <3>1, ProcessKeeps
    <2>4. CASE Waits
      <3>1. UNCHANGED <<Aside, history, reconnect, link.peer, link.helo>> /\ {pc, pc'} \subseteq InRun \ Storing
        BY <2>2, <2>4 DEF Waits, Aside, nameVars, InRun, Storing
      <3> QED BY <3>1, SteadyKeeps
    <2> QED BY <2>1, <2>3, <2>4
  <1> QED BY <1>1, <1>2, <1>3, <1>4, <1>5, ConnectKeeps, CannotConnectKeeps, DiscoverKeeps, RestartKeeps, StoreKeeps
          DEF Next, Controller, Around
-----------------------------------------------------------------------------
(* Events and what is told of them.                                         *)

\* What is due as a pass finds it.
LEMMA DueIs ==
  ASSUME NEW k \in Kinds
  PROVE  /\ k \in Due <=> IsDue(k, flags)
         /\ k \in DueS <=> k \in {"DSCO", "RESP", "META"} /\ IsDue(k, flags)
         /\ k \in DueD <=> k \in {"STMd", "STMn"} /\ IsDue(k, flags)
         /\ k \in DueO <=> k = "STMs" /\ IsDue(k, flags)
  BY DEF Due, DueS, DueD, DueO, HeadersDue, IsDue, Kinds

\* An event of kind k.
LEMMA RaiseKeeps ==
  ASSUME Typed, Reported, NEW k \in Kinds, NEW f \in Flags, Raise(k, f),
         \A j \in Kinds : IsDue(j, f) <=> j = k \/ IsDue(j, flags),
         f.stream = "opened" => ~f.sent_headers,
         account'["DSCO"].taken > 0 => f.stream \in {"stopped", "disconnect"} /\ "RESP" \notin say
  PROVE  Reported'
  <1>1. /\ events \in Nat /\ events' = events + 1 /\ flags' = f /\ UNCHANGED <<say, pc>>
        /\ account' = [account EXCEPT ![k].raised = events'] /\ account \in [Kinds -> Account]
    BY DEF Raise, Typed, ConnTyped, Reported
  <1>2. account' \in [Kinds -> Account]
    BY <1>1 DEF Account
  <1>3. ASSUME NEW j \in Kinds PROVE Right(account'[j], j \in say', IsDue(j, flags'), events')
    <2>1. Right(account[j], j \in say, IsDue(j, flags), events) /\ account[j] \in Account
      BY <1>1 DEF Reported
    <2>2. CASE j = k
      <3>1. account'[j] = [account[j] EXCEPT !.raised = events + 1]
        BY <1>1, <2>2
      <3> QED BY <1>1, <2>1, <2>2, <3>1 DEF Right, Account
    <2>3. CASE j # k
      <3>1. account'[j] = account[j]
        BY <1>1, <2>3
      <3> QED BY <1>1, <2>1, <2>3, <3>1 DEF Right, Account
    <2> QED BY <2>2, <2>3
  <1> QED BY <1>1, <1>2, <1>3 DEF Reported

LEMMA HappensKeeps ==
  ASSUME Typed, Reported, Happens
  PROVE  Reported'
  <1>1. flags \in Flags /\ account \in [Kinds -> Account] /\ events \in Nat
    BY DEF Reported, Typed, ConnTyped
  <1>2. CASE HeadersArrive
    <2> DEFINE f == [flags EXCEPT !.stream = "streaming"]
    <2>1. f \in Flags /\ flags.stream = "opened" /\ Raise("RESP", f) /\ "RESP" \in Kinds
      BY <1>1, <1>2 DEF HeadersArrive, Flags, Kinds
    <2>2. \A j \in Kinds : IsDue(j, f) <=> j = "RESP" \/ IsDue(j, flags)
      BY <1>1, <2>1 DEF IsDue, Flags, Reported
    <2>3. account'["DSCO"].taken = account["DSCO"].taken /\ f.stream = "streaming"
      BY <1>1, <2>1 DEF Raise, Account, Kinds, Flags
    <2> HIDE DEF f
    <2> QED BY <2>1, <2>2, <2>3, RaiseKeeps DEF Reported
  <1>3. CASE MetaArrives
    <2> DEFINE f == [flags EXCEPT !.meta_send = TRUE]
    <2>1. f \in Flags /\ flags.stream = "streaming" /\ Raise("META", f) /\ "META" \in Kinds
      BY <1>1, <1>3 DEF MetaArrives, Flags, Kinds
    <2>2. \A j \in Kinds : IsDue(j, f) <=> j = "META" \/ IsDue(j, flags)
      BY <1>1, <2>1 DEF IsDue, Flags
    <2>3. account'["DSCO"].taken = account["DSCO"].taken /\ f.stream = flags.stream /\ f.sent_headers = flags.sent_headers
      BY <1>1, <2>1 DEF Raise, Account, Kinds, Flags
    <2> HIDE DEF f
    <2> QED BY <2>1, <2>2, <2>3, RaiseKeeps DEF Reported
  <1>4. CASE TrackStarts
    <2> DEFINE f == [flags EXCEPT !.track_started = TRUE]
    <2>1. f \in Flags /\ Raise("STMs", f) /\ "STMs" \in Kinds
      BY <1>1, <1>4 DEF TrackStarts, Flags, Kinds
    <2>2. \A j \in Kinds : IsDue(j, f) <=> j = "STMs" \/ IsDue(j, flags)
      BY <1>1, <2>1 DEF IsDue, Flags
    <2>3. account'["DSCO"].taken = account["DSCO"].taken /\ f.stream = flags.stream /\ f.sent_headers = flags.sent_headers
      BY <1>1, <2>1 DEF Raise, Account, Kinds, Flags
    <2> HIDE DEF f
    <2> QED BY <2>1, <2>2, <2>3, RaiseKeeps DEF Reported
  <1>5. CASE DecodeEnds
    <2>1. PICK end \in {[k |-> "STMd", d |-> "complete"], [k |-> "STMn", d |-> "error"]} :
            Raise(end.k, [flags EXCEPT !.decode = end.d]) /\ flags.decode = "running"
      BY <1>5 DEF DecodeEnds
    <2> DEFINE f == [flags EXCEPT !.decode = end.d]
    <2>2. f \in Flags /\ Raise(end.k, f) /\ end.k \in Kinds
      BY <1>1, <2>1 DEF Flags, Kinds
    <2>3. \A j \in Kinds : IsDue(j, f) <=> j = end.k \/ IsDue(j, flags)
      BY <1>1, <2>1 DEF IsDue, Flags, Kinds
    <2>4. account'["DSCO"].taken = account["DSCO"].taken /\ f.stream = flags.stream /\ f.sent_headers = flags.sent_headers
      BY <1>1, <2>1, <2>2 DEF Raise, Account, Kinds, Flags
    <2> HIDE DEF f
    <2> QED BY <2>2, <2>3, <2>4, RaiseKeeps DEF Reported
  <1>6. CASE StreamEnds
    <2>1. /\ flags.stream \in {"opened", "streaming"} /\ events' = events + 1 /\ UNCHANGED <<say, pc>>
          /\ \/ /\ flags' = [flags EXCEPT !.stream = "disconnect"]
                /\ account' = [Withdrawn({"RESP"}) EXCEPT !["DSCO"].raised = events']
             \/ flags' = [flags EXCEPT !.stream = "stopped"] /\ account' = Withdrawn({"RESP"})
      BY <1>6 DEF StreamEnds
    <2>2. /\ Withdrawn({"RESP"}) \in [Kinds -> Account]
          /\ \A j \in Kinds : Withdrawn({"RESP"})[j] = IF j = "RESP" THEN [account[j] EXCEPT !.raised = account[j].taken] ELSE account[j]
      BY <1>1 DEF Withdrawn, Account
    <2>3. account' \in [Kinds -> Account] /\ flags' \in Flags
      BY <1>1, <2>1, <2>2 DEF Account, Flags
    <2>4. ASSUME NEW j \in Kinds PROVE Right(account'[j], j \in say', IsDue(j, flags'), events')
      <3>1. Right(account[j], j \in say, IsDue(j, flags), events) /\ account[j] \in Account
        BY <1>1 DEF Reported
      <3>2. CASE j = "RESP"
        <4>1. account'[j] = [account[j] EXCEPT !.raised = account[j].taken]
          BY <2>1, <2>2, <3>2
        <4>2. ~IsDue(j, flags')
          BY <1>1, <2>1, <3>2 DEF IsDue, Flags
        <4> QED BY <1>1, <2>1, <3>1, <4>1, <4>2 DEF Right, Account
      <3>3. CASE j = "DSCO"
        <4>1. ~IsDue(j, flags)
          BY <2>1, <3>3 DEF IsDue
        <4>2. \/ account'[j] = [account[j] EXCEPT !.raised = events + 1] /\ IsDue(j, flags')
              \/ account'[j] = account[j] /\ ~IsDue(j, flags')
          BY <1>1, <2>1, <2>2, <3>3 DEF IsDue, Flags
        <4> QED BY <1>1, <2>1, <3>1, <4>1, <4>2 DEF Right, Account
      <3>4. CASE j \notin {"RESP", "DSCO"}
        <4>1. account'[j] = account[j] /\ (IsDue(j, flags') <=> IsDue(j, flags))
          BY <1>1, <2>1, <2>2, <3>4 DEF IsDue, Flags
        <4> QED BY <1>1, <2>1, <3>1, <4>1 DEF Right, Account
      <3> QED BY <3>2, <3>3, <3>4
    <2>5. account'["DSCO"].taken = account["DSCO"].taken /\ flags'.stream \in {"disconnect", "stopped"}
      BY <1>1, <2>1, <2>2 DEF Account, Kinds, Flags
    <2> QED BY <2>1, <2>3, <2>4, <2>5 DEF Reported
  <1> QED BY <1>2, <1>3, <1>4, <1>5, <1>6 DEF Happens

\* A section of a pass takes what it finds due, K, and leaves in the flags what is due of other kinds.
LEMMA TakesKeeps ==
  ASSUME Typed, Reported, NEW K \in SUBSET (Kinds \cup {"open", "close"}), Takes(K), flags' \in Flags,
         events' = events, pc' \in Sections,
         \A k \in Kinds \cap K : IsDue(k, flags),
         \A k \in Kinds : IsDue(k, flags') <=> k \notin K /\ IsDue(k, flags),
         flags'.stream = "opened" => flags.stream = "opened" /\ flags'.sent_headers = flags.sent_headers,
         account'["DSCO"].taken > 0 => flags'.stream \in {"stopped", "disconnect"} /\ "RESP" \notin say'
  PROVE  Reported'
  <1>1. /\ account \in [Kinds -> Account] /\ events \in Nat /\ say' = say \cup K
        /\ account' = [k \in Kinds |-> IF k \in K THEN [account[k] EXCEPT !.taken = account[k].raised] ELSE account[k]]
    BY DEF Reported, Typed, ConnTyped, Takes
  <1>2. account' \in [Kinds -> Account]
    BY <1>1 DEF Account
  <1>3. ASSUME NEW k \in Kinds PROVE Right(account'[k], k \in say', IsDue(k, flags'), events')
    <2>1. Right(account[k], k \in say, IsDue(k, flags), events) /\ account[k] \in Account
      BY <1>1 DEF Reported
    <2>2. CASE k \in K
      <3>1. account'[k] = [account[k] EXCEPT !.taken = account[k].raised]
        BY <1>1, <2>2
      <3>2. account[k].taken < account[k].raised /\ k \in say' /\ ~IsDue(k, flags')
        BY <1>1, <2>1, <2>2 DEF Right
      <3> QED BY <1>1, <2>1, <3>1, <3>2 DEF Right, Account
    <2>3. CASE k \notin K
      BY <1>1, <2>1, <2>3 DEF Right
    <2> QED BY <2>2, <2>3
  <1>4. say' \in SUBSET (Kinds \cup {"open", "close"})
    BY <1>1 DEF Reported
  <1> QED BY <1>2, <1>3, <1>4 DEF Reported

\* Section S of a pass.
LEMMA PassSKeeps ==
  ASSUME Typed, Reported, PassS
  PROVE  Reported'
  <1> DEFINE K == DueS \cup (IF flags.stream = "streaming" THEN {"open"} ELSE {})
  <1>1. /\ Takes(K) /\ say = {} /\ pc' = "passD" /\ events' = events /\ flags \in Flags
        /\ flags' = [flags EXCEPT !.stream = IF @ = "disconnect" THEN "stopped" ELSE @,
                                   !.sent_headers = @ \/ HeadersDue, !.meta_send = FALSE]
    BY DEF PassS, Reported, Sections
  <1>2. DueS \subseteq {"DSCO", "RESP", "META"}
    BY DEF DueS
  <1>3. /\ K \in SUBSET (Kinds \cup {"open", "close"})
        /\ \A k \in Kinds : k \in K <=> k \in DueS
    BY <1>2 DEF Kinds
  <1> HIDE DEF K
  <1>4. \A k \in Kinds : k \in K <=> k \in {"DSCO", "RESP", "META"} /\ IsDue(k, flags)
    BY <1>3, DueIs
  <1>5. flags' \in Flags
    BY <1>1 DEF Flags, HeadersDue
  <1>6. /\ flags'.stream = (IF flags.stream = "disconnect" THEN "stopped" ELSE flags.stream)
        /\ flags'.sent_headers = (flags.sent_headers \/ HeadersDue) /\ flags'.meta_send = FALSE
        /\ flags'.decode = flags.decode /\ flags'.track_started = flags.track_started
    BY <1>1 DEF Flags
  <1>7. \A k \in Kinds : IsDue(k, flags') <=> k \notin K /\ IsDue(k, flags)
    BY <1>4, <1>6 DEF IsDue, Kinds, HeadersDue
  <1>8. account'["DSCO"].taken > 0 => flags'.stream \in {"stopped", "disconnect"} /\ "RESP" \notin say'
    <2>1. account'["DSCO"].taken = account["DSCO"].taken \/ "DSCO" \in K
      BY <1>1 DEF Takes, Kinds, Reported, Account
    <2>2. account'["DSCO"].taken > 0 => flags.stream \in {"stopped", "disconnect"}
      BY <1>4, <2>1 DEF Reported, IsDue, Kinds
    <2>3. flags.stream \in {"stopped", "disconnect"} => "RESP" \notin K
      BY <1>4 DEF IsDue, Kinds
    <2> QED BY <1>1, <1>6, <2>2, <2>3 DEF Takes
  <1>9. flags'.stream = "opened" => flags.stream = "opened" /\ flags'.sent_headers = flags.sent_headers
    BY <1>1, <1>6 DEF HeadersDue, Flags
  <1> QED BY <1>1, <1>3, <1>4, <1>5, <1>7, <1>8, <1>9, TakesKeeps DEF Sections

\* Sections D and O.
LEMMA PassDKeeps ==
  ASSUME Typed, Reported, PassD
  PROVE  Reported'
  <1> DEFINE K == DueD \cup (IF DueD # {} /\ "open" \in say THEN {"close"} ELSE {})
  <1>1. /\ Takes(K) /\ pc = "passD" /\ pc' = "passO" /\ events' = events /\ flags \in Flags
        /\ flags' = [flags EXCEPT !.decode = IF DueD # {} THEN "stopped" ELSE @]
    BY DEF PassD, Reported
  <1>2. DueD \subseteq {"STMd", "STMn"} /\ (DueD # {} <=> flags.decode \in {"complete", "error"})
    BY DEF DueD
  <1>3. /\ K \in SUBSET (Kinds \cup {"open", "close"})
        /\ \A k \in Kinds : k \in K <=> k \in DueD
    BY <1>2 DEF Kinds
  <1> HIDE DEF K
  <1>4. \A k \in Kinds : k \in K <=> k \in {"STMd", "STMn"} /\ IsDue(k, flags)
    BY <1>3, DueIs
  <1>5. flags' \in Flags
    BY <1>1 DEF Flags
  <1>6. /\ flags'.stream = flags.stream /\ flags'.sent_headers = flags.sent_headers
        /\ flags'.meta_send = flags.meta_send /\ flags'.track_started = flags.track_started
        /\ flags'.decode = (IF flags.decode \in {"complete", "error"} THEN "stopped" ELSE flags.decode)
    BY <1>1, <1>2 DEF Flags
  <1>7. \A k \in Kinds : IsDue(k, flags') <=> k \notin K /\ IsDue(k, flags)
    BY <1>4, <1>6 DEF IsDue, Kinds
  <1>8. account'["DSCO"].taken > 0 => flags'.stream \in {"stopped", "disconnect"} /\ "RESP" \notin say'
    <2>1. account'["DSCO"].taken = account["DSCO"].taken /\ "RESP" \notin K
      BY <1>1, <1>4 DEF Takes, Kinds, Reported, Account
    <2> QED BY <1>1, <1>6, <2>1 DEF Takes, Reported
  <1> QED BY <1>1, <1>3, <1>4, <1>5, <1>6, <1>7, <1>8, TakesKeeps DEF Sections

LEMMA PassOKeeps ==
  ASSUME Typed, Reported, PassO
  PROVE  Reported'
  <1>1. /\ Takes(DueO) /\ pc = "passO" /\ pc' = "send" /\ events' = events /\ flags \in Flags
        /\ flags' = [flags EXCEPT !.track_started = FALSE]
    BY DEF PassO, Reported, StartSeen
  <1>2. DueO \subseteq {"STMs"} /\ DueO \in SUBSET (Kinds \cup {"open", "close"})
    BY DEF DueO, Kinds
  <1>3. \A k \in Kinds : k \in DueO <=> k = "STMs" /\ IsDue(k, flags)
    BY DueIs
  <1>4. flags' \in Flags
    BY <1>1 DEF Flags
  <1>5. /\ flags'.stream = flags.stream /\ flags'.sent_headers = flags.sent_headers
        /\ flags'.meta_send = flags.meta_send /\ flags'.decode = flags.decode /\ flags'.track_started = FALSE
    BY <1>1 DEF Flags
  <1>6. \A k \in Kinds : IsDue(k, flags') <=> k \notin DueO /\ IsDue(k, flags)
    BY <1>3, <1>5 DEF IsDue, Kinds
  <1>7. account'["DSCO"].taken > 0 => flags'.stream \in {"stopped", "disconnect"} /\ "RESP" \notin say'
    <2>1. account'["DSCO"].taken = account["DSCO"].taken /\ "RESP" \notin DueO
      BY <1>1, <1>2 DEF Takes, Kinds, Reported, Account
    <2> QED BY <1>1, <1>5, <2>1 DEF Takes, Reported
  <1> QED BY <1>1, <1>2, <1>3, <1>4, <1>5, <1>6, <1>7, TakesKeeps DEF Sections

\* What is taken back is neither due nor missed.
LEMMA WithdrawnIs ==
  ASSUME Reported, NEW K
  PROVE  /\ Withdrawn(K) \in [Kinds -> Account]
         /\ \A k \in Kinds : /\ Withdrawn(K)[k].taken = account[k].taken /\ Withdrawn(K)[k].told = account[k].told
                             /\ Withdrawn(K)[k].raised = IF k \in K THEN account[k].taken ELSE account[k].raised
  <1>1. account \in [Kinds -> Account]
    BY DEF Reported
  <1>2. Withdrawn(K) = [k \in Kinds |-> IF k \in K THEN [account[k] EXCEPT !.raised = account[k].taken] ELSE account[k]]
    BY DEF Withdrawn
  <1>3. ASSUME NEW k \in Kinds
        PROVE  /\ Withdrawn(K)[k] \in Account
               /\ Withdrawn(K)[k].taken = account[k].taken /\ Withdrawn(K)[k].told = account[k].told
               /\ Withdrawn(K)[k].raised = IF k \in K THEN account[k].taken ELSE account[k].raised
    <2>1. account[k] \in Account
      BY <1>1
    <2>2. CASE k \in K
      <3>1. Withdrawn(K)[k] = [account[k] EXCEPT !.raised = account[k].taken]
        BY <1>2, <2>2
      <3> QED BY <2>1, <2>2, <3>1 DEF Account
    <2>3. CASE k \notin K
      BY <1>2, <2>1, <2>3
    <2> QED BY <2>2, <2>3
  <1> QED BY <1>2, <1>3

LEMMA PassCloseKeeps ==
  ASSUME Typed, Reported, PassClose
  PROVE  Reported'
  <1>1. /\ flags \in Flags /\ flags' = [flags EXCEPT !.stream = "stopped"] /\ account' = Withdrawn({"DSCO", "RESP"})
        /\ say' = say \ {"close"} /\ UNCHANGED <<pc, events>> /\ pc = "send"
    BY DEF PassClose, Reported
  <1>2. /\ flags' \in Flags /\ flags'.stream = "stopped" /\ flags'.meta_send = flags.meta_send
        /\ flags'.decode = flags.decode /\ flags'.track_started = flags.track_started
    BY <1>1 DEF Flags
  <1>3. account' \in [Kinds -> Account] /\ account'["DSCO"].taken = account["DSCO"].taken
    BY <1>1, WithdrawnIs DEF Kinds
  <1>4. ASSUME NEW k \in Kinds PROVE Right(account'[k], k \in say', IsDue(k, flags'), events')
    <2>1. Right(account[k], k \in say, IsDue(k, flags), events) /\ account[k] \in Account /\ account'[k] \in Account
      BY <1>3 DEF Reported
    <2>2. /\ account'[k].taken = account[k].taken /\ account'[k].told = account[k].told
          /\ account'[k].raised = IF k \in {"DSCO", "RESP"} THEN account[k].taken ELSE account[k].raised
      BY <1>1, WithdrawnIs
    <2>3. k \in say' <=> k \in say
      BY <1>1 DEF Kinds
    <2>4. IsDue(k, flags') <=> k \notin {"DSCO", "RESP"} /\ IsDue(k, flags)
      BY <1>2 DEF IsDue
    <2>5. events \in Nat
      BY DEF Typed, ConnTyped
    <2> QED BY <1>1, <2>1, <2>2, <2>3, <2>4, <2>5 DEF Right, Account
  <1> QED BY <1>1, <1>2, <1>3, <1>4 DEF Reported, Sections

LEMMA PassSendKeeps ==
  ASSUME Typed, Reported, PassSend
  PROVE  Reported'
  <1>1. PICK k \in Kinds : /\ k \in say /\ say' = say \ {k}
                           /\ account' = [account EXCEPT ![k].told = account[k].taken]
    <2>1. \A i \in DOMAIN Order : Order[i] \in Kinds
      BY DEF Order, Kinds
    <2> QED BY <2>1 DEF PassSend
  <1>2. account \in [Kinds -> Account] /\ UNCHANGED <<pc, flags, events>> /\ pc = "send"
    BY DEF PassSend, Reported
  <1>3. account' \in [Kinds -> Account] /\ account'["DSCO"].taken = account["DSCO"].taken
    BY <1>1, <1>2 DEF Account, Kinds
  <1>4. ASSUME NEW j \in Kinds PROVE Right(account'[j], j \in say', IsDue(j, flags'), events')
    <2>1. Right(account[j], j \in say, IsDue(j, flags), events) /\ account[j] \in Account
      BY <1>2 DEF Reported
    <2>2. CASE j = k
      <3>1. account'[j] = [account[j] EXCEPT !.told = account[j].taken] /\ j \notin say'
        BY <1>1, <1>2, <2>2
      <3> QED BY <1>2, <2>1, <3>1 DEF Right, Account
    <2>3. CASE j # k
      <3>1. account'[j] = account[j] /\ (j \in say' <=> j \in say)
        BY <1>1, <1>2, <2>3
      <3> QED BY <1>2, <2>1, <3>1
    <2> QED BY <2>2, <2>3
  <1> QED BY <1>1, <1>2, <1>3, <1>4 DEF Reported, Sections

\* strm s, q and f take back what no pass took.
LEMMA StrmKeeps ==
  ASSUME Typed, Reported, ProcessStrm, say = {}, pc' \notin Sections
  PROVE  Reported'
  <1>1. flags \in Flags /\ account \in [Kinds -> Account] /\ events \in Nat /\ say' = {} /\ Nothing \in Account
    BY DEF ProcessStrm, Reported, Typed, ConnTyped, Nothing, Account
  <1>2. \A k \in Kinds : Right(account[k], FALSE, IsDue(k, flags), events) /\ account[k] \in Account
    BY <1>1 DEF Reported, Right
  <1>3. CASE /\ flags' = [flags EXCEPT !.stream = "opened", !.sent_headers = FALSE, !.meta_send = FALSE,
                                        !.decode = "running"]
             /\ account' = [k \in Kinds |-> IF k = "STMs" THEN account[k] ELSE Nothing]
             /\ UNCHANGED events
    <2>1. /\ flags' \in Flags /\ flags'.stream = "opened" /\ ~flags'.sent_headers /\ ~flags'.meta_send
          /\ flags'.decode = "running" /\ flags'.track_started = flags.track_started
      BY <1>1, <1>3 DEF Flags
    <2>2. account' \in [Kinds -> Account] /\ account'["DSCO"].taken = 0
      BY <1>1, <1>3 DEF Kinds, Nothing
    <2>3. ASSUME NEW k \in Kinds PROVE Right(account'[k], FALSE, IsDue(k, flags'), events')
      <3>1. CASE k = "STMs"
        <4>1. account'[k] = account[k] /\ (IsDue(k, flags') <=> IsDue(k, flags))
          BY <1>3, <2>1, <3>1 DEF IsDue
        <4> QED BY <1>2, <1>3, <4>1 DEF Right
      <3>2. CASE k # "STMs"
        <4>1. account'[k] = Nothing /\ ~IsDue(k, flags')
          BY <1>3, <2>1, <3>2 DEF IsDue
        <4> QED BY <1>1, <1>3, <4>1 DEF Right, Nothing
      <3> QED BY <3>1, <3>2
    <2> QED BY <1>1, <2>1, <2>2, <2>3 DEF Reported, Right
  <1>4. CASE /\ events' = events + 1
             /\ flags' = [flags EXCEPT !.stream = "disconnect", !.decode = "running"]
             /\ account' = [[k \in Kinds |-> IF k \in {"STMs", "META"} THEN account[k] ELSE Nothing]
                               EXCEPT !["DSCO"].raised = events']
    <2>1. /\ flags' \in Flags /\ flags'.stream = "disconnect" /\ flags'.meta_send = flags.meta_send
          /\ flags'.decode = "running" /\ flags'.track_started = flags.track_started
      BY <1>1, <1>4 DEF Flags
    <2>2. /\ account' \in [Kinds -> Account] /\ account'["DSCO"] = [Nothing EXCEPT !.raised = events + 1]
          /\ \A k \in Kinds \ {"DSCO"} : account'[k] = IF k \in {"STMs", "META"} THEN account[k] ELSE Nothing
      BY <1>1, <1>4 DEF Kinds, Nothing, Account
    <2>3. ASSUME NEW k \in Kinds PROVE Right(account'[k], FALSE, IsDue(k, flags'), events')
      <3>1. CASE k \in {"STMs", "META"}
        <4>1. account'[k] = account[k] /\ (IsDue(k, flags') <=> IsDue(k, flags))
          BY <2>1, <2>2, <3>1 DEF IsDue
        <4> QED BY <1>1, <1>2, <1>4, <4>1 DEF Right, Account
      <3>2. CASE k = "DSCO"
        <4>1. IsDue(k, flags')
          BY <2>1, <3>2 DEF IsDue
        <4> QED BY <1>1, <1>4, <2>2, <3>2, <4>1 DEF Right, Nothing
      <3>3. CASE k \notin {"STMs", "META", "DSCO"}
        <4>1. account'[k] = Nothing /\ ~IsDue(k, flags')
          BY <2>1, <2>2, <3>3 DEF IsDue
        <4> QED BY <1>1, <1>4, <4>1 DEF Right, Nothing
      <3> QED BY <3>1, <3>2, <3>3
    <2> QED BY <1>1, <2>1, <2>2, <2>3 DEF Reported, Right
  <1>5. CASE /\ flags' = [flags EXCEPT !.stream = "stopped", !.decode = "stopped"]
             /\ account' = Withdrawn({"DSCO", "RESP", "STMd", "STMn"})
             /\ UNCHANGED events
    <2>1. /\ flags' \in Flags /\ flags'.stream = "stopped" /\ flags'.meta_send = flags.meta_send
          /\ flags'.decode = "stopped" /\ flags'.track_started = flags.track_started
      BY <1>1, <1>5 DEF Flags
    <2>2. account' \in [Kinds -> Account]
      BY <1>5, WithdrawnIs
    <2>3. ASSUME NEW k \in Kinds PROVE Right(account'[k], FALSE, IsDue(k, flags'), events')
      <3>1. /\ account'[k].taken = account[k].taken /\ account'[k].told = account[k].told
            /\ account'[k].raised = IF k \in {"DSCO", "RESP", "STMd", "STMn"} THEN account[k].taken ELSE account[k].raised
        BY <1>5, WithdrawnIs
      <3>2. IsDue(k, flags') <=> k \notin {"DSCO", "RESP", "STMd", "STMn"} /\ IsDue(k, flags)
        BY <2>1 DEF IsDue
      <3> QED BY <1>1, <1>2, <1>5, <3>1, <3>2 DEF Right, Account
    <2> QED BY <1>1, <2>1, <2>2, <2>3 DEF Reported, Right
  <1>6. CASE UNCHANGED <<flags, account, events>>
    BY <1>1, <1>6 DEF Reported
  <1> QED BY <1>3, <1>4, <1>5, <1>6 DEF ProcessStrm

\* At the start nothing is due.
LEMMA NothingReported ==
  ASSUME flags' = NoFlags, say' = {}, account' = [k \in Kinds |-> Nothing], events' \in Nat
  PROVE  Reported'
  <1>1. flags' \in Flags /\ Nothing \in Account
    BY DEF NoFlags, Flags, Nothing, Account
  <1>2. \A k \in Kinds : ~IsDue(k, flags') /\ account'[k] = Nothing
    BY DEF IsDue, NoFlags
  <1>3. \A k \in Kinds : Right(account'[k], k \in say', IsDue(k, flags'), events')
    BY <1>2 DEF Right, Nothing
  <1>4. account'["DSCO"].taken = 0 /\ flags'.stream = "stopped"
    BY <1>2 DEF Kinds, Nothing, NoFlags
  <1> QED BY <1>1, <1>3, <1>4 DEF Reported

LEMMA ReportedStep ==
  ASSUME Typed, Tiled, Reading, Reported, [Next]_vars
  PROVE  Reported'
  <1>1. CASE UNCHANGED <<flags, say, account, events>> /\ (pc \in Sections => pc' \in Sections)
    BY <1>1 DEF Reported
  <1>2. CASE PassEnds
    <2>1. say \subseteq {"open"} /\ say' = {} /\ UNCHANGED <<flags, account, events>>
      BY <1>2 DEF PassEnds
    <2>2. \A k \in Kinds : k \notin say /\ k \notin say'
      BY <2>1 DEF Kinds
    <2> QED BY <2>1, <2>2 DEF Reported
  <1>3. CASE Restart
    <2>1. flags' = NoFlags /\ say' = {} /\ account' = [k \in Kinds |-> Nothing] /\ events' = events
      BY <1>3 DEF Restart
    <2> QED BY <2>1, NothingReported DEF Typed, ConnTyped
  <1>4. CASE ReadBody
    <2>1. PICK p \in DOMAIN script : Handles(script[p].packet) \/ Waits
      BY <1>4, BodyIs
    <2>2. pc = "wait" /\ pc' \in {"store", "pass"}
      BY <1>4, <2>1 DEF ReadBody, Handles, Waits
    <2>3. CASE ProcessStrm
      BY <2>2, <2>3, StrmKeeps DEF Reported, Sections
    <2>4. CASE UNCHANGED repVars
      BY <1>1, <2>2, <2>4 DEF repVars, Sections
    <2>5. ProcessStrm \/ UNCHANGED repVars
      BY <2>1 DEF Handles, Waits, Process, ProcessServ, ProcessSetd
    <2> QED BY <2>3, <2>4, <2>5
  <1>5. CASE Send \/ Fault \/ SlimprotoStop \/ Discover \/ Connect \/ CannotConnect \/ ConnectStopped \/ LoopTop
               \/ ReadLength \/ StoreName \/ WriteName \/ Closed \/ Woken \/ Silence \/ NoPass \/ UNCHANGED vars
    <2>1. UNCHANGED <<flags, say, account, events>>
      BY <1>5 DEF Send, Fault, SlimprotoStop, Discover, Connect, CannotConnect, ConnectStopped, LoopTop,
                  ReadLength, StoreName, WriteName, Closed, Woken, Silence, NoPass, vars, repVars
    <2>2. pc \in Sections => pc' = pc
      BY <1>5 DEF Send, Fault, SlimprotoStop, Discover, Connect, CannotConnect, ConnectStopped, LoopTop,
                  ReadLength, StoreName, WriteName, Closed, Woken, Silence, NoPass, vars, Sections
    <2> QED BY <1>1, <2>1, <2>2
  <1> QED BY <1>2, <1>3, <1>4, <1>5, HappensKeeps, PassSKeeps, PassDKeeps, PassOKeeps, PassCloseKeeps, PassSendKeeps
          DEF Next, Controller, Around, Pass
-----------------------------------------------------------------------------
(* The theorems.                                                            *)

LEMMA Inductive == Spec => []IInv
  <1>1. Init => IInv
    <2> SUFFICES ASSUME Init PROVE IInv
      OBVIOUS
    <2> USE SlimprotoAssumption DEF SlimprotoAssumption
    <2>1. ConnTyped
      <3>1. NoLink \in Link /\ NoHistory \in History
        BY DEF NoLink, Link, NoHistory, NoSwitch, History, Switch
      <3>2. home \in Servers \cup {None} /\ failed \in 0 .. Retries + 1 /\ name \in 0 .. NameLen /\ file \in 0 .. NameLen
        BY DEF Init
      <3>3. pc \in InRun \cup {"discover", "connect", "off"}
        BY DEF Init
      <3> QED BY <3>1, <3>2, <3>3 DEF Init, ConnTyped
    <2>2. ReadTyped
      <3>1. NoBytes \in [1 .. MaxBuf -> Nat \X Nat]
        BY DEF NoBytes
      <3>2. timeouts \in 0 .. Patience
        BY DEF Init
      <3> QED BY <3>1, <3>2 DEF Init, ReadTyped
    <2>3. Tiled /\ HandledInOrder
      BY DEF Init, Tiled, HandledInOrder, Whole
    <2>4. Reading
      BY DEF Init, Reading, Sent, InRun
    <2>5. Linked /\ Switched /\ NameSaved /\ HeloIsTrue
      BY DEF Init, Linked, Switched, NameSaved, HeloIsTrue, NoLink, NoHistory, NoSwitch, InRun, LastHere, Storing
    <2>6. Reported
      <3>1. flags = NoFlags /\ say = {} /\ account = [k \in Kinds |-> Nothing] /\ events = 0
        BY DEF Init
      <3>2. flags \in Flags /\ Nothing \in Account
        BY <3>1 DEF NoFlags, Flags, Nothing, Account
      <3>3. \A k \in Kinds : ~IsDue(k, flags) /\ account[k] = Nothing
        BY <3>1 DEF IsDue, NoFlags
      <3>4. \A k \in Kinds : Right(account[k], k \in say, IsDue(k, flags), events)
        BY <3>1, <3>3 DEF Right, Nothing
      <3>5. account["DSCO"].taken = 0 /\ flags.stream = "stopped"
        BY <3>1, <3>3 DEF Kinds, Nothing, NoFlags
      <3> QED BY <3>1, <3>2, <3>4, <3>5 DEF Reported
    <2> QED BY <2>1, <2>2, <2>3, <2>4, <2>5, <2>6 DEF IInv, Typed, Settled
  <1>2. IInv /\ [Next]_vars => IInv'
    BY TypedStep, ReadingStep, SettledStep, ReportedStep DEF IInv
  <1> QED BY <1>1, <1>2, PTL DEF Spec

\* However the stream of packets is cut into pieces, each packet is handled
\* whole, once and in the order it was sent, and nothing is read past the
\* buffer.  However the threads, the server's strm and the passes interleave,
\* a report stands for what happened since the last one of its kind, none is
\* due without a flag for it, and no headers are reported after the end.
THEOREM HandledOnce == Spec => []ExactlyOnce
  <1>1. IInv => ExactlyOnce
    <2> SUFFICES ASSUME IInv PROVE ExactlyOnce
      OBVIOUS
    <2>1. ASSUME pc \in InRun PROVE got + expect <= MaxBuf
      <3>1. got \in Nat /\ expect \in Nat /\ MaxBuf \in Nat /\ MaxBuf >= 2
        BY SlimprotoAssumption DEF SlimprotoAssumption, IInv, Typed, ReadTyped
      <3>2. PICK p \in 1 .. Len(script) + 1 : InLength(p) \/ InBody(p)
        BY <2>1 DEF IInv, Reading
      <3>3. CASE InLength(p)
        BY <3>1, <3>3 DEF InLength
      <3>4. CASE InBody(p)
        BY <3>4 DEF InBody, Valid
      <3> QED BY <3>2, <3>3, <3>4
    <2>2. timeouts <= Patience /\ failed <= Retries + 1
      BY SlimprotoAssumption DEF SlimprotoAssumption, IInv, Typed, ReadTyped, ConnTyped
    <2>3. TypeOK
      BY <2>1, <2>2 DEF TypeOK, IInv, Typed, ConnTyped, InRun
    <2>4. ReportedOnce /\ EndIsLast
      <3>1. /\ \A k \in Kinds : Right(account[k], k \in say, IsDue(k, flags), events)
            /\ account["DSCO"].taken > 0 => flags.stream \in {"stopped", "disconnect"} /\ "RESP" \notin say
        BY DEF IInv, Reported
      <3>2. \A k \in Kinds : k \in Due <=> IsDue(k, flags)
        BY DueIs
      <3>3. ReportedOnce
        BY <3>1, <3>2 DEF ReportedOnce, Right
      <3>4. "RESP" \in Due => flags.stream = "streaming"
        BY <3>2 DEF IsDue, Kinds
      <3> QED BY <3>1, <3>3, <3>4 DEF EndIsLast
    <2> QED BY <2>3, <2>4 DEF ExactlyOnce, IInv
  <1> QED BY <1>1, Inductive, PTL

\* The HELO says it is a reconnection only to the server that was left, and
\* carries what the switch that led to it asked for, after any sequence of
\* switches, servers that do not answer, restarts and lost connections.
THEOREM HeloTrue == Spec => []HeloIsTrue
  <1>1. IInv => HeloIsTrue
    BY DEF IInv, Settled
  <1> QED BY <1>1, Inductive, PTL

\* A restart never changes the player's name, if it could be written and the
\* player was not killed while it was.
THEOREM NameKept == Spec => NameSurvives
  <1>1. IInv /\ [Next]_vars => [faults' # faults /\ name' # name =>
                                   \/ history.unsaved \/ name = NameLen \/ pc = "store"
                                   \/ pc = "write" /\ name' = 0]_vars
    <2> SUFFICES ASSUME IInv, Next, faults' # faults, name' # name, ~history.unsaved, pc # "store"
                 PROVE  name = NameLen \/ (pc = "write" /\ name' = 0)
      BY DEF vars
    <2>1. Restart
      BY DEF Next, Around, Controller, Send, Fault, Happens, HeadersArrive, MetaArrives, TrackStarts, DecodeEnds,
             StreamEnds, Raise, SlimprotoStop, Discover, Connect, CannotConnect, ConnectStopped, LoopTop, ReadLength,
             ReadBody, StoreName, WriteName, Closed, Woken, Silence, Pass, PassS, PassD, PassO, PassClose, PassSend,
             PassEnds, NoPass, netVars, nameVars
    <2>2. file \in 0 .. NameLen /\ name \in 0 .. NameLen /\ NameLen \in Nat \ {0} /\ name' = NameRead
      BY <2>1, SlimprotoAssumption DEF Restart, IInv, Typed, ConnTyped, SlimprotoAssumption
    <2>3. CASE pc = "write"
      <3>1. file = 0
        BY <2>3 DEF IInv, Settled, NameSaved
      <3> QED BY <2>2, <2>3, <3>1 DEF NameRead
    <2>4. CASE pc \notin Storing
      BY <2>2, <2>4 DEF IInv, Settled, NameSaved, NameRead
    <2> QED BY <2>3, <2>4 DEF Storing
  <1> QED BY <1>1, Inductive, PTL DEF Spec, NameSurvives
=============================================================================
