---- MODULE FileCodecs ----
(***************************************************************************)
(* The codecs that parse the file themselves: PCM in WAV and AIFF, AAC and *)
(* ALAC in MP4, and AAC in ADTS.  They read the stream buffer in place, so *)
(* where its content wraps matters.                                        *)
(***************************************************************************)
EXTENDS Decoder

CONSTANTS
    FrameUnits, \* units of one PCM frame
    WrapBuf,    \* WRAPBUF_LEN of faad.c, in units
    Word        \* 2^32, for the unsigned count of frames to skip

\* What the header declares of the sound, in units.
Declared == FoldLeft(LAMBDA s, i : s + (IF i.kind = "audio" THEN i.len ELSE 0), 0, Cur.items)
Kind(k) == IF k \in 1..AllItems THEN Cur.items[k].kind ELSE "none"

----------------------------------------------------------------------------
(* pcm.c: one call parses the header, if there is one, and copies frames.  *)

HasHeader == newStream /\ Kind(1) \in {"head", "bad"}

\* _check_header needs all of it in one piece.
PcmHeaderWaits ==
    /\ Begins("pcm") /\ HasHeader
    /\ Cur.items[1].kind = "bad" \/ ContRead < Cur.items[1].len
    /\ SameStream /\ Hand(<<>>)
    /\ Return(IF Ended \/ Cur.items[1].kind = "bad" THEN "ERROR" ELSE "RUNNING")
    /\ PassUnchanged /\ UNCHANGED <<taken, lib>>

\* The frames a call can copy from what lies before the wrap; a frame across it is put together.
PcmReady(bytes, used) ==
    IF bytes < FrameUnits /\ bytes > 0 /\ used >= FrameUnits THEN 1 ELSE bytes \div FrameUnits

PcmPass ==
    /\ Begins("pcm") /\ ~(HasHeader /\ (Cur.items[1].kind = "bad" \/ ContRead < Cur.items[1].len))
    /\ LET at == IF HasHeader THEN Cur.items[1].len ELSE taken
           limit == IF HasHeader THEN TRUE ELSE lib.limit
           left == IF HasHeader THEN Declared ELSE lib.left
           used == sent - at
           bytes == Least(used, SCap - (at % SCap))
           over == (Ended /\ bytes < FrameUnits) \/ (limit /\ left = 0)
       IN /\ IF newStream /\ ~over THEN NewStream ELSE SameStream
          /\ LET room == IF direct' THEN ContRoom ELSE MinSpace
                 most == Least(PcmReady(bytes, used), room)
                 n == IF over THEN 0 ELSE IF limit THEN Least(most, left \div FrameUnits) ELSE most
             IN /\ Hand(Frames(lib.part, lib.part + n))
                /\ taken' = at + n * FrameUnits
                /\ lib' = [lib EXCEPT !.limit = limit, !.left = IF limit THEN left - n * FrameUnits ELSE 0,
                                      !.part = @ + n]
          /\ Return(IF over THEN "COMPLETE" ELSE "RUNNING")
    /\ PassUnchanged

----------------------------------------------------------------------------
(* The MP4 header, as faad.c and alac.c read it.  "box" is any box that is passed over, "config" *)
(* the one with the parameters of the decoder, "table" those with sizes and offsets, and "gap"  *)
(* what lies between two chunks of the sound.  lib.tags is 0 once the parameters are known,     *)
(* lib.limit says that the offsets of the chunks are.                                           *)

Mdat == CHOOSE k \in 1..AllItems : Kind(k) = "mdat"
Parsed == Max({k \in lib.done..Mdat : End(k) - taken <= ContRead})
Rest == ContRead - (End(Parsed) - taken)

\* faad.c looks into a box only when more than the box is there, and else passes over it.
Looked(kind) ==
    \E k \in lib.done + 1..Parsed :
        Kind(k) = kind /\ (Cur.codec = "faad" => End(k) - taken < ContRead)

Boxes == [lib EXCEPT !.done = Parsed, !.tags = IF Looked("config") THEN 0 ELSE @,
                     !.limit = @ \/ Looked("table")]

HeaderBegins == MayRun /\ Cur.codec \in {"faad", "alac"} /\ lib.eat = 0 /\ newStream /\ Kind(1) # "junk"
Finished == Cur.codec = "faad" /\ Ended /\ Used = 0

\* A box that is not all there: passed over from here on, or waited for in one piece (_buf_unwrap).
HeaderWaits ==
    /\ HeaderBegins /\ ~Finished /\ Parsed < Mdat
    /\ LET next == Cur.items[Parsed + 1]
           pass == Rest > 0 /\ (next.kind = "box" \/ (next.kind = "config" /\ Cur.codec = "alac"))
           used == IF pass THEN Used - ContRead ELSE sent - End(Parsed)
           huge == Rest > 0 /\ ~pass /\ next.len > SCap
           stuck == Cur.codec = "alac" /\ Ended /\ (used = 0 \/ used = lib.part)
       IN /\ taken' = sent - used
          /\ lib' = IF pass THEN [Boxes EXCEPT !.done = Parsed + 1, !.eat = next.len - Rest]
                    ELSE [Boxes EXCEPT !.part = IF Ended THEN used ELSE @,
                            !.base = IF Rest > 0 /\ Rest < used THEN (SCap - (taken' % SCap)) % SCap ELSE @]
          /\ SameStream /\ Hand(<<>>)
          /\ Return(IF huge \/ stuck THEN "ERROR" ELSE "RUNNING")
    /\ PassUnchanged

\* The media data: the track starts, with what is known of its first chunk and of the gapless
\* playing.  Not without the parameters.
HeaderFound ==
    /\ HeaderBegins /\ ~Finished /\ Parsed = Mdat /\ Boxes.tags = 0
    /\ LET gap == IF Boxes.limit /\ Kind(Mdat + 1) = "gap" THEN Cur.items[Mdat + 1].len ELSE 0
       IN /\ taken' = End(Mdat) + (IF gap <= Rest THEN gap ELSE 0)
          /\ lib' = [Boxes EXCEPT !.done = IF gap > 0 THEN Mdat + 1 ELSE Mdat, !.tags = 0, !.part = 0,
                                  !.eat = IF gap <= Rest THEN 0 ELSE gap, !.skip = Cur.delay,
                                  !.left = IF Cur.delay + Cur.pad > 0 THEN Before(AllItems) - Cur.delay - Cur.pad ELSE 0]
    /\ NewStream /\ work' = NoWork /\ pc' = "parse"
    /\ PassUnchanged /\ UNCHANGED <<state, out>>

HeaderRefused ==
    /\ HeaderBegins /\ ~Finished /\ Parsed = Mdat /\ Boxes.tags # 0
    /\ SameStream /\ Hand(<<>>) /\ Return("ERROR")
    /\ taken' = End(Mdat) /\ lib' = Boxes /\ PassUnchanged

\* What is to be skipped: a packet before this one that decoded to nothing counts with the frames
\* of this one, and the count is unsigned.
ToSkip == IF lib.empty /\ lib.skip > 0 THEN (lib.skip + Word - Item.n) % Word ELSE lib.skip

\* Faulty variant: what is played is not counted.
TrimUncounted(n) ==
    LET skip == Least(ToSkip, n)
        most == IF lib.left > 0 THEN Least(n - skip, lib.left) ELSE n - skip
    IN [from |-> skip, to |-> skip + most, left |-> lib.left]

\* Gapless: what of the next n frames is played.
Trim(n) ==
    LET skip == Least(ToSkip, n)
        most == IF lib.left > 0 THEN Least(n - skip, lib.left) ELSE n - skip
    IN [from |-> skip, to |-> skip + most, left |-> lib.left - Least(lib.left, most)]

\* One packet is decoded; at the end of a chunk the gap to the next goes with it, now or later.
Chunk == Item.len + (IF lib.limit /\ Kind(lib.done + 2) = "gap" THEN Cur.items[lib.done + 2].len ELSE 0)
Consumed ==
    [lib EXCEPT !.done = @ + (IF Chunk > Item.len THEN 2 ELSE 1), !.eat = IF Used >= Chunk THEN 0 ELSE Chunk]
Packet ==
    LET t == Trim(Item.n)
    IN /\ Hand(SubSeq(Sound, t.from + 1, t.to))
       /\ taken' = IF Used >= Chunk THEN taken + Chunk ELSE taken
       /\ lib' = [Consumed EXCEPT !.left = t.left, !.skip = ToSkip - t.from, !.empty = @ /\ lib.skip = 0]

----------------------------------------------------------------------------
(* faad.c *)

FaadEnd ==
    /\ Begins("faad") /\ Finished
    /\ SameStream /\ Hand(<<>>) /\ Return("COMPLETE")
    /\ PassUnchanged /\ UNCHANGED <<taken, lib>>

FaadEat ==
    /\ Begins("faad") /\ ~Finished /\ lib.eat > 0
    /\ taken' = taken + Least(lib.eat, ContRead)
    /\ lib' = [lib EXCEPT !.eat = @ - Least(@, ContRead)]
    /\ SameStream /\ Hand(<<>>) /\ Return("RUNNING") /\ PassUnchanged

\* ADTS: bytes are dropped until a header is found.
FaadSync ==
    /\ Begins("faad") /\ ~Finished /\ newStream /\ Kind(1) = "junk"
    /\ LET junk == Least(End(1) - taken, ContRead)
       IN /\ taken' = taken + junk
          /\ IF taken' = End(1) /\ ContRead > junk
             THEN /\ NewStream /\ work' = NoWork /\ pc' = "parse"
                  /\ lib' = [lib EXCEPT !.done = 1] /\ UNCHANGED <<state, out>>
             ELSE /\ SameStream /\ Hand(<<>>) /\ Return("RUNNING") /\ UNCHANGED lib
    /\ PassUnchanged

\* What the decoder is shown: a copy when the content wraps and enough of it is there.
FaadView == IF ContRead < WrapBuf /\ Used > WrapBuf THEN WrapBuf ELSE ContRead
FaadShown == lib.eat = 0 /\ More /\ Item.kind \in {"audio", "empty"} /\ Item.len <= FaadView

FaadDecode ==
    /\ (Begins("faad") /\ ~Finished /\ ~newStream /\ lib.eat = 0) \/ In("faad", "parse")
    /\ SameStream
    /\ IF ~FaadShown THEN Hand(<<>>) /\ Return("ERROR") /\ UNCHANGED <<taken, lib>>
       ELSE IF Item.kind = "audio" THEN Packet /\ Return("RUNNING")
       ELSE \* libfaad gives no samples for it, as for the first packet of a track
            /\ Hand(<<>>) /\ Return("RUNNING")
            /\ taken' = IF Used >= Chunk THEN taken + Chunk ELSE taken
            /\ lib' = [Consumed EXCEPT !.empty = TRUE]
    /\ PassUnchanged

Faad == FaadEnd \/ FaadEat \/ FaadSync \/ FaadDecode

----------------------------------------------------------------------------
(* alac.c *)

AlacEat ==
    /\ Begins("alac") /\ lib.eat > 0
    /\ LET n == Least(lib.eat, Used)
       IN /\ taken' = taken + n
          /\ lib' = [lib EXCEPT !.eat = @ - n]
          /\ SameStream /\ Hand(<<>>)
          /\ Return(IF n < lib.eat /\ Ended THEN "COMPLETE" ELSE "RUNNING")
    /\ PassUnchanged

AlacBegins == (Begins("alac") /\ lib.eat = 0 /\ ~newStream) \/ In("alac", "parse")

\* All blocks are decoded, or the stream ended within one.
AlacEnd ==
    /\ AlacBegins
    /\ More => Ended /\ Used < Item.len
    /\ SameStream /\ Hand(<<>>) /\ Return("COMPLETE")
    /\ PassUnchanged /\ UNCHANGED <<taken, lib>>

AlacWaits ==
    /\ AlacBegins /\ More /\ ~Ended /\ Used < Item.len
    /\ SameStream /\ Hand(<<>>) /\ Return("RUNNING")
    /\ PassUnchanged /\ UNCHANGED <<taken, lib>>

AlacBlock ==
    /\ AlacBegins /\ More /\ Used >= Item.len
    /\ SameStream
    /\ IF Item.kind = "audio" /\ lib.eat = 0 THEN Packet /\ Return("RUNNING")
       ELSE Hand(<<>>) /\ Return("ERROR") /\ UNCHANGED <<taken, lib>>
    /\ PassUnchanged

Alac == AlacEat \/ AlacEnd \/ AlacWaits \/ AlacBlock

----------------------------------------------------------------------------
(* dsd.c: DSF has pairs of blocks, one for each channel, DSDIFF has frames.  The chunks before *)
(* the sound are "box", "config" and "mdat".                                                   *)

Dsd == Cur.codec \in {"dsf", "dff"}
DsdOver == (Ended /\ Used = 0) \/ (~newStream /\ lib.left = 0)
DsdBegins == MayRun /\ Dsd /\ ~DsdOver
DsdHeader == newStream /\ ((DsdBegins /\ lib.eat = 0) \/ (pc = "parse" /\ Dsd))
DsdAudio == ~newStream /\ (DsdBegins \/ (pc = "parse" /\ Dsd))
\* The sample count of DSF, in frames: the last blocks may hold Cur.pad frames beyond it, and a wrong
\* count promises Cur.delay frames that do not come.
SampleCount == Before(AllItems) + Cur.delay - Cur.pad
ValidFormat == \E k \in 1..Mdat : Kind(k) = "config"

DsdEnd ==
    /\ MayRun /\ Dsd /\ DsdOver
    /\ SameStream /\ Hand(<<>>) /\ Return("COMPLETE")
    /\ PassUnchanged /\ UNCHANGED <<taken, lib>>

\* Once a chunk is passed over, the same call goes on with the next.
DsdEat ==
    /\ DsdBegins /\ lib.eat > 0
    /\ LET n == Least(lib.eat, ContRead)
       IN /\ taken' = taken + n
          /\ lib' = [lib EXCEPT !.eat = @ - n]
          /\ IF n = lib.eat THEN pc' = "parse" /\ UNCHANGED <<state, newStream, direct, work, out, start>>
             ELSE SameStream /\ Hand(<<>>) /\ Return("RUNNING")
    /\ PassUnchanged

\* The format chunk of DSF is waited for, what is there of any other is passed over.
DsdHeaderWaits ==
    /\ DsdHeader /\ Parsed < Mdat
    /\ LET next == Cur.items[Parsed + 1]
           pass == Rest > 0 /\ (next.kind = "config" => Cur.codec = "dff")
       IN IF pass
          THEN taken' = taken + ContRead /\ lib' = [lib EXCEPT !.done = Parsed + 1, !.eat = next.len - Rest]
          ELSE taken' = End(Parsed) /\ lib' = [lib EXCEPT !.done = Parsed]
    /\ SameStream /\ Hand(<<>>) /\ Return("RUNNING") /\ PassUnchanged

DsdFound ==
    /\ DsdHeader /\ Parsed = Mdat /\ ValidFormat
    /\ NewStream /\ work' = NoWork /\ pc' = "parse"
    /\ taken' = End(Mdat)
    /\ lib' = [lib EXCEPT !.done = Mdat, !.left = IF Cur.codec = "dsf" THEN SampleCount ELSE Declared]
    /\ PassUnchanged /\ UNCHANGED <<state, out>>

DsdRefused ==
    /\ DsdHeader /\ Parsed = Mdat /\ ~ValidFormat
    /\ SameStream /\ Hand(<<>>) /\ Return("ERROR")
    /\ PassUnchanged /\ UNCHANGED <<taken, lib>>

\* Faulty variant: zeros are taken for padding wherever they are.
PaddingAnywhere == IF Item.kind = "zeros" THEN Item.n - 1 ELSE 0

\* Zeros at the end of both blocks are padding when no more is there and the sample count, of one
\* channel, says that more than these bytes, of two, are to come.  (A "zeros" pair has no other
\* byte; the first one is kept.)
Padding == IF Used = Item.len /\ lib.left > 2 * Item.n /\ Item.kind = "zeros" THEN Item.n - 1 ELSE 0

\* _decode_dsf: a pair of blocks, whichever of them wraps, without padding and only up to the
\* sample count.  (What is left of a block behind that count is not read again.)
DsfBlocks ==
    /\ DsdAudio /\ Cur.codec = "dsf" /\ Used >= Item.len
    /\ direct => Item.n <= Room
    /\ LET sound == SubSeq(Sound, 1, Item.n - Padding)
       IN /\ SameStream /\ Hand(SubSeq(sound, 1, Least(Len(sound), lib.left))) /\ Return("RUNNING")
          /\ lost' = lost \cup (ToSet(Sound) \ ToSet(sound))
          /\ lib' = [lib EXCEPT !.done = @ + 1, !.left = @ - Least(@, Len(sound))]
    /\ taken' = taken + Item.len
    /\ UNCHANGED <<streamVars, playVars, verdict>>

DsfShort ==
    /\ DsdAudio /\ Cur.codec = "dsf" /\ Used < Item.len
    /\ SameStream /\ Hand(<<>>) /\ Return("COMPLETE")
    /\ PassUnchanged /\ UNCHANGED <<taken, lib>>

\* _decode_dsdiff: whole frames before the wrap; less than one is completed with what follows
\* the wrap, or with silence when there is no more.
DffFrames ==
    /\ DsdAudio /\ Cur.codec = "dff"
    /\ LET n == Least(Least(ContRead, lib.left) \div FrameUnits, IF direct THEN ContRoom ELSE MinSpace)
           wrapped == n = 0 /\ ContRead < FrameUnits
           silent == wrapped /\ Used < FrameUnits
           read == IF silent THEN ContRead ELSE IF wrapped THEN FrameUnits ELSE n * FrameUnits
       IN /\ SameStream
          /\ Hand(IF silent THEN <<<<turn, 0>>>> ELSE Frames(lib.part, lib.part + read \div FrameUnits))
          /\ taken' = taken + read
          /\ lib' = [lib EXCEPT !.left = @ - Least(@, read), !.part = @ + read \div FrameUnits]
    /\ Return("RUNNING") /\ PassUnchanged

DsdDecode == DsdEnd \/ DsdEat \/ DsdHeaderWaits \/ DsdFound \/ DsdRefused \/ DsfBlocks \/ DsfShort \/ DffFrames

FileDecode ==
    \/ PcmHeaderWaits \/ PcmPass \/ HeaderWaits \/ HeaderFound \/ HeaderRefused
    \/ Faad \/ Alac \/ DsdDecode
====
