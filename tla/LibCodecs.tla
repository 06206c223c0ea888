---- MODULE LibCodecs ----
(***************************************************************************)
(* The codecs that give a library the bytes of the stream and take frames  *)
(* from it: FLAC, MP3 with libmad or mpg123, Vorbis, Opus and ffmpeg (WMA, *)
(* ALAC).  The library itself is outside the repository: it decodes item k *)
(* of the track when it has been given all of it.                          *)
(***************************************************************************)
EXTENDS Decoder

CONSTANTS
    MadDelay,   \* MAD_DELAY, frames libmad adds before the sound
    ReadBuf,    \* units a codec or its library takes at once (READBUF_SIZE, READ_SIZE)
    WriteBuf    \* frames it returns at once (WRITE_SIZE)

Decodable == More /\ taken >= End(lib.done + 1)
Bytes(most) == Least(ContRead, most)

----------------------------------------------------------------------------
(* flac.c: one call decodes one item, and waits for it with the decode mutex held. *)

FlacPass == Begins("flac") \/ In("flac", "lib")

\* read_cb; with nothing there it waits, with the decode mutex held.
FlacRead ==
    /\ FlacPass /\ ~Decodable /\ Bytes(ReadBuf) > 0
    /\ taken' = taken + Bytes(ReadBuf) /\ pc' = "lib"
    /\ Inside /\ UNCHANGED lib

FlacEnd ==
    /\ FlacPass /\ ~Decodable /\ Used = 0 /\ Ended
    /\ SameStream /\ Hand(<<>>) /\ Return("COMPLETE")
    /\ PassUnchanged /\ UNCHANGED <<taken, lib>>

\* In process.inbuf a block longer than it leaves only its last piece.
LastPiece(fs) == SubSeq(fs, ((Len(fs) - 1) \div MinSpace) * MinSpace + 1, Len(fs))

\* write_cb: the whole block goes in at once (a longer one would loop for ever with O held).
FlacBlock ==
    /\ FlacPass /\ Decodable /\ Item.n > 0 /\ Item.kind # "bad" /\ Item.n <= Room
    /\ IF newStream THEN NewStream ELSE SameStream
    /\ Hand(IF direct' THEN Sound ELSE LastPiece(Sound))
    /\ lib' = [lib EXCEPT !.done = @ + 1]
    /\ Return("RUNNING") /\ PassUnchanged /\ UNCHANGED taken

\* Metadata, the end of a link of a chained stream, or a block that is refused.
FlacOther ==
    /\ FlacPass /\ Decodable
    /\ Item.n = 0 \/ Item.kind = "bad"
    /\ SameStream /\ Hand(<<>>)
    /\ lib' = [lib EXCEPT !.done = @ + 1]
    /\ Return(IF Item.kind = "bad" THEN "ERROR" ELSE "RUNNING")
    /\ PassUnchanged /\ UNCHANGED taken

Flac == FlacRead \/ FlacEnd \/ FlacBlock \/ FlacOther

----------------------------------------------------------------------------
(* mad.c: tags are passed over, then all that the read buffer holds is decoded. *)

TagLen == IF More /\ Item.kind = "id3" /\ ContRead > 0 THEN Item.len ELSE 0
ToEat == IF lib.tags = 1 THEN TagLen ELSE lib.eat

MadTag ==
    /\ Begins("mad") /\ lib.tags # 0 /\ ToEat > 0
    /\ LET n == Least(ToEat, ContRead)
       IN /\ taken' = taken + n
          /\ lib' = [lib EXCEPT !.tags = 2, !.eat = ToEat - n, !.done = IF n = ToEat THEN @ + 1 ELSE @]
    /\ SameStream /\ Hand(<<>>) /\ Return("RUNNING") /\ PassUnchanged

\* The LAME header is seen only when it is contiguous; its own frame counts among the skipped.
Gapless ==
    IF lib.tags # 0 /\ ~Cur.icy /\ More /\ Item.kind = "lame" /\ ContRead >= Item.len
    THEN [lib EXCEPT !.tags = 0, !.limit = TRUE, !.skip = Cur.delay + MadDelay + Item.n,
                     !.pad = Cur.pad, !.left = Before(AllItems) - Item.n - Cur.delay - MadDelay - Cur.pad]
    ELSE [lib EXCEPT !.tags = 0]

MadFeed ==
    /\ Begins("mad") /\ (lib.tags = 0 \/ ToEat = 0)
    /\ LET n == Least(ContRead, ReadBuf - (taken - End(lib.done)))
       IN /\ taken' = taken + n
          /\ lib' = [Gapless EXCEPT !.eos = Ended /\ Used = n]
    /\ pc' = "lib" /\ Inside

\* libmad decodes a frame when it sees what follows it, or the guard at the end of the stream.
MadReady == More /\ (taken > End(lib.done + 1) \/ (lib.eos /\ taken = End(lib.done + 1)))

\* Faulty variant: the frames skipped at the start also count as played.
MadTrimCounts(n) ==
    LET skip == Least(lib.skip, n)
        most == IF lib.left > 0 THEN Least(n - skip, lib.left) ELSE n - skip
    IN [from |-> skip, to |-> skip + most, left |-> IF lib.left > n THEN lib.left - n ELSE 0]

\* Gapless: what of the next n frames is played.
MadTrim(n) ==
    LET skip == Least(lib.skip, n)
        most == IF lib.left > 0 THEN Least(n - skip, lib.left) ELSE n - skip
        left == lib.left - Least(lib.left, most)
        early == left > 0 /\ lib.eos /\ taken = End(lib.done + 1)
    IN [from |-> skip, to |-> skip + (IF early THEN most - Least(lib.pad, most) ELSE most),
        left |-> IF early THEN 0 ELSE left]

MadFrame ==
    /\ In("mad", "lib") /\ MadReady
    /\ IF newStream THEN NewStream ELSE SameStream
    /\ LET room == IF direct' THEN Room ELSE MinSpace - Len(Fresh.in)
           n == Least(Item.n, room)
           t == MadTrim(n)
       IN /\ HandAfter(SubSeq(Sound, t.from + 1, t.to))
          /\ lib' = [lib EXCEPT !.done = @ + 1, !.skip = @ - Least(@, n), !.left = t.left]
    /\ PassUnchanged /\ UNCHANGED <<taken, state, pc>>

MadEnd ==
    /\ In("mad", "lib") /\ ~MadReady
    /\ SameStream /\ UNCHANGED <<out, work, taken, lib>>
    /\ Return(IF lib.eos THEN "COMPLETE" ELSE "RUNNING") /\ PassUnchanged

Mad == MadTag \/ MadFeed \/ MadFrame \/ MadEnd

----------------------------------------------------------------------------
(* mpg.c: bytes in, frames out, in one call; the first returns only the format. *)

\* Frames of all items given to the library; lib.part counts those it has returned.
Given(got) == Max({Before(k) : k \in {j \in 0..AllItems : End(j) <= got}})

MpgSpace == IF newStream THEN 0 ELSE Least(WriteBuf, IF direct THEN ContRoom ELSE MinSpace)

MpgPass ==
    /\ Begins("mpg")
    /\ LET n == Bytes(ReadBuf)
           fs == Least(Given(taken + n) - lib.part, MpgSpace)
       IN /\ taken' = taken + n
          /\ IF newStream /\ Given(taken + n) > 0 THEN NewStream ELSE SameStream
          /\ Hand(Frames(lib.part, lib.part + fs))
          /\ lib' = [lib EXCEPT !.part = @ + fs]
          /\ Return(IF n = 0 /\ fs = 0 /\ Ended THEN "COMPLETE" ELSE "RUNNING")
    /\ PassUnchanged

----------------------------------------------------------------------------
(* vorbis.c and opus.c: the library calls back for bytes while it opens and decodes. *)

Pulls == Cur.codec \in {"vorbis", "opus"}
PullBegins == MayRun /\ Pulls
PullIn(at) == pc = at /\ Pulls

\* _read_cb; while the stream is opened it waits for bytes with the decode mutex held.
PullRead ==
    /\ (PullBegins \/ PullIn("lib")) /\ ~Decodable /\ Bytes(ReadBuf) > 0
    /\ taken' = taken + Bytes(ReadBuf) /\ pc' = "lib"
    /\ Inside /\ UNCHANGED lib

PullNothing ==
    /\ (PullBegins \/ PullIn("lib")) /\ ~Decodable /\ Used = 0
    /\ ~newStream \/ Ended
    /\ pc' = "none" /\ Inside /\ UNCHANGED <<taken, lib>>

\* The headers are there: the stream is opened and decoding goes on in the same pass.
PullOpened ==
    /\ (PullBegins \/ PullIn("lib")) /\ newStream /\ Decodable /\ Item.kind # "bad"
    /\ NewStream /\ work' = NoWork
    /\ lib' = [lib EXCEPT !.done = @ + 1] /\ pc' = "lib"
    /\ PassUnchanged /\ UNCHANGED <<taken, state, out>>

PullRefused ==
    /\ (PullBegins \/ PullIn("lib")) /\ newStream /\ Decodable /\ Item.kind = "bad"
    /\ SameStream /\ Hand(<<>>) /\ Return("ERROR")
    /\ PassUnchanged /\ UNCHANGED <<taken, lib>>

\* ov_read, op_read: at most what there is room for; an item without frames is a hole.
PullFrames ==
    /\ (PullBegins \/ PullIn("lib")) /\ ~newStream /\ Decodable
    /\ LET n == Least(Item.n - lib.part, IF direct THEN ContRoom ELSE MinSpace)
           all == lib.part + n = Item.n
           from == Before(lib.done) + lib.part
       IN /\ SameStream /\ Hand(Frames(from, from + n))
          /\ lib' = [lib EXCEPT !.done = IF all THEN @ + 1 ELSE @, !.part = IF all THEN 0 ELSE @ + n]
    /\ Return("RUNNING") /\ PassUnchanged /\ UNCHANGED taken

\* Nothing was decoded: the end, if the stream has ended by now.  An open without headers is one.
PullEnd ==
    /\ PullIn("none")
    /\ SameStream /\ UNCHANGED <<out, work, taken, lib>>
    /\ Return(IF newStream \/ Ended THEN "COMPLETE" ELSE "RUNNING") /\ PassUnchanged

Pull == PullRead \/ PullNothing \/ PullOpened \/ PullRefused \/ PullFrames \/ PullEnd

----------------------------------------------------------------------------
(* ffmpeg.c, with the chunks of WMA over MMS: the packet in a chunk is padded to the packet *)
(* length (Cur.pad units of the library's, none of the stream).                             *)

FfPass == Begins("ffmpeg") \/ In("ffmpeg", "lib")
FfDecodable == Decodable /\ lib.pad = 0
FfPads == lib.pad > 0 /\ (lib.eat = 0 \/ lib.pad < ReadBuf)

\* _read_data: the next chunk or the rest of one, and its padding as soon as that fits: a chunk
\* that comes in two pieces is padded in its middle (lib.limit), and what it holds is spoilt.
FfRead ==
    /\ FfPass /\ More /\ ~FfDecodable
    /\ LET chunk == IF lib.eat > 0 THEN lib.eat ELSE Item.len
           n == Least(chunk, Bytes(ReadBuf))
           pad == IF lib.eat > 0 THEN lib.pad ELSE IF Item.kind = "head" THEN 0 ELSE Cur.pad
           fits == n + pad < ReadBuf
       IN IF lib.eat = 0 /\ lib.pad > 0
          THEN taken' = taken /\ lib' = [lib EXCEPT !.pad = 0]
          ELSE /\ n > 0 \/ FfPads
               /\ taken' = taken + n
               /\ lib' = [lib EXCEPT !.eat = chunk - n, !.pad = IF fits THEN 0 ELSE pad,
                                     !.limit = @ \/ (fits /\ pad > 0 /\ chunk > n)]
    /\ pc' = "lib" /\ Inside

\* The format and the codec are opened; not without audio, nor when the bytes run out.
FfOpen ==
    /\ FfPass /\ newStream /\ FfDecodable /\ Item.kind # "bad"
    /\ NewStream /\ work' = NoWork
    /\ lib' = [lib EXCEPT !.done = @ + 1] /\ pc' = "lib"
    /\ PassUnchanged /\ UNCHANGED <<taken, state, out>>

FfRefused ==
    /\ FfPass /\ newStream
    /\ IF FfDecodable THEN Item.kind = "bad" ELSE Used = 0 /\ ~FfPads
    /\ SameStream /\ Hand(<<>>) /\ Return("ERROR")
    /\ PassUnchanged /\ UNCHANGED <<taken, lib>>

\* One packet, all of its frames; processing drops those beyond its buffer.
FfFrames ==
    /\ FfPass /\ ~newStream /\ FfDecodable /\ (direct => Item.n <= Room)
    /\ SameStream
    /\ LET spoilt == lib.limit \/ (~direct /\ Item.n > MinSpace)
       IN /\ Hand(IF spoilt THEN <<>> ELSE Sound)
          /\ lost' = IF spoilt THEN lost \cup ToSet(Sound) ELSE lost
    /\ lib' = [lib EXCEPT !.done = @ + 1, !.limit = FALSE]
    /\ Return("RUNNING") /\ UNCHANGED <<streamVars, playVars, verdict, taken>>

FfNothing ==
    /\ FfPass /\ ~newStream /\ ~FfDecodable /\ Used = 0 /\ ~FfPads
    /\ SameStream /\ UNCHANGED <<out, work, taken, lib>>
    /\ Return(IF Ended THEN "COMPLETE" ELSE "RUNNING") /\ PassUnchanged

Ffmpeg == FfRead \/ FfOpen \/ FfRefused \/ FfFrames \/ FfNothing

LibDecode == Flac \/ Mad \/ MpgPass \/ Pull \/ Ffmpeg
====
