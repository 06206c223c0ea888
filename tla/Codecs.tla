---- MODULE Codecs ----
(***************************************************************************)
(* The decode thread with all its codecs: what the output buffer receives  *)
(* of each track, for streams that end early, buffers that wrap, space     *)
(* that runs out, a pause, a new track in the middle of another.           *)
(***************************************************************************)
EXTENDS LibCodecs, FileCodecs

Next == Around \/ Process \/ LibDecode \/ FileDecode

(* The decode thread polls every 100 ms or runs on; the stream goes on to its end, the device   *)
(* plays unless it is paused, a pause ends, and the controller polls the decoder every 100 ms.  *)
Fairness ==
    /\ WF_vars(Feed) /\ WF_vars(StreamEnd) /\ WF_vars(Play) /\ WF_vars(Unpause)
    /\ WF_vars(StartDecoder) /\ WF_vars(Collect) /\ WF_vars(NextTrack)
    /\ WF_vars(Process) /\ WF_vars(LibDecode \/ FileDecode)

Spec == Init /\ [][Next]_vars
FairSpec == Spec /\ Fairness

----------------------------------------------------------------------------
\* The frames of the open track that have been handed over, and those due: FirstFrame to LastFrame.
Delivered == SelectSeq(out \o work.out \o work.held \o work.in, LAMBDA f : f[1] = turn)
Reach == Max({k \in 0..AllItems : End(k) <= Cur.cut})
Mp4 == Cur.codec \in {"faad", "alac"}
LameFrames == SelectSeq(Cur.items, LAMBDA i : i.kind = "lame")[1].n
\* The frames of a packet at the start that decodes to nothing: they count among the delay, and a
\* delay shorter than the next packet makes the count of frames to skip wrap around.
Empty == FoldLeft(LAMBDA s, i : s + (IF i.kind = "empty" THEN i.n ELSE 0), 0, Cur.items)
FirstFrame ==
    CASE Mp4 /\ Empty = 0 -> Cur.delay
      [] Mp4 /\ Cur.delay = 0 -> Empty
      [] Mp4 -> Empty + ((Cur.delay + Word - Empty) % Word)
      [] Cur.codec = "mad" -> MadDelay + (IF lib.limit THEN Cur.delay + LameFrames ELSE 0)
      [] OTHER -> 0
Audible ==
    IF Mp4 \/ Cur.codec = "dsf" \/ (Cur.codec = "mad" /\ lib.limit)
    THEN Least(Before(Reach), Before(AllItems) - Cur.pad) ELSE Before(Reach)
LastFrame == Max({FirstFrame, Audible})
Due(k) == SelectSeq(Frames(FirstFrame, k), LAMBDA f : f \notin lost)

\* A DSDIFF track whose first data fell short right behind its header has a frame of silence in it.
FellShort == <<turn, 0>> \in ToSet(Delivered)

\* The stream ended between a read of nothing and the look at its state (vorbis.c, opus.c), or in
\* front of a frame that wraps (pcm.c): what had arrived is left in the buffer.
LeftOver == (Pulls /\ Used > 0) \/ (Cur.codec = "pcm" /\ ContRead < FrameUnits /\ ContRead < Used)

\* A gapless MP3 track that ended early, right behind a frame: mad.c takes the padding off that
\* frame, which has none, and so drops sound that had come.
EndedEarly ==
    LET last == Least(Cur.items[Reach].n, Before(Reach) - FirstFrame)
    IN /\ Cur.codec = "mad" /\ lib.limit
       /\ Cur.cut = End(Reach) /\ FirstFrame < Before(Reach) /\ Before(Reach) < Before(AllItems) - Cur.pad
       /\ Delivered = Due(Before(Reach) - Least(Cur.pad, last))

\* Type invariant: neither buffer holds more than it has room for, and each thread is somewhere.
TypeOK ==
    /\ playlist \in Playlists /\ turn \in 1..Len(playlist)
    /\ Used \in 0..SCap /\ Room \in 0..OCap
    /\ Len(work.in) <= MinSpace /\ Len(work.out) <= MinSpace + Latency
    /\ state \in {"READY", "RUNNING", "COMPLETE", "ERROR", "STOPPED"}
    /\ pc \in {"idle", "lib", "none", "parse", "run", "write", "drain"}

\* Whatever a codec has handed over, wherever the data wrapped or the space ended, is what is due
\* of the track from its first audible frame on, each frame once and in order: no frame of the
\* codec's delay or of the padding, none twice and none left out.
InOrderOnce ==
    ~newStream /\ ~FellShort =>
        \E k \in FirstFrame..LastFrame : Delivered = Due(k)

\* A track is reported as decoded (STMd) only when all that the stream brought of it was handed
\* over, what the resampler held back included; LeftOver, FellShort and EndedEarly name the
\* exceptions.
CompleteMeansAll ==
    state = "COMPLETE" /\ pc = "idle" =>
        Delivered = Due(LastFrame) \/ LeftOver \/ FellShort \/ EndedEarly

\* output.track_start divides the output buffer: every track that has a frame there has a start,
\* none of its frames lies before it and none of an earlier track after it, whatever delays,
\* processing and skips came between.
StartIsFirst ==
    \A i \in DOMAIN out :
        /\ out[i][1] \in DOMAIN start
        /\ \A t \in DOMAIN start :
               (out[i][1] = t => i > start[t]) /\ (out[i][1] < t => i <= start[t])

\* The writer of processed frames gives up on them after its waits only if the player was paused:
\* a device that plays makes room in time.  What else is lost is a spoilt chunk of ffmpeg.c, or
\* zeros in the last block that came of a DSF track, if its sample count promised more.
LossHasCause ==
    \/ lost = {} \/ pauses > 0
    \/ \E t \in 1..turn : playlist[t].codec = "ffmpeg" /\ playlist[t].pad > 0
    \/ /\ Cur.codec = "dsf" /\ (Cur.delay > 0 \/ Cur.cut < End(AllItems))
       /\ \A f \in lost : f[2] > Before(Reach - 1)

\* Every track is decoded to its end or refused, and the controller hears of it: no codec waits
\* for bytes that never come, or passes over the same bytes for ever.
Ends == <>(turn = Len(playlist) /\ state = "STOPPED")

\* What reaches the output buffer: no buffer is overrun, every frame due comes once and in order,
\* and one is missing only for a cause.
Delivery == TypeOK /\ InOrderOnce /\ LossHasCause
====
