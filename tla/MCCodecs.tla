---- MODULE MCCodecs ----
(* Small tracks of every codec, each with the layouts that are hard for it, alone or in pairs. *)
EXTENDS Codecs

Item3(kind, len, n) == [kind |-> kind, len |-> len, n |-> n]
Box(kind, len) == Item3(kind, len, 0)
Sounds(len, n, count) == [i \in 1..count |-> Item3("audio", len, n)]
Trk(codec, proc, items, gapless, cut) ==
    [codec |-> codec, proc |-> proc, items |-> items, open |-> IF codec = "mad" THEN MadDelay ELSE 0,
     delay |-> IF gapless THEN 1 ELSE 0, pad |-> IF gapless THEN 1 ELSE 0, icy |-> ~gapless, cut |-> cut]

Procs == {"none", "dsp", "resample"}
Packets == <<Item3("audio", 2, 2), Item3("audio", 3, 2)>>
Mp4Items == <<Box("box", 5), Box("config", 1), Box("table", 1), Box("mdat", 1), Box("gap", 1),
              Item3("audio", 2, 2), Box("gap", 2), Item3("audio", 1, 2)>>
Mp3Items == <<Box("id3", 2), Item3("lame", 2, 2), Item3("audio", 2, 2), Item3("audio", 1, 2)>>
LameItems == <<Item3("lame", 2, 2)>> \o Sounds(1, 2, 3)
\* The first packet of an AAC track decodes to nothing.
EmptyFirst == <<Box("config", 1), Box("mdat", 1), Item3("empty", 1, 2), Item3("audio", 2, 2), Item3("audio", 1, 2)>>
\* Blocks of DSF that wrap together, with zeros in them, with too high or too low a sample count.
DsfItems == <<Box("config", 1), Box("mdat", 1), Item3("zeros", 1, 2), Item3("audio", 1, 2), Item3("zeros", 1, 2)>>
OggItems == <<Box("head", 1), Item3("audio", 2, 2), Box("hole", 1), Item3("audio", 1, 1)>>

\* A track and the one after it, the first one whole or cut short.
Pairs ==
    {<<Trk("flac", p, <<Box("head", 1)>> \o Packets, FALSE, c), Trk("vorbis", q, OggItems, FALSE, 5)>> :
        p \in Procs, q \in Procs, c \in {6, 4}}
    \cup {<<Trk("mpg", p, Packets, FALSE, c), Trk("mad", q, Mp3Items, g, 7)>> :
        p \in Procs, q \in Procs, g \in BOOLEAN, c \in {5, 4}}
    \cup {<<Trk("mpg", "none", Packets, FALSE, 5), Trk("mad", "resample", Sounds(1, 2, 4), FALSE, 4)>>}
    \cup {<<Trk("alac", p, Mp4Items, TRUE, c), Trk("pcm", q, Sounds(2, 1, 3), FALSE, 6)>> :
        p \in {"none", "resample"}, q \in Procs, c \in {14, 13}}

Singles ==
    UNION {{<<Trk("ffmpeg", p, <<Box("head", 1)>> \o Packets, g, c)>> : g \in BOOLEAN, c \in {6, 5}}
      \cup {<<Trk("pcm", p, <<Box("head", 1)>> \o Sounds(2, 1, 3) \o <<Box("tail", 1)>>, FALSE, c)>> : c \in {8, 5}}
      \cup {<<Trk("faad", p, Mp4Items, TRUE, 14)>>}
      \cup {<<Trk("faad", p, <<Box("junk", 2)>> \o Sounds(2, 2, 2), FALSE, c)>> : c \in {6, 4}}
      \cup {<<Trk("dsf", p, <<Box("config", 1), Box("mdat", 1)>> \o Sounds(2, 2, 2), FALSE, c)>> : c \in {6, 5}}
      \cup {<<[Trk("dsf", p, DsfItems, FALSE, c) EXCEPT !.delay = d.more, !.pad = d.less]>> :
               c \in {5, 3}, d \in {[more |-> 5, less |-> 0], [more |-> 0, less |-> 1]}}
      \cup {<<Trk("mad", p, LameItems, TRUE, c)>> : c \in {5, 4}}
      \cup {<<[Trk("faad", p, EmptyFirst, d > 0, 6) EXCEPT !.delay = d]>> : d \in {0, 1, 3}}
      \cup {<<Trk("dff", p, <<Box("config", 1), Box("box", 5), Box("mdat", 1)>> \o Sounds(2, 1, 2), FALSE, 11)>>}
      \cup {<<Trk("dff", p, <<Box("config", 1), Box("mdat", 1)>> \o Sounds(2, 1, 3) \o <<Box("tail", 1)>>, FALSE, 9)>>}
     : p \in Procs}

\* Tracks that are refused, by their header or in the middle.
Refused ==
    {<<Trk(c, "none", <<Box("bad", 1), Item3("audio", 2, 2)>>, FALSE, 3)>> : c \in {"flac", "vorbis", "ffmpeg", "pcm"}}
    \cup {<<Trk("flac", "resample", <<Item3("audio", 2, 2), Box("bad", 1)>>, FALSE, 3)>>}
    \cup {<<Trk(c, "none", <<Box("box", 1), Box("mdat", 1), Item3("audio", 2, 2)>>, FALSE, 4)>> : c \in {"faad", "alac", "dsf"}}

MCPlaylists == Pairs \cup Singles \cup Refused
====
