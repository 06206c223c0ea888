---- MODULE MCStream ----
(* Connections of every kind, alone and one after the other, cut at the places that are hard. *)
EXTENDS HttpStream

U(k) == [k |-> k]
Chars(text) == [i \in DOMAIN text |-> U(text[i])]
Response == Chars(<<"c", "n", "n", "c", "n", "n", "n", "n">>)
Short == Chars(<<"c", "n", "n", "n", "n">>)
Sound(n) == [i \in 1..n |-> U("a")]
Icy(n) == <<[k |-> "l", left |-> n]>> \o [i \in 1..n |-> U("m")]
Page(serial, bos, granule, what, size) ==
    <<U("p1"), U("p2"), [k |-> "h", serial |-> serial, bos |-> bos, granule |-> granule],
      [k |-> "s", size |-> size]>>
    \o [i \in 1..size |-> [k |-> "d", what |-> what, serial |-> serial, last |-> i = size]]

W(asked, peer, units, cut, how) ==
    [asked |-> asked, peer |-> peer, units |-> units, cut |-> cut, how |-> how,
     wait |-> FALSE, metaint |-> 0, ogg |-> "off"]
Whole1(asked, peer, units) == W(asked, peer, units, Len(units), "close")

\* Every way to ask for a connection, and every peer.
Plain == {Whole1(asked, peer, Short \o Sound(3)) : asked \in {"plain", "tls", "443"}, peer \in {"plain", "tls", "down"}}
Files == {W("file", peer, Sound(3), 3, how) : peer \in {"plain", "down"}, how \in {"close", "reset"}}
Cuts == {W("plain", peer, Response \o Sound(5), cut, how) :
            peer \in {"plain", "tls"}, cut \in {0, 3, 8, 11}, how \in {"close", "reset"}}
TooLong == {Whole1("plain", "plain", Chars(<<"c", "c", "c", "c", "c", "c", "n", "n", "n", "n">>))}

\* Sound with metadata in it: an interval of two, pieces of every length, the last one cut.
IcyUnitsOf == Short \o Sound(2) \o Icy(2) \o Sound(2) \o Icy(0) \o Sound(2) \o Icy(1) \o Sound(1)
IcyWires == {[W("plain", "plain", IcyUnitsOf, cut, "close") EXCEPT !.wait = TRUE, !.metaint = 2] :
                cut \in {Len(IcyUnitsOf), 9, 7}}

\* Chained streams, two multiplexed ones, one without comments, damaged comments, Ogg FLAC.
Chains ==
    {Page(1, TRUE, 0, "id", 1) \o Page(1, FALSE, 0, "tags", 2) \o Page(1, FALSE, 1, "sound", 1)
       \o Page(2, TRUE, 0, "id", 1) \o Page(2, FALSE, 0, "tags", 1),
     Page(1, TRUE, 0, "id", 1) \o Page(2, TRUE, 0, "id", 1) \o Page(1, FALSE, 0, "tags", 1) \o Page(2, FALSE, 0, "tags", 1),
     Page(1, TRUE, 0, "id", 1) \o Page(1, FALSE, 1, "sound", 0) \o Page(1, FALSE, 1, "sound", 1)
       \o Page(2, TRUE, 0, "flac", 1) \o Page(2, FALSE, 0, "tags", 1),
     Page(1, TRUE, 0, "id", 1) \o Page(1, FALSE, 0, "damaged", 1) \o Page(1, FALSE, 0, "tags", 1)}
\* Behind as many units of sound as there are places in the ring: another page is missed each time.
OggWires == {[Whole1("plain", "plain", Short \o Sound(n) \o chain) EXCEPT !.ogg = o, !.wait = w] :
                chain \in Chains, n \in 0..3, o \in {"native", "lib"}, w \in BOOLEAN}

\* What is left of one connection when the next one is opened: metadata that waits for the
\* controller, the ssl of a socket that could not be written to.
Icy1 == [Whole1("plain", "plain", Short \o Sound(1) \o Icy(1)) EXCEPT !.wait = TRUE, !.metaint = 1]
Unwritten == W("tls", "tls", Short, 0, "reset")
Left == {<<Icy1, Whole1("443", "down", <<>>)>>}
        \cup {<<Unwritten, w>> : w \in {Whole1("plain", "plain", Short \o Sound(1)), Whole1("tls", "plain", <<>>),
                                        Whole1("file", "plain", Sound(1)), Whole1("file", "down", <<>>)}}
Twice == {<<v, w>> : v \in {Whole1("plain", "plain", Short \o Sound(3))},
                     w \in {W("plain", "plain", Short \o Sound(1), 0, "close"), Whole1("plain", "plain", Short \o Sound(1)),
                            Whole1("file", "plain", Sound(2)), Whole1("443", "down", <<>>)}}

MCWires == {<<w>> : w \in Plain \cup Files \cup Cuts \cup TooLong \cup IcyWires \cup OggWires} \cup Twice \cup Left
====
