---------------------------- MODULE MCDocuments ----------------------------
(***************************************************************************)
(* Instances of Documents for TLC: days of eight ticks or four             *)
(* microseconds, of which the horizon holds three.                         *)
(***************************************************************************)
EXTENDS Documents, TLC

Doc(id, time, links, conformsTo, created) ==
    [feature |-> TRUE, id |-> id, time |-> time, links |-> links,
     conformsTo |-> conformsTo, created |-> created]

About == [rel |-> "about", of |-> "client"]
Self  == [rel |-> "self", of |-> "client"]
Prof  == [rel |-> "profile", of |-> "client"]

Dates(text) == "date" :> Member(<<text>>)
Timestamps(t) == "timestamp" :> Member(<<Instant(t)>>)
Interval(a, b) == "interval" :> Member(<<a, b>>)

Plain(time) == Doc(Nil, time, Nil, Nil, Nil)

\* Some of the ticks lie between two microseconds.
MCBodies ==
    {Plain(Nil), [Plain(Nil) EXCEPT !.feature = FALSE], Plain(Dates(Date(1))), Plain(Timestamps(10)),
     Plain(Interval(Open, Date(0))), Plain(Interval(Date(0), Instant(12))),
     Plain(Interval(Instant(12), Open)), Plain(Interval(Date(1), Instant(4))),
     Plain(Dates(Garbled)), Plain("interval" :> Mistyped), Plain(Interval(Instant(11), Date(1))),
     Doc("own", Timestamps(10), <<About, Self>>, <<"core", Profile, "">>, "client"),
     Doc("other", Dates(Date(1)), <<Prof>>, <<Profile>>, Nil)}

MCPatches ==
    {"links" :> <<Self, About, Prof>> @@ "id" :> "other",
     "links" :> Nil @@ "created" :> "client",
     "conformsTo" :> <<Profile, "core">>,
     "time" :> Nil,
     "time" :> (Dates(Date(1)) @@ "timestamp" :> Nil),
     "time" :> Interval(Date(1), Date(2))}

MCQueries ==
    LET ends == {Open, Date(0), Date(1), Instant(7), Instant(8), Instant(10), Instant(11), Instant(13)}
    IN  {<<e>> : e \in ends \cup {Garbled}} \cup (ends \X ends)
=============================================================================
