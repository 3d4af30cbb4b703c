------------------------------ MODULE Documents ------------------------------
(***************************************************************************)
(* A record document on its way through Tlon (internal/record/record.go):  *)
(* what of it is stored, what is shown of it, which time is derived from   *)
(* it, where that places it in a temporal catalog, and which searches by   *)
(* datetime find it.  One record, one client that keeps what it was shown. *)
(*                                                                         *)
(* Time is counted in ticks.  Go computes with all of them, PostgreSQL     *)
(* keeps whole microseconds.                                               *)
(***************************************************************************)
EXTENDS Integers, FiniteSets, SequencesExt

CONSTANTS
    Micro,      \* ticks in a microsecond
    Day,        \* ticks in a day
    Horizon,    \* the last tick
    Bodies,     \* documents that clients write
    Patches,    \* merge patches that clients write
    Queries,    \* values of the parameter datetime: one endpoint, or two
    Relations,  \* relations of the links that clients write
    Classes,    \* conformance classes that clients write
    Nil         \* a member that is absent, an open end

ASSUME TimeAssumption ==
    /\ Micro \in Nat \ {0} /\ Day \in Nat \ {0} /\ Horizon \in Nat
    /\ Day % Micro = 0

VARIABLES
    class,      \* the storage class of the catalog
    stored,     \* the document, Nil when there is no record
    row,        \* has_time, time_start and time_end
    partition,  \* partition_time
    copy        \* what the client was shown last

vars == <<class, stored, row, partition, copy>>

-----------------------------------------------------------------------------
(* Time.  A value is ".." or an instant or a date, or another text, or no  *)
(* text; a time is an object with some of the members interval, timestamp  *)
(* and date.                                                               *)

Open == [kind |-> "open", at |-> 0]
Instant(t) == [kind |-> "instant", at |-> t]
Date(d) == [kind |-> "date", at |-> d]
Garbled == [kind |-> "garbled", at |-> 0]
Number == [kind |-> "number", at |-> 0]

Error == [ok |-> FALSE, has |-> FALSE, from |-> Nil, to |-> Nil]
Timeless == [ok |-> TRUE, has |-> FALSE, from |-> Nil, to |-> Nil]
Span(from, to) == [ok |-> TRUE, has |-> TRUE, from |-> from, to |-> to]

Readable(text) == text.kind \notin {"garbled", "number"}

\* A date ends with the last tick of its day.
ParseEndpoint(text, end) ==
    CASE text.kind = "open" -> Nil
      [] text.kind = "instant" -> text.at
      [] text.kind = "date" -> Day * text.at + (IF end THEN Day - 1 ELSE 0)

ParseInterval(first, last) ==
    LET from == ParseEndpoint(first, FALSE)
        to == ParseEndpoint(last, TRUE)
    IN  IF ~ Readable(first) \/ ~ Readable(last) THEN Error
        ELSE IF from # Nil /\ to # Nil /\ from > to THEN Error
        ELSE Span(from, to)

\* One endpoint stands for both.
ParseDatetime(query) == ParseInterval(query[1], Last(query))

\* A member of a time has the JSON type that it should have, or another one.
Member(texts) == [typed |-> TRUE, texts |-> texts]
Mistyped == [typed |-> FALSE, texts |-> <<>>]

\* time is Nil or the members of an object, which has no time if the one it has is
\* of another type.
DeriveTime(time) ==
    IF time = Nil THEN Timeless
    ELSE LET kinds == DOMAIN time
             texts == time[CHOOSE m \in kinds : TRUE].texts
         IN  IF Cardinality(kinds) # 1 THEN Error
             ELSE IF \E m \in kinds : time[m] = Mistyped THEN Timeless
             ELSE CASE kinds = {"interval"} ->
                         IF Len(texts) # 2 THEN Error ELSE ParseInterval(texts[1], texts[2])
                    [] kinds = {"timestamp"} ->
                         IF texts[1].kind # "instant" THEN Error
                         ELSE Span(texts[1].at, texts[1].at)
                    [] kinds = {"date"} ->
                         IF texts[1].kind # "date" THEN Error
                         ELSE Span(Day * texts[1].at, Day * texts[1].at + Day - 1)

\* timestamptz keeps microseconds.
Timestamp(t) == IF t = Nil THEN Nil ELSE t - (t % Micro)

Row(doc) ==
    LET time == DeriveTime(doc.time)
    IN  [has |-> time.has, from |-> Timestamp(time.from), to |-> Timestamp(time.to)]

-----------------------------------------------------------------------------
(* Documents.  links is Nil or a sequence of links, each with its relation *)
(* and whose it is; created stands for both properties that Tlon owns.     *)

Managed == {"self", "collection", "profile"}
NavigationLinks ==
    <<[rel |-> "self", of |-> "tlon"], [rel |-> "collection", of |-> "tlon"],
      [rel |-> "profile", of |-> "tlon"]>>

Profile == "records profile"

Links == [rel : Relations \cup Managed, of : {"client", "tlon"}]
Conformances == Classes \cup {Profile}

ASSUME NilAssumption ==
    Nil \notin Int /\ Nil \notin Seq(Links) /\ Nil \notin Seq(Conformances)

\* A sequence without those of its members that are in a set.
Without(s, bad) ==
    LET kept[n \in 0 .. Len(s)] ==
            IF n = 0 THEN <<>>
            ELSE IF s[n] \in bad THEN kept[n - 1] ELSE Append(kept[n - 1], s[n])
    IN  kept[Len(s)]

\* Mutant: the relation that Tlon added last is not one of its own.
UserLinksButProfile(links) ==
    IF links = Nil THEN <<>>
    ELSE Without(links, {link \in ToSet(links) : link.rel \in Managed \ {"profile"}})

UserLinks(links) ==
    IF links = Nil THEN <<>>
    ELSE Without(links, {link \in ToSet(links) : link.rel \in Managed})

\* feature: the members that every record has are there and of their types.
Valid(doc) == doc.feature /\ DeriveTime(doc.time).ok

StripManaged(doc) ==
    [doc EXCEPT !.links = IF @ = Nil THEN Nil ELSE UserLinks(@), !.created = Nil]

ForCreate(doc) == StripManaged([doc EXCEPT !.id = Nil])

\* The identifier in the body, if any, has to be that of the path.
OwnId(doc) == doc.id \in {Nil, "own"}

ForPut(doc) == StripManaged([doc EXCEPT !.id = Nil])

\* A patch has some members of a document; one that is Nil is a null.
SanitizePatch(patch) ==
    [m \in DOMAIN patch \ {"id", "created"} |->
        IF m = "links" /\ patch[m] # Nil THEN UserLinks(patch[m]) ELSE patch[m]]

Present(members) == [m \in {k \in DOMAIN members : members[k] # Nil} |-> members[m]]

\* Objects are merged member by member.
MergeTime(time, patch) ==
    LET old == IF time = Nil THEN {} ELSE DOMAIN time
    IN  Present([m \in DOMAIN patch \cup old |-> IF m \in DOMAIN patch THEN patch[m] ELSE time[m]])

\* All else is replaced, and removed by a null.
MergePatch(doc, patch) ==
    [m \in DOMAIN doc |->
        CASE m \notin DOMAIN patch -> doc[m]
          [] m = "time" /\ m \in DOMAIN patch /\ patch.time # Nil -> MergeTime(doc.time, patch.time)
          [] OTHER -> patch[m]]

\* What GET shows.
Materialize(doc) ==
    [doc EXCEPT !.id = "own", !.created = "tlon",
                !.links = UserLinks(@) \o NavigationLinks,
                !.conformsTo = Append(IF @ = Nil THEN <<>> ELSE Without(@, {"", Profile}), Profile)]

-----------------------------------------------------------------------------
(* What clients write and ask.  The horizon is beyond every time of it.    *)

Texts ==
    {Open, Garbled, Number} \cup {Instant(t) : t \in 0 .. Horizon}
        \cup {Date(d) : d \in {day \in 0 .. Horizon : Day * day + Day - 1 <= Horizon}}

IsTime(time) ==
    /\ DOMAIN time \subseteq {"interval", "timestamp", "date"}
    /\ \A m \in DOMAIN time :
        \/ time[m] = Mistyped
        \/ /\ time[m] = Member(time[m].texts) /\ time[m].texts \in Seq(Texts)
           /\ m # "interval" => Len(time[m].texts) = 1

Fields == {"feature", "id", "time", "links", "conformsTo", "created"}

AreMembers(doc) ==
    /\ "feature" \in DOMAIN doc => doc.feature \in BOOLEAN
    /\ "links" \in DOMAIN doc => doc.links = Nil \/ doc.links \in Seq(Links)
    /\ "conformsTo" \in DOMAIN doc => doc.conformsTo = Nil \/ doc.conformsTo \in Seq(Conformances)

IsDocument(doc) ==
    /\ DOMAIN doc = Fields /\ AreMembers(doc)
    /\ doc.time = Nil \/ IsTime(doc.time)

IsPatch(patch) ==
    /\ DOMAIN patch \subseteq Fields /\ AreMembers(patch)
    /\ "time" \in DOMAIN patch => patch.time = Nil \/ IsTime(Present(patch.time))

ASSUME InputsAssumption ==
    /\ \A body \in Bodies : IsDocument(body)
    /\ \A patch \in Patches : IsPatch(patch)
    /\ \A query \in Queries : query \in Seq(Texts) /\ Len(query) \in {1, 2}

-----------------------------------------------------------------------------
(* Writing and reading.                                                    *)

\* recordTarget: the start in ticks, the partition in microseconds.
Placeable(doc) ==
    LET time == DeriveTime(doc.time)
    IN  class = "temporal" =>
            /\ time.has /\ time.from # Nil
            /\ partition # Nil => time.from = partition

Store(doc) ==
    /\ stored' = doc
    /\ row' = Row(doc)
    /\ partition' = IF class = "temporal" THEN Timestamp(DeriveTime(doc.time).from) ELSE Nil
    /\ UNCHANGED <<class, copy>>

\* POST.
Create(body) ==
    /\ stored = Nil
    /\ Valid(body) /\ Placeable(ForCreate(body))
    /\ Store(ForCreate(body))

\* Bulk ingestion of a record with an identifier.
BulkCreate(body) ==
    /\ stored = Nil
    /\ Valid(body) /\ OwnId(body) /\ Placeable(ForPut(body))
    /\ Store(ForPut(body))

\* PUT of a new document, of what the client was shown, or of that with the time
\* of another.
Put(body) ==
    /\ Valid(body) /\ OwnId(body) /\ Placeable(ForPut(body))
    /\ Store(ForPut(body))

PutBack ==
    /\ copy # Nil
    /\ \/ Put(copy)
       \/ \E body \in Bodies : Put([copy EXCEPT !.time = body.time])

Patch(patch) ==
    /\ stored # Nil
    /\ LET merged == MergePatch(stored, SanitizePatch(patch))
       IN  /\ Valid(merged) /\ OwnId(merged) /\ Placeable(ForPut(merged))
           /\ Store(ForPut(merged))

Get ==
    /\ stored # Nil
    /\ copy' = Materialize(stored)
    /\ UNCHANGED <<class, stored, row, partition>>

Delete ==
    /\ stored # Nil
    /\ stored' = Nil /\ row' = Nil /\ partition' = Nil
    /\ UNCHANGED <<class, copy>>

Init ==
    /\ class \in {"transactional", "temporal"}
    /\ stored = Nil /\ row = Nil /\ partition = Nil /\ copy = Nil

Next ==
    \/ \E body \in Bodies : Create(body) \/ BulkCreate(body) \/ Put(body)
    \/ PutBack
    \/ \E patch \in Patches : Patch(patch)
    \/ Get \/ Delete

Spec == Init /\ [][Next]_vars

-----------------------------------------------------------------------------
(* Searching.                                                              *)

Overlap(a, b) ==
    /\ a.from = Nil \/ b.to = Nil \/ a.from <= b.to
    /\ b.from = Nil \/ a.to = Nil \/ b.from <= a.to

\* Mutant: partitions before the start are left out as well.
FoundInside(query) ==
    LET asked == ParseDatetime(query)
        window == [from |-> Timestamp(asked.from), to |-> Timestamp(asked.to)]
    IN  /\ ~ row.has \/ Overlap(row, window)
        /\ class = "temporal" /\ window.to # Nil => partition <= window.to
        /\ class = "temporal" /\ window.from # Nil => partition >= window.from

\* The predicate on the range, and on the partition for the sake of exclusion.
Found(query) ==
    LET asked == ParseDatetime(query)
        window == [from |-> Timestamp(asked.from), to |-> Timestamp(asked.to)]
    IN  /\ ~ row.has \/ Overlap(row, window)
        /\ class = "temporal" /\ window.to # Nil => partition <= window.to

-----------------------------------------------------------------------------
(* Properties.                                                             *)

\* The microseconds that two texts with all between them stand for.
Microseconds(first, last) ==
    {t \div Micro : t \in {u \in 0 .. Horizon :
        /\ CASE first.kind = "open" -> TRUE
             [] first.kind = "instant" -> u >= first.at - (first.at % Micro)
             [] first.kind = "date" -> u \div Day >= first.at
        /\ CASE last.kind = "open" -> TRUE
             [] last.kind = "instant" -> u <= last.at
             [] last.kind = "date" -> u \div Day <= last.at}}

Meant(time) == LET texts == time[CHOOSE m \in DOMAIN time : TRUE].texts
               IN  Microseconds(texts[1], Last(texts))

\* A search by datetime finds a record exactly when the two have a microsecond in
\* common, dates being whole days, or when the record has no time; excluding the
\* partitions of a temporal catalog loses nothing (search.go:119, README.md:281).
SearchesFindWhatOverlaps ==
    stored # Nil => \A query \in Queries : ParseDatetime(query).ok =>
        (Found(query) <=>
            \/ stored.time = Nil \/ \E m \in DOMAIN stored.time : stored.time[m] = Mistyped
            \/ Meant(stored.time) \cap Microseconds(query[1], Last(query)) # {})

\* Whatever way a record has come to be stored, what GET shows of it names Tlon's
\* links once, and putting that back changes neither what is shown nor the time
\* that is searched (record.go:102, record.go:457).
GetPutIsInvisible ==
    stored # Nil =>
        LET shown == Materialize(stored)
            back == ForPut(shown)
        IN  /\ Valid(shown) /\ OwnId(shown)
            /\ Materialize(back) = shown /\ Row(back) = row
            /\ \A rel \in Managed : \E i \in DOMAIN shown.links :
                   /\ shown.links[i].of = "tlon"
                   /\ \A j \in DOMAIN shown.links : shown.links[j].rel = rel => j = i
                   /\ shown.links[i].rel = rel

\* README.md:138 "That start is the partition key and cannot change after creation;
\* other record fields, including the interval end, remain mutable": a document with
\* the same time is accepted in place of the one that is stored.
OtherFieldsMutable ==
    stored # Nil => Placeable(stored)
=============================================================================
