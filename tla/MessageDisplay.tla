--------------------------- MODULE MessageDisplay ---------------------------
(***************************************************************************)
(* What of a cached message is shown (crates/presentation/src/mailbox.rs), *)
(* and the date it is shown with (apps/tersa/src/dates.rs).                *)
(*                                                                         *)
(* A message is a sequence of tokens: a header or a boundary with its      *)
(* dashes is one token, as is an end of line, whichever way it is written; *)
(* a body is a sequence of characters, of which those that are written     *)
(* after "=" in quoted-printable are one token too, as are the characters  *)
(* "--outer" in the middle of a line. "pound" is one that takes two bytes, *)
(* "code" a group of base64 characters.                                    *)
(***************************************************************************)
EXTENDS Integers, Sequences, FiniteSets, SequencesExt

CONSTANTS
    None,
    MAX_DISPLAY_BODY_CHARS,
    LastDay       \* the dates are followed from day 0 to this one

\* The text of the last begins with that of the first.
Boundaries == {"outer", "inner", "outer.1"}
Opening == ("outer" :> "--outer") @@ ("inner" :> "--inner") @@ ("outer.1" :> "--outer.1")
Closing == ("outer" :> "--outer--") @@ ("inner" :> "--inner--") @@ ("outer.1" :> "--outer.1--")
Declaring == ("outer" :> "boundary=outer") @@ ("inner" :> "boundary=inner")
                @@ ("outer.1" :> "boundary=outer.1")

\* The tokens that contain "--" and a boundary.
Marks(b) ==
    LET extended == IF b = "outer" THEN {"outer", "outer.1"} ELSE {b}
    IN  {Opening[x] : x \in extended} \cup {Closing[x] : x \in extended}

\* The byte that "=" and two hexadecimal digits stand for.
Hex == ("3D" :> "=") @@ ("20" :> " ") @@ ("C2" :> "c2") @@ ("A3" :> "a3")

\* Where the first of some tokens is; 0 if none is there.
Find(tokens, s) ==
    LET at == {i \in DOMAIN s : s[i] \in tokens} IN IF at = {} THEN 0 ELSE Min(at)

\* Everything before the empty line, and everything after it.
StripHeaders(s) ==
    LET at == {i \in DOMAIN s : i < Len(s) /\ s[i] = "\n" /\ s[i + 1] = "\n"}
    IN  IF at = {} THEN [headers |-> <<>>, body |-> s]
        ELSE [headers |-> SubSeq(s, 1, Min(at) - 1), body |-> SubSeq(s, Min(at) + 2, Len(s))]

MimeBoundary(s) ==
    LET at == Find({Declaring[b] : b \in Boundaries}, s)
    IN  IF at = 0 THEN None ELSE CHOOSE b \in Boundaries : Declaring[b] = s[at]

\* A part of another type follows, or the same one again.
SiblingAt(body) ==
    LET at == {Find({type}, body) : type \in {"html", "plain"}} \ {0, 1}
    IN  IF at = {} THEN 0 ELSE Min(at)

\* (mutant of CutAt: a boundary is looked for only if the message declares none)
CutAtSibling(message, top, body) == SiblingAt(body)

\* Where the text after a part's headers ends, 0 if nowhere: where the declared
\* boundary is next read, in a line or in another boundary too, or else at the headers of a sibling.
CutAt(message, top, body) ==
    LET boundary == IF MimeBoundary(top) # None THEN MimeBoundary(top) ELSE MimeBoundary(message)
    IN  IF boundary # None THEN Find(Marks(boundary), body)
        ELSE SiblingAt(body)

\* The headers from the type on, and the body, of the first part of a type; or
\* what is taken for it.
ExtractMimePart(message, type, fallback) ==
    LET top == StripHeaders(message)
        at == Find({type}, message)
        part == StripHeaders(SubSeq(message, at, Len(message)))
        end == CutAt(message, top.headers, part.body)
    IN  IF at > 0
        THEN [headers |-> part.headers,
              body |-> IF end > 0 THEN SubSeq(part.body, 1, end - 1) ELSE part.body]
        ELSE IF fallback # Contains(top.headers, "html") THEN top ELSE None

PartIsBase64(headers) == Contains(headers, "base64")
PartIsQuotedPrintable(headers) == Contains(headers, "quoted-printable")

LooksQuotedPrintable(body) ==
    \E i \in DOMAIN body :
        /\ i < Len(body) /\ body[i] = "="
        /\ \/ body[i + 1] \in {"\n", "20", "3D"}
           \/ i + 2 \in DOMAIN body /\ body[i + 1] \in {"C2", "F0"} /\ body[i + 2] = "="

\* from_utf8_lossy: two bytes of one character are that character, one alone is
\* replaced.
FromUtf8Lossy(s) ==
    LET from[i \in 1..(Len(s) + 1)] ==
            IF i > Len(s) THEN <<>>
            ELSE IF s[i] = "c2" /\ i < Len(s) /\ s[i + 1] = "a3" THEN <<"pound">> \o from[i + 2]
            ELSE IF s[i] \in {"c2", "a3"} THEN <<"replacement">> \o from[i + 1]
            ELSE <<s[i]>> \o from[i + 1]
    IN  from[1]

DecodeQuotedPrintable(s) ==
    LET from[i \in 1..(Len(s) + 1)] ==
            IF i > Len(s) THEN <<>>
            ELSE IF s[i] = "=" /\ i < Len(s) /\ s[i + 1] = "\n" THEN from[i + 2]
            ELSE IF s[i] = "=" /\ i < Len(s) /\ s[i + 1] \in DOMAIN Hex
                 THEN <<Hex[s[i + 1]]>> \o from[i + 2]
            ELSE <<s[i]>> \o from[i + 1]
    IN  FromUtf8Lossy(from[1])

Trim(s) ==
    LET kept == {i \in DOMAIN s : s[i] \notin {" ", "\n"}}
    IN  IF kept = {} THEN <<>> ELSE SubSeq(s, Min(kept), Max(kept))

Shortened(text) ==
    SubSeq(text, 1, IF Len(text) < MAX_DISPLAY_BODY_CHARS THEN Len(text)
                    ELSE MAX_DISPLAY_BODY_CHARS)

DecodeMimeTextPart(message, type, fallback) ==
    LET part == ExtractMimePart(message, type, fallback)
        encoded == PartIsQuotedPrintable(part.headers) \/ LooksQuotedPrintable(part.body)
    IN  IF part = None THEN <<>>
        ELSE IF ~encoded /\ PartIsBase64(part.headers) THEN <<>>
        ELSE Shortened(Trim(IF encoded THEN DecodeQuotedPrintable(part.body) ELSE part.body))

\* The text and the HTML of a row; an empty one is no field.
FromMessageWithBody(message) ==
    [text |-> DecodeMimeTextPart(message, "plain", TRUE),
     html |-> DecodeMimeTextPart(message, "html", FALSE)]

-----------------------------------------------------------------------------
(* Dates.                                                                   *)

\* (mutant of YearOfEra: every century begins with a leap year)
YearOfEraJulian(dayOfEra) == (dayOfEra - dayOfEra \div 1460) \div 365

YearOfEra(dayOfEra) ==
    (dayOfEra - dayOfEra \div 1460 + dayOfEra \div 36524 - dayOfEra \div 146096) \div 365

\* Days since 1970-01-01 to a date of the Gregorian calendar.
CivilFromDays(days) ==
    LET shifted == days + 719468
        era == shifted \div 146097
        dayOfEra == shifted % 146097
        yearOfEra == YearOfEra(dayOfEra)
        dayOfYear == dayOfEra - (365 * yearOfEra + yearOfEra \div 4 - yearOfEra \div 100)
        monthIndex == (5 * dayOfYear + 2) \div 153
        month == IF monthIndex < 10 THEN monthIndex + 3 ELSE monthIndex - 9
    IN  [year |-> yearOfEra + era * 400 + (IF month <= 2 THEN 1 ELSE 0),
         month |-> month,
         day |-> dayOfYear - (153 * monthIndex + 2) \div 5 + 1]

\* format_utc, in seconds.
FormatUtc(seconds) ==
    [date |-> CivilFromDays(seconds \div 86400),
     hour |-> (seconds % 86400) \div 3600, minute |-> ((seconds % 86400) % 3600) \div 60]

-----------------------------------------------------------------------------
(* Messages: a text, in an encoding, alone or with parts in HTML.           *)

VARIABLES
    day, civil,    \* the day that is looked at, and its date by the calendar
    mail,          \* the message that is displayed, None at first
    row            \* what of it is shown

display == <<day, civil, mail, row>>

Chars == {"x", "=", " ", "\n", "20", "pound", "--outer"}
BodyTexts == UNION {[1..n -> Chars] : n \in 0..3}

\* The ways to write a character in quoted-printable, after a soft break or not.
Written(c) ==
    LET plain == CASE c = "=" -> {<<"=", "3D">>}
                   [] c = "pound" -> {<<"=", "C2", "=", "A3">>}
                   [] c = " " -> {<<" ">>, <<"=", "20">>}
                   [] OTHER -> {<<c>>}
    IN  plain \cup {<<"=", "\n">> \o w : w \in plain}

\* The bodies a content may have in an encoding. The one of base64 has its
\* padding, or needs none.
BodiesOf(content, encoding) ==
    CASE encoding = "none" -> {content}
      [] encoding = "quoted-printable" ->
            {FlattenSeq(w) : w \in {v \in [DOMAIN content -> UNION {Written(c) : c \in Chars}] :
                                       \A i \in DOMAIN content : v[i] \in Written(content[i])}}
      [] encoding = "base64" -> {<<"code">>, <<"code", "=">>}

Encodings == {"none", "quoted-printable", "base64"}

\* A text and the message it is in: what its headers say, in which order; whether
\* it is alone, in a multipart, or in one inside another, which has a boundary
\* of its own or one that begins like the outer one; and the types of the parts.
Mails ==
    UNION {
        [content : {content}, encoding : {encoding}, body : BodiesOf(content, encoding),
         typeFirst : BOOLEAN, shape : {"unmarked", "single", "flat", "nested", "alike"},
         parts : {<<"plain">>, <<"html">>, <<"html", "plain">>, <<"plain", "html">>,
                  <<"plain", "html", "plain">>}]
        : content \in BodyTexts, encoding \in Encodings}

\* No line of a body begins like a boundary.
Valid(m) ==
    /\ \A i \in DOMAIN m.body : m.body[i] = "--outer" => i > 1 /\ m.body[i - 1] # "\n"
    /\ m.shape = "unmarked" => m.parts = <<"plain">>
    /\ m.shape = "single" => Len(m.parts) = 1
    /\ Len(m.parts) = 3 => m.encoding = "none"

Lines(tokens) == FlattenSeq([i \in DOMAIN tokens |-> <<tokens[i], "\n">>])

\* The headers of a text, with those of its type if it has one.
HeadersOf(m, type) ==
    LET encoding == IF m.encoding = "none" THEN <<>> ELSE <<m.encoding>>
    IN  Lines(IF m.typeFirst THEN type \o encoding ELSE encoding \o type)

\* Only the first part in plain text is the text; another is a signature.
Part(m, i) ==
    CASE m.parts[i] = "html" -> Lines(<<"html">>) \o <<"\n", "tags", "\n">>
      [] m.parts[i] = "plain" /\ \E j \in 1..(i - 1) : m.parts[j] = "plain" ->
            Lines(<<"plain">>) \o <<"\n", "signature", "\n">>
      [] OTHER -> HeadersOf(m, <<"plain">>) \o <<"\n">> \o m.body \o <<"\n">>

Multipart(m, b) ==
    Lines(<<Declaring[b]>>) \o <<"\n">>
        \o FlattenSeq([i \in DOMAIN m.parts |-> Lines(<<Opening[b]>>) \o Part(m, i)])
        \o Lines(<<Closing[b]>>)

Message(m) ==
    CASE m.shape = "unmarked" ->
            Lines(<<"subject">>) \o HeadersOf(m, <<>>) \o <<"\n">> \o m.body \o <<"\n">>
      [] m.shape = "single" -> Lines(<<"subject">>) \o Part(m, 1)
      [] m.shape = "flat" -> Multipart(m, "outer")
      [] m.shape \in {"nested", "alike"} ->
            Lines(<<Declaring["outer"]>>) \o <<"\n">> \o Lines(<<Opening["outer"]>>)
                \o Multipart(m, IF m.shape = "nested" THEN "inner" ELSE "outer.1")
                \o Lines(<<Closing["outer"]>>)

-----------------------------------------------------------------------------
IsLeapYear(y) == y % 4 = 0 /\ (y % 100 # 0 \/ y % 400 = 0)

DaysIn(date) ==
    CASE date.month = 2 -> IF IsLeapYear(date.year) THEN 29 ELSE 28
      [] date.month \in {4, 6, 9, 11} -> 30
      [] OTHER -> 31

\* The calendar: the day after a date.
DayAfter(date) ==
    IF date.day < DaysIn(date) THEN [date EXCEPT !.day = @ + 1]
    ELSE IF date.month < 12 THEN [year |-> date.year, month |-> date.month + 1, day |-> 1]
    ELSE [year |-> date.year + 1, month |-> 1, day |-> 1]

DisplayInit ==
    /\ day = 0 /\ civil = [year |-> 1970, month |-> 1, day |-> 1]
    /\ mail = None /\ row = None

NextDay ==
    /\ mail = None /\ day < LastDay
    /\ day' = day + 1
    /\ civil' = DayAfter(civil)
    /\ UNCHANGED <<mail, row>>

Display(m) ==
    /\ mail = None /\ day = 0
    /\ mail' = m
    /\ row' = FromMessageWithBody(Message(m))
    /\ UNCHANGED <<day, civil>>

DisplayNext == NextDay \/ (mail = None /\ day = 0 /\ \E m \in Mails : Valid(m) /\ Display(m))

DisplaySpec == DisplayInit /\ [][DisplayNext]_display

-----------------------------------------------------------------------------
(* Properties.                                                              *)

\* The date of every day is the one that follows the date of the day before,
\* over every length of a month and of a year; and the time of a day does not
\* change its date.
DatesFollow ==
    /\ CivilFromDays(day) = civil
    /\ day < 24855 =>
         FormatUtc(day * 86400 + 86399) = [date |-> civil, hour |-> 23, minute |-> 59]

\* Where the code can tell the encoding. It looks at no header of a part before
\* its type, but knows quoted-printable by some of its escapes; and takes what
\* looks like it for it, whatever the headers say.
Understood(m) ==
    /\ \/ m.encoding = "none" \/ m.typeFirst \/ m.shape = "unmarked"
       \/ m.encoding = "quoted-printable" /\ LooksQuotedPrintable(m.body)
    /\ m.encoding # "quoted-printable" => ~LooksQuotedPrintable(m.body \o <<"\n">>)

\* No line of the text has what begins every boundary of the message.
Uncut(m) == m.shape \in {"unmarked", "single"} \/ "--outer" \notin Range(m.content)

\* A text is shown as it was written, whatever way it was encoded or is guessed
\* to be, with nothing of another part, of a header or of a boundary; a line that
\* has the boundary's text ends it early, and shows nothing that it does not
\* have. A multipart inside another may be shown on, after the text, past its
\* own boundaries, if they do not begin like the outer one. Of a text in base64
\* no undecoded character is shown; and what is kept as HTML is that of the
\* first part in HTML.
ShowsFirstPart ==
    mail # None =>
        /\ "plain" \in Range(mail.parts) /\ Understood(mail) =>
             LET text == Shortened(Trim(mail.content))
             IN  CASE mail.encoding = "base64" -> ~Contains(row.text, "code")
                   [] mail.encoding # "base64" /\ ~Uncut(mail) -> IsPrefix(row.text, text)
                   [] mail.encoding # "base64" /\ Uncut(mail) ->
                        IF mail.shape = "nested" THEN IsPrefix(text, row.text) ELSE row.text = text
        /\ mail.shape # "nested" =>
             row.html = IF "html" \in Range(mail.parts) THEN <<"tags">> ELSE <<>>
=============================================================================
