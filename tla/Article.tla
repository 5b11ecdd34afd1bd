-------------------------------- MODULE Article --------------------------------
(***************************************************************************)
(* Usenet articles (nntp/nntpart.c): two dynamic arrays (alloc/dynarr.c)   *)
(* of lines, the headers and the body, that are read from and written to   *)
(* files.  A line is <<name, text>>: <<"date", t>> stands for "date: t",   *)
(* <<" ", t>> for white space and t, which continues the header above it,  *)
(* and <<"", t>> for any other line.                                       *)
(***************************************************************************)
EXTENDS Integers, FiniteSets, FiniteSetsExt, SequencesExt

CONSTANTS
    Names,      \* the names of headers
    Texts,      \* what follows a name
    Files,      \* the files that can be read, sequences of lines
    MaxHeaders, MaxBody     \* bounds on the lines that are added

Empty == <<"", "">>
HeaderLines == (Names \cup {" "}) \X Texts

VARIABLES
    art,        \* [headers, body], each [data, alloc], where used is Len(data)
    file,       \* what the last call wrote
    ret,        \* what the last call returned
    line        \* the line it gave to the caller, if it did

vars == <<art, file, ret, line>>

Quiet == file' = <<>> /\ line' = Empty

NewArray == [data |-> <<>>, alloc |-> 0]

\* nntp_init_article
NewArticle == [headers |-> NewArray, body |-> NewArray]

Init == art = NewArticle /\ file = <<>> /\ ret = 0 /\ line = Empty

-----------------------------------------------------------------------------
\* dynarr_resize when there is memory
Resized(a, newsize) ==
    [data |-> SubSeq(a.data, 1, Min({Len(a.data), newsize})), alloc |-> newsize]

\* nntp_add_header and nntp_add_body, for the one array or the other
Added(a, l) ==
    LET room == IF Len(a.data) = a.alloc THEN Resized(a, Len(a.data) + 1) ELSE a
    IN  [room EXCEPT !.data = Append(@, l)]

\* They fail without memory for the array, or else for the copy of the line.
AddFailed(a) ==
    {a} \cup IF Len(a.data) = a.alloc THEN {Resized(a, Len(a.data) + 1)} ELSE {}

AllAdded(lines) == FoldLeft(Added, NewArray, lines)

\* The least index from i on of a header hdr, 0 if there is none.
FoundHeader(headers, i, hdr) ==
    Min({j \in i..Len(headers) : headers[j][1] = hdr} \cup {Len(headers) + 1})
        % (Len(headers) + 1)

\* Faulty variant of WithoutHeader: the lines that continue it stay.
WithoutFirstLine(headers, hdr) ==
    LET i == FoundHeader(headers, 1, hdr)
    IN  IF i = 0 THEN headers ELSE RemoveAt(headers, i)

\* nntp_add_unique_header removes the first header hdr with the lines that continue it.
\* (The loop that moves the lines above it reads the one after the last, too, which
\* moves it out of what is used.)
WithoutHeader(headers, hdr) ==
    LET i == FoundHeader(headers, 1, hdr)
        more == CHOOSE n \in 0..Len(headers) - i :
                    /\ \A j \in i + 1..i + n : headers[j][1] = " "
                    /\ i + n < Len(headers) => headers[i + n + 1][1] # " "
    IN  IF i = 0 THEN headers
        ELSE SubSeq(headers, 1, i - 1) \o SubSeq(headers, i + more + 1, Len(headers))

-----------------------------------------------------------------------------
NntpClearArticle ==
    /\ art' = [art EXCEPT !.headers.data = <<>>, !.body.data = <<>>]
    /\ ret' = 0
    /\ Quiet

NntpAddHeader(l) ==
    /\ Len(art.headers.data) < MaxHeaders
    /\ \/ art' = [art EXCEPT !.headers = Added(@, l)] /\ ret' = 0
       \/ \E a \in AddFailed(art.headers) : art' = [art EXCEPT !.headers = a] /\ ret' = -1
    /\ Quiet

NntpAddBody(l) ==
    /\ Len(art.body.data) < MaxBody
    /\ \/ art' = [art EXCEPT !.body = Added(@, l)] /\ ret' = 0
       \/ \E a \in AddFailed(art.body) : art' = [art EXCEPT !.body = a] /\ ret' = -1
    /\ Quiet

\* nntp_set_date is this with the name Date and the date in GMT.  Without memory for
\* the new line the old header is gone all the same.
NntpAddUniqueHeader(hdr, s) ==
    LET rest == [art.headers EXCEPT !.data = WithoutHeader(@, hdr)] IN
    /\ Len(rest.data) < MaxHeaders
    /\ \/ art' = [art EXCEPT !.headers = Added(rest, <<hdr, s>>)] /\ ret' = 0
       \/ \E a \in AddFailed(rest) : art' = [art EXCEPT !.headers = a] /\ ret' = -1
    /\ Quiet

\* The headers end at an empty line or with the file.
HeadersIn(f) ==
    LET end == Min({i \in DOMAIN f : f[i] = Empty} \cup {Len(f) + 1})
    IN  SubSeq(f, 1, end - 1)

BodyIn(f) == SubSeq(f, Len(HeadersIn(f)) + 2, Len(f))

\* An array that is to get the lines: all of them, or as many as there is memory for.
Filled(lines) ==
    {<<AllAdded(lines), 0>>} \cup
    UNION {AddFailed(AllAdded(SubSeq(lines, 1, n))) \X {-1} : n \in 0..Len(lines) - 1}

\* (Bound: clients read into new articles; the old lines are lost otherwise.)
\* getaline returns the same when it fails as at the end of the file.  If it has no
\* memory for a header, the headers end, and the next call may find memory: then all
\* the lines from there on are the body.
NntpReadArticleFile(f) ==
    /\ art = NewArticle
    /\ \E n \in 0..Len(HeadersIn(f)) :
       \E rest \in {SubSeq(f, n + 1, Len(f))} \cup IF n = Len(HeadersIn(f)) THEN {BodyIn(f)} ELSE {} :
       \E m \in 0..Len(rest) :
       \E headers \in Filled(SubSeq(f, 1, n)), body \in Filled(SubSeq(rest, 1, m)) :
            /\ ret' = Min({headers[2], body[2]})
            /\ art' = [headers |-> headers[1],
                       body |-> IF headers[2] = 0 THEN body[1] ELSE NewArray]
    /\ Quiet

\* Faulty variant of Written: no empty line before the body.
WrittenTogether(a) == a.headers.data \o a.body.data \o <<Empty>>

Written(a) == a.headers.data \o <<Empty>> \o a.body.data \o <<Empty>>

NntpWriteArticleFile ==
    /\ \/ file' = Written(art) /\ ret' = 0
       \/ \E n \in 0..Len(Written(art)) - 1 : file' = SubSeq(Written(art), 1, n) /\ ret' = -1
    /\ line' = Empty
    /\ UNCHANGED art

\* (The code counts from 0.)
NntpFindHeader(i, hdr) ==
    LET j == FoundHeader(art.headers.data, i, hdr) IN
    /\ ret' = IF j = 0 THEN -1 ELSE j
    /\ Quiet
    /\ UNCHANGED art

NntpGetHeader(i) ==
    /\ file' = <<>>
    /\ IF i > Len(art.headers.data) THEN ret' = -1 /\ line' = Empty
       ELSE ret' = 0 /\ line' = art.headers.data[i]
    /\ UNCHANGED art

Next ==
    \/ NntpClearArticle \/ NntpWriteArticleFile
    \/ \E l \in HeaderLines : NntpAddHeader(l)
    \/ \E l \in {Empty} \cup {""} \X Texts : NntpAddBody(l)
    \/ \E hdr \in Names :
        \/ \E s \in Texts : NntpAddUniqueHeader(hdr, s)
        \/ \E i \in 1..Len(art.headers.data) + 1 : NntpFindHeader(i, hdr)
    \/ \E i \in 1..Len(art.headers.data) + 1 : NntpGetHeader(i)
    \/ \E f \in Files : NntpReadArticleFile(f)

Spec == Init /\ [][Next]_vars

-----------------------------------------------------------------------------
\* Properties.

\* The headers, each with the lines that continue it.
Fields(headers) ==
    FoldLeft(LAMBDA fields, l :
                IF l[1] = " " /\ fields # <<>>
                THEN Append(Front(fields), Append(Last(fields), l))
                ELSE Append(fields, <<l>>),
             <<>>, headers)

\* The fields other than those called hdr.
Others(fields, hdr) == SelectSeq(fields, LAMBDA field : Head(field)[1] # hdr)

Called(fields, hdr) == SelectSeq(fields, LAMBDA field : Head(field)[1] = hdr)

\* A new unique header comes in the place of the first of its name and of the lines
\* that continued it, and leaves all the other headers whole and in their order.
OthersStayWhole ==
    [][\A hdr \in Names :
        (\E s \in Texts : NntpAddUniqueHeader(hdr, s)) =>
            \E old \in {Fields(art.headers.data)} :
            \E new \in {Fields(art'.headers.data)} :
                /\ Others(new, hdr) = Others(old, hdr)
                /\ ret' = 0 => /\ Len(Last(new)) = 1
                               /\ Len(Called(new, hdr)) = Max({Len(Called(old, hdr)), 1})
                               /\ IsSuffix(Front(Called(new, hdr)), Called(old, hdr))]_vars

\* An article that is written to a file and read again is the same, but for one more
\* empty line at its end (unless a header is an empty line).
FileGivesItBack ==
    file # <<>> /\ ret = 0 /\ Empty \notin Range(art.headers.data) =>
        /\ HeadersIn(file) = art.headers.data
        /\ BodyIn(file) = Append(art.body.data, Empty)
===============================================================================
