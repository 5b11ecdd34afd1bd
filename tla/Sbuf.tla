-------------------------------- MODULE Sbuf --------------------------------
(***************************************************************************)
(* An editing buffer (sbuf.c, sbuf_aux.c, sbuf_io.c, sbuf_srch.c): a text, *)
(* the marks clients keep on it, a cache of line numbers, and flags.       *)
(*                                                                         *)
(* The text is a sequence here; how the gap buffer stores it is module     *)
(* GapBuffer.  A library call is one step, except that the calls with a    *)
(* loop in which a line or a block of a file may fail are one step per     *)
(* iteration: `job' is the call in progress, and no other call can start   *)
(* before it returns.                                                      *)
(***************************************************************************)
EXTENDS SbufText, SequencesExt

CONSTANTS
    Handles,        \* the Sbufmark pointers that clients may hold
    Temporary,      \* those that clients destroy again
    Aux,            \* buf->aux, the buffer's own mark
    NoHandle,       \* the handle field of a slot that was never used
    MarkGrow,       \* slots added when none is free (8 in sbuf_mark)
    PosCacheAlloc,  \* room in the position cache (SBUF_POS_CACHE_MIN, 16)
    DirtyBits,      \* the arguments of sbuf_mark_set_dirty
    ColumnarModes,  \* the arguments of sbuf_mark_set_columnar
    Codes,          \* the arguments of sbuf_set_mark_code
    Loads,          \* how a load may begin, see SbufLoad
    Inserts,        \* the strings given to sbuf_strchange
    Chunks,         \* what one fread of sbuf_insert_file may return
    Patterns,       \* the strings given to sbuf_search
    QueryPos,       \* the positions whose line number is asked for
    WriteChars,     \* what a client stores through the pointer of sbuf_lock
    ClientFlags,    \* the flags that clients set and clear
    MaxLen          \* bound on the length of the text

ASSUME HandlesAssumption == Aux \in Handles \ Temporary /\ NoHandle \notin Handles
ASSUME MarkGrowAssumption == MarkGrow \in Nat \ {0}
\* put_into_cache looks at entries 0..2 when the cache is full.
ASSUME PosCacheAllocAssumption == PosCacheAlloc \in Nat /\ PosCacheAlloc >= 4
ASSUME ModesAssumption == ColumnarModes \subseteq BOOLEAN /\ DirtyBits \subseteq BOOLEAN
ASSUME CodesAssumption == Codes \subseteq Nat
ASSUME StringsAssumption ==
    Inserts \subseteq Seq(Chars) /\ Chunks \subseteq Seq(Chars) \ {<<>>}
ASSUME PatternsAssumption == Patterns \subseteq Seq(Chars)
ASSUME QueryPosAssumption == QueryPos \subseteq Nat
ASSUME WriteCharsAssumption == WriteChars \subseteq Chars
ASSUME FlagsAssumption == ClientFlags \subseteq {"locked", "dirty"}
ASSUME MaxLenAssumption == MaxLen \in Nat

VARIABLES
    text,       \* the characters of the buffer
    marks,      \* buf->marks: the slots, in use or not
    slotOf,     \* handle->mark for a handle the client holds, 0 for others
    pc,         \* buf->pc: the known line numbers, by increasing position
    flags,      \* the flags that are set
    job,        \* the library call in progress
    answer      \* what the last call reported, when it was sbuf_lineno

vars == <<text, marks, slotOf, pc, flags, job, answer>>

-----------------------------------------------------------------------------
Mark == [inuse : BOOLEAN, begin : Nat, len : Nat, dirty : BOOLEAN,
         columnar : BOOLEAN, code : Nat, handle : Handles \cup {NoHandle}]

UnusedSlot == [inuse |-> FALSE, begin |-> 0, len |-> 0, dirty |-> FALSE,
               columnar |-> FALSE, code |-> 0, handle |-> NoHandle]

NewMark(h, pos, len) ==
    [inuse |-> TRUE, begin |-> pos, len |-> len, dirty |-> FALSE,
     columnar |-> FALSE, code |-> 0, handle |-> h]

MoreSlots == [i \in 1..MarkGrow |-> UnusedSlot]

MarkOf(h) == marks[slotOf[h]]
EndOf(m)  == m.begin + m.len

NoAnswer == [pos |-> -1, line |-> -1]

\* What a call in progress still has to do.
Idle    == [op |-> "idle"]
Aborted == [op |-> "aborted"]      \* an assertion failed

\* A client that holds h may call: no call is in progress.
Ready(h) == job = Idle /\ slotOf[h] # 0 /\ h # Aux
Locked   == "locked" \in flags

Init ==
    /\ text = <<>>
    /\ marks = [MoreSlots EXCEPT ![1] = NewMark(Aux, 0, 0)]
    /\ slotOf = [h \in Handles |-> IF h = Aux THEN 1 ELSE 0]
    /\ pc = <<>>
    /\ flags = {}
    /\ job = Idle
    /\ answer = NoAnswer

-----------------------------------------------------------------------------
\* Marks.

\* Faulty variant of FreeSlots: slots in use are taken as well.
AnySlots == DOMAIN marks

FreeSlots == {i \in DOMAIN marks : ~marks[i].inuse}

\* Faulty variant of SbufMark: the slot keeps the code of the mark that had it.
SbufMarkKeepsCode(h, pos, len) ==
    LET room == IF FreeSlots = {} THEN marks \o MoreSlots ELSE marks
        slot == IF FreeSlots = {} THEN Len(marks) + 1 ELSE Min(FreeSlots)
    IN  /\ job = Idle /\ slotOf[h] = 0
        /\ pos + len <= Len(text)
        /\ marks' = [room EXCEPT ![slot] =
                        [NewMark(h, pos, len) EXCEPT !.code = room[slot].code]]
        /\ slotOf' = [slotOf EXCEPT ![h] = slot]
        /\ answer' = NoAnswer
        /\ UNCHANGED <<text, pc, flags, job>>

\* sbuf_mark: the first free slot, or the first of MarkGrow new ones.
SbufMark(h, pos, len) ==
    LET room == IF FreeSlots = {} THEN marks \o MoreSlots ELSE marks
        slot == IF FreeSlots = {} THEN Len(marks) + 1 ELSE Min(FreeSlots)
    IN  /\ job = Idle /\ slotOf[h] = 0
        /\ pos + len <= Len(text)
        /\ marks' = [room EXCEPT ![slot] = NewMark(h, pos, len)]
        /\ slotOf' = [slotOf EXCEPT ![h] = slot]
        /\ answer' = NoAnswer
        /\ UNCHANGED <<text, pc, flags, job>>

\* sbuf_mark when the slots could be added but the handle has no memory.
SbufMarkNoMemory ==
    /\ job = Idle /\ FreeSlots = {} /\ \E h \in Handles : slotOf[h] = 0
    /\ marks' = marks \o MoreSlots
    /\ answer' = NoAnswer
    /\ UNCHANGED <<text, slotOf, pc, flags, job>>

\* sbuf_unmark: the slot keeps its contents; the client forgets the handle.
SbufUnmark(h) ==
    /\ Ready(h) /\ h \in Temporary
    /\ marks' = [marks EXCEPT ![slotOf[h]].inuse = FALSE]
    /\ slotOf' = [slotOf EXCEPT ![h] = 0]
    /\ answer' = NoAnswer
    /\ UNCHANGED <<text, pc, flags, job>>

\* sbuf_remark as a function of the slots.
Remarked(ms, slot, pos, len) ==
    [ms EXCEPT ![slot].begin = pos, ![slot].len = len, ![slot].dirty = FALSE]

SbufRemark(h, pos, len) ==
    /\ Ready(h)
    /\ pos + len <= Len(text)
    /\ marks' = Remarked(marks, slotOf[h], pos, len)
    /\ answer' = NoAnswer
    /\ UNCHANGED <<text, slotOf, pc, flags, job>>

\* sbuf_mark_set_dirty, sbuf_mark_set_columnar and sbuf_set_mark_code
SetMark(h) ==
    /\ Ready(h)
    /\ \/ \E mode \in ColumnarModes :
            marks' = [marks EXCEPT ![slotOf[h]].columnar = mode]
       \/ \E code \in Codes :
            marks' = [marks EXCEPT ![slotOf[h]].code = code]
       \/ \E dirty \in DirtyBits :
            marks' = [marks EXCEPT ![slotOf[h]].dirty = dirty]
    /\ answer' = NoAnswer
    /\ UNCHANGED <<text, slotOf, pc, flags, job>>

\* sbuf_find_mark_by_code: the handle of the first slot with that code.
FindMarkByCode(code) ==
    LET found == {i \in DOMAIN marks : marks[i].inuse /\ marks[i].code = code}
    IN  IF code = 0 \/ found = {} THEN NoHandle ELSE marks[Min(found)].handle

\* sbuf_search without SBUF_REGEX: h becomes the first (or last) match inside
\* the other mark; without a match nothing changes.
SbufSearch(h, inside, pat, backward) ==
    LET found == Matches(text, MarkOf(inside), pat)
    IN  /\ Ready(h) /\ Ready(inside)
        /\ found # {}
        /\ marks' = Remarked(marks, slotOf[h],
                             IF backward THEN Max(found) ELSE Min(found),
                             Len(pat))
        /\ answer' = NoAnswer
        /\ UNCHANGED <<text, slotOf, pc, flags, job>>

-----------------------------------------------------------------------------
\* Changing the text.

\* Faulty variants of AdjustMark: the end of a mark that ends inside the range
\* is not told from one that ends after it; a mark that begins inside the range
\* keeps its beginning.
AdjustMarkNoOverlap(m, begin, len, newlen) ==
    IF m.begin < begin /\ EndOf(m) > begin
    THEN [m EXCEPT !.len = m.len - len + newlen, !.dirty = TRUE]
    ELSE IF m.begin >= begin /\ m.begin <= begin + len
    THEN [m EXCEPT !.begin = begin, !.len = newlen + (EndOf(m) - (begin + len)),
                   !.dirty = TRUE]
    ELSE IF m.begin >= begin + len
    THEN [m EXCEPT !.begin = m.begin + newlen - len]
    ELSE m

AdjustMarkKeepsBegin(m, begin, len, newlen) ==
    IF m.begin < begin /\ EndOf(m) > begin
    THEN [m EXCEPT !.len = IF EndOf(m) <= begin + len
                           THEN newlen + begin - m.begin
                           ELSE m.len - len + newlen,
                   !.dirty = TRUE]
    ELSE IF m.begin > begin + len
    THEN [m EXCEPT !.begin = m.begin + newlen - len]
    ELSE m

\* adjust_marks for one mark: the range (begin, len) has become
\* (begin, newlen).  The three cases are tried in this order.
AdjustMark(m, begin, len, newlen) ==
    LET mend   == EndOf(m)
        oldend == begin + len
    IN  IF m.begin < begin /\ mend > begin
        THEN [m EXCEPT !.len = IF mend <= oldend THEN newlen + begin - m.begin
                               ELSE m.len - len + newlen,
                       !.dirty = TRUE]
        ELSE IF m.begin >= begin /\ m.begin <= oldend
        THEN [m EXCEPT !.begin = begin,
                       !.len = IF mend > oldend THEN newlen + (mend - oldend)
                               ELSE newlen,
                       !.dirty = TRUE]
        ELSE IF m.begin >= oldend
        THEN [m EXCEPT !.begin = m.begin + newlen - len]
        ELSE m

AdjustMarks(ms, begin, len, newlen) ==
    [i \in DOMAIN ms |->
        IF ms[i].inuse THEN AdjustMark(ms[i], begin, len, newlen) ELSE ms[i]]

\* A change of the text by replace_mark_part and the adjust_marks that always
\* follows it; ms are the slots before it.
Edit(ms, pos, len, new) ==
    /\ text' = Splice(text, pos, len, new)
    /\ marks' = AdjustMarks(ms, pos, len, Len(new))

\* The two loops over the position cache stop after this many entries: at the
\* first entry that is not before pos, or, coming from the end, at the last
\* one that is.
EntriesBefore(c, pos)    == Min({i \in 0..Len(c) : i = Len(c) \/ c[i + 1].pos >= pos})
EntriesUpToLast(c, pos)  == Max({i \in 0..Len(c) : i = 0 \/ c[i].pos < pos})

\* Faulty variant of AdjustPosCache: the line numbers stay as they are.
AdjustPosCacheSameLines(c, pos, oldlen, newlen, n) ==
    LET kept  == SubSeq(c, 1, EntriesBefore(c, pos))
        after == SubSeq(c, EntriesBefore(c, pos + oldlen) + 1, Len(c))
    IN  kept \o [i \in 1..Len(after) |->
                    [pos  |-> after[i].pos + newlen - oldlen,
                     line |-> after[i].line]]

\* sbuf_adjust_pos_cache: the entries in the old range are dropped, those
\* after it move with the text and get n more lines.
AdjustPosCache(c, pos, oldlen, newlen, n) ==
    LET kept  == SubSeq(c, 1, EntriesBefore(c, pos))
        after == SubSeq(c, EntriesBefore(c, pos + oldlen) + 1, Len(c))
    IN  kept \o [i \in 1..Len(after) |->
                    [pos  |-> after[i].pos + newlen - oldlen,
                     line |-> after[i].line + n]]

\* Faulty variant of ClearPosCache: the loop stops one entry early.
ClearPosCacheLeavesOne(c, pos) ==
    SubSeq(c, 1, Min({Len(c), EntriesUpToLast(c, pos) + 1}))

\* sbuf_clear_pos_cache
ClearPosCache(c, pos) == SubSeq(c, 1, EntriesUpToLast(c, pos))

\* strchange: Edit, with the position cache following it.
StrChange(ms, pos, len, new) ==
    /\ Edit(ms, pos, len, new)
    /\ pc' = AdjustPosCache(pc, pos, len, Len(new),
                 Newlines(new) - Newlines(SubSeq(text, pos + 1, pos + len)))

\* What is left of t without the characters at the positions of out.  The call
\* in progress carries it (want) for RemovesTheSelectedBitOfLetters.
Without(t, out) ==
    LET rest == {p \in 0..Len(t) - 1 : p \notin out}
        nth[i \in 0..Cardinality(rest)] ==
            IF i = 0 THEN -1 ELSE Min({q \in rest : q > nth[i - 1]})
    IN  [i \in 1..Cardinality(rest) |-> t[nth[i] + 1]]

\* remove_columnar_mark begins at the mark's last line; sbuf_strchange gives
\* up when the mark's end is to the left of its beginning.
StartColumns(h, new) ==
    LET m    == MarkOf(h)
        from == Colno(text, m.begin)
        to   == Colno(text, EndOf(m))
        out  == {p \in InColumns(text, m.begin, m.len) : text[p + 1] # NL}
    IN  /\ job' = IF from > to THEN Idle
                  ELSE [op |-> "remove", h |-> h, new |-> new,
                        p |-> Boln(text, EndOf(m)), top |-> Boln(text, m.begin),
                        from |-> from, to |-> to,
                        want |-> Without(text, out)]
        /\ UNCHANGED <<text, marks, pc, flags>>

\* The longest the text can get when new replaces the contents of h.
Fits(h, new) ==
    IF MarkOf(h).columnar
    THEN Len(text) + StringHeight(new) * StringWidth(new) <= MaxLen
    ELSE Len(text) - MarkOf(h).len + Len(new) <= MaxLen

Change(h, new) ==
    /\ Fits(h, new)
    /\ IF MarkOf(h).columnar
       THEN StartColumns(h, new)
       ELSE /\ StrChange(marks, MarkOf(h).begin, MarkOf(h).len, new)
            /\ flags' = flags \cup {"dirty"}
            /\ UNCHANGED job
    /\ answer' = NoAnswer
    /\ UNCHANGED slotOf

SbufStrchange(h, new) ==
    /\ Ready(h) /\ ~Locked
    /\ Change(h, new)

\* sbuf_change: the text of repl is copied before h is changed.
SbufChange(h, repl) ==
    /\ Ready(h) /\ ~Locked /\ Ready(repl)
    /\ Change(h, Strat(text, MarkOf(repl)))

-----------------------------------------------------------------------------
\* The loops of a columnar change.

\* insert_columnar_text begins where the mark is after the removal.
InsertJob(t, m, h, new) ==
    [op |-> "insert", h |-> h, rest |-> new, pos |-> m.begin,
     begin |-> m.begin, end |-> m.begin, col |-> Colno(t, m.begin),
     w |-> StringWidth(new)]

\* Faulty variants of LineAbove: only one line is done; line 0 is never left.
LineAboveNone(t, p) == -1
LineAboveNoStop(t, p) == IF p = 0 THEN 0 ELSE Boln(t, p - 1)

\* The step from one line to the one above: sbuf_boln(p - 1), -1 above line 0.
LineAbove(t, p) == IF p = 0 THEN -1 ELSE Boln(t, p - 1)

\* The part of the line at p that is in the columns of the call in progress.
PartBegin == Colpos(text, job.p, job.from)
PartEnd   == Colpos(text, job.p, job.to)

\* One iteration of remove_columnar_mark.
RemoveLine ==
    /\ job.op = "remove" /\ PartBegin <= PartEnd
    /\ Edit(marks, PartBegin, PartEnd - PartBegin, <<>>)
    /\ pc' = ClearPosCache(pc, job.p)
    /\ flags' = flags \cup {"dirty"}
    /\ LET above == LineAbove(text', job.p)
       IN  job' = IF above >= job.top THEN [job EXCEPT !.p = above]
                  ELSE InsertJob(text', marks'[slotOf[job.h]], job.h, job.new)
    /\ UNCHANGED <<slotOf, answer>>

\* One iteration of insert_columnar_text: the next line of the new text is put
\* at job.pos, padded to the width of the column; replace_mark_part asserts
\* that it is no longer than that.
InsertLine ==
    LET n == LineLength(job.rest)
    IN  /\ job.op = "insert" /\ job.rest # <<>>
        /\ n <= job.w
        /\ Edit(marks, job.pos, 0, Pad(job.rest, n, job.w))
        /\ pc' = ClearPosCache(pc, job.pos)
        /\ flags' = flags \cup {"dirty"}
        /\ job' = [job EXCEPT !.rest = NextLine(job.rest),
                              !.end = job.pos + job.w,
                              !.pos = Colpos(text', Eoln(text', job.pos), job.col)]
        /\ UNCHANGED <<slotOf, answer>>

InsertLineAborts ==
    /\ job.op = "insert" /\ job.rest # <<>>
    /\ LineLength(job.rest) > job.w
    /\ job' = Aborted
    /\ UNCHANGED <<text, marks, slotOf, pc, flags, answer>>

\* The mark gets the text that was inserted.
InsertEnd ==
    /\ job.op = "insert" /\ job.rest = <<>>
    /\ marks' = Remarked(marks, slotOf[job.h], job.begin, job.end - job.begin)
    /\ job' = Idle
    /\ UNCHANGED <<text, slotOf, pc, flags, answer>>

\* sbuf_movegap finds no memory: it asks for some when there is text to insert,
\* or when the buffer has never had any.
ColumnsNoMemory ==
    /\ \/ job.op = "insert" /\ job.rest # <<>> /\ LineLength(job.rest) <= job.w
       \/ job.op = "remove" /\ text = <<>>
    /\ job' = Idle
    /\ UNCHANGED <<text, marks, slotOf, pc, flags, answer>>

-----------------------------------------------------------------------------
\* Reading a file into the buffer.

ReadJob(h, begin, load) ==
    [op |-> "read", h |-> h, begin |-> begin, got |-> <<>>, load |-> load]

\* sbuf_load up to the first fread: the old text is removed, then the file is
\* opened.  A file that does not exist is an empty one.
SbufLoad(opened) ==
    /\ job = Idle /\ ~Locked
    /\ StrChange(Remarked(marks, slotOf[Aux], 0, Len(text)), 0, Len(text), <<>>)
    /\ flags' = IF opened = "none" THEN (flags \cup {"loaded"}) \ {"dirty"}
                ELSE flags \cup {"loaded", "dirty"}
    /\ job' = IF opened = "yes" THEN ReadJob(Aux, 0, TRUE) ELSE Idle
    /\ answer' = NoAnswer
    /\ UNCHANGED slotOf

\* sbuf_load of a new buffer when there is no memory even for an empty text.
SbufLoadNoMemory ==
    /\ job = Idle /\ ~Locked /\ text = <<>>
    /\ flags' = flags \cup {"loaded"}
    /\ marks' = Remarked(marks, slotOf[Aux], 0, 0)
    /\ answer' = NoAnswer
    /\ UNCHANGED <<text, slotOf, pc, job>>

\* sbuf_load of a buffer without a name.
SbufLoadNoName ==
    /\ job = Idle
    /\ flags' = (flags \cup {"loaded"}) \ {"dirty"}
    /\ answer' = NoAnswer
    /\ UNCHANGED <<text, marks, slotOf, pc, job>>

\* sbuf_insert_file on a client's mark.
SbufInsertFile(h) ==
    /\ Ready(h) /\ ~Locked /\ ~MarkOf(h).columnar
    /\ job' = ReadJob(h, MarkOf(h).begin, FALSE)
    /\ answer' = NoAnswer
    /\ UNCHANGED <<text, marks, slotOf, pc, flags>>

\* One block read: it goes after what the mark holds, and the mark then holds
\* that block.
ReadChunk(s) ==
    LET end == EndOf(MarkOf(job.h))
    IN  /\ job.op = "read"
        /\ Len(text) + Len(s) <= MaxLen
        /\ StrChange(Remarked(marks, slotOf[job.h], end, 0), end, 0, s)
        /\ flags' = flags \cup {"dirty"}
        /\ job' = [job EXCEPT !.got = job.got \o s]
        /\ UNCHANGED <<slotOf, answer>>

\* sbuf_load clears the dirty bit however the reading ended.
FlagsAfterRead(f) == IF job.load THEN f \ {"dirty"} ELSE f

ReadEnd ==
    /\ job.op = "read"
    /\ flags' = FlagsAfterRead(flags)
    /\ job' = Idle
    /\ UNCHANGED <<text, marks, slotOf, pc, answer>>

\* Faulty variant of ReadError: only the last block is removed.
ReadErrorLastBlock ==
    LET m == MarkOf(job.h)
    IN  /\ job.op = "read"
        /\ StrChange(marks, m.begin, m.len, <<>>)
        /\ flags' = FlagsAfterRead(flags \cup {"dirty"})
        /\ job' = Idle
        /\ UNCHANGED <<slotOf, answer>>

\* A read error, or no memory for a block: everything from where the mark
\* began is removed again.
ReadError ==
    LET gone == EndOf(MarkOf(job.h)) - job.begin
    IN  /\ job.op = "read"
        /\ StrChange(Remarked(marks, slotOf[job.h], job.begin, gone),
                     job.begin, gone, <<>>)
        /\ flags' = FlagsAfterRead(flags \cup {"dirty"})
        /\ job' = Idle
        /\ UNCHANGED <<slotOf, answer>>

-----------------------------------------------------------------------------
\* Flags and the lock.

SbufSetDirty(dirty) ==
    /\ job = Idle
    /\ flags' = IF dirty THEN flags \cup {"dirty"} ELSE flags \ {"dirty"}
    /\ answer' = NoAnswer
    /\ UNCHANGED <<text, marks, slotOf, pc, job>>

SbufLock ==
    /\ job = Idle /\ ~Locked
    /\ flags' = flags \cup {"locked"}
    /\ answer' = NoAnswer
    /\ UNCHANGED <<text, marks, slotOf, pc, job>>

SbufUnlock ==
    /\ job = Idle /\ Locked
    /\ flags' = flags \ {"locked"}
    /\ answer' = NoAnswer
    /\ UNCHANGED <<text, marks, slotOf, pc, job>>

\* The holder of the lock may modify the text but not its length.
ClientWrite(pos, c) ==
    /\ job = Idle /\ Locked
    /\ text[pos + 1] \in WriteChars
    /\ text' = [text EXCEPT ![pos + 1] = c]
    /\ answer' = NoAnswer
    /\ UNCHANGED <<marks, slotOf, pc, flags, job>>

-----------------------------------------------------------------------------
\* Line numbers.

\* find_nearest: the index of the entry nearest to pos, the later one of two
\* equally near.
FindNearest(pos) ==
    LET next == EntriesBefore(pc, pos) + 1
    IN  IF Len(pc) = 1 \/ pos <= pc[1].pos THEN 1
        ELSE IF pos >= pc[Len(pc)].pos THEN Len(pc)
        ELSE IF pos - pc[next - 1].pos < pc[next].pos - pos THEN next - 1
        ELSE next

\* Faulty variant of ComputeLineno: counting backward is off by one character.
ComputeLinenoOffByOne(pos, known, line) ==
    IF known <= pos
    THEN line + Newlines(SubSeq(text, known + 1, pos))
    ELSE line - Newlines(SubSeq(text, pos + 1, known - 1))

\* compute_lineno: count the newlines between a known position and pos.
ComputeLineno(pos, known, line) ==
    IF known <= pos
    THEN line + Newlines(SubSeq(text, known + 1, pos))
    ELSE line - Newlines(SubSeq(text, pos + 1, known))

\* The first half of put_into_cache: a full cache loses the entry whose two
\* neighbours are closest to each other.
MakeRoom(c) ==
    LET span(i) == c[i].pos - c[i - 2].pos
        least   == {i \in 3..Len(c) : \A j \in 3..Len(c) : span(i) <= span(j)}
    IN  IF Len(c) >= PosCacheAlloc - 1 THEN RemoveAt(c, Min(least) - 1) ELSE c

\* put_into_cache
PutIntoCache(c, pos, line) ==
    LET room == MakeRoom(c)
    IN  InsertAt(room, EntriesUpToLast(room, pos) + 1,
                 [pos |-> pos, line |-> line])

\* What sbuf_lineno returns.
LinenoOf(pos) ==
    IF pc = <<>> THEN ComputeLineno(pos, 0, 0)
    ELSE LET e == pc[FindNearest(pos)] IN ComputeLineno(pos, e.pos, e.line)

SbufLineno(pos) ==
    /\ job = Idle /\ pos <= Len(text)
    /\ answer' = [pos |-> pos, line |-> LinenoOf(pos)]
    /\ pc' = IF pc # <<>> /\ pc[FindNearest(pos)].pos = pos THEN pc
             ELSE PutIntoCache(pc, pos, LinenoOf(pos))
    /\ UNCHANGED <<text, marks, slotOf, flags, job>>

-----------------------------------------------------------------------------
Positions == 0..MaxLen

ClientCall ==
    \/ \E h \in Handles :
        \/ \E pos, len \in Positions : SbufMark(h, pos, len) \/ SbufRemark(h, pos, len)
        \/ SbufUnmark(h)
        \/ SetMark(h)
        \/ \E new \in Inserts : SbufStrchange(h, new)
        \/ \E repl \in Handles : SbufChange(h, repl)
        \/ SbufInsertFile(h)
        \/ \E inside \in Handles, pat \in Patterns, backward \in BOOLEAN :
              SbufSearch(h, inside, pat, backward)
    \/ SbufMarkNoMemory
    \/ \E opened \in Loads \cap {"yes", "none", "error"} : SbufLoad(opened)
    \/ "nomem" \in Loads /\ SbufLoadNoMemory
    \/ "noname" \in Loads /\ SbufLoadNoName
    \/ "dirty" \in ClientFlags /\ \E dirty \in BOOLEAN : SbufSetDirty(dirty)
    \/ "locked" \in ClientFlags /\ (SbufLock \/ SbufUnlock)
    \/ \E pos \in 0..Len(text) - 1, c \in WriteChars : ClientWrite(pos, c)
    \/ \E pos \in QueryPos : SbufLineno(pos)

\* The steps of a call that is in progress.
CallStep ==
    \/ RemoveLine \/ InsertLine \/ InsertLineAborts \/ InsertEnd
    \/ ColumnsNoMemory
    \/ (\E s \in Chunks : ReadChunk(s)) \/ ReadEnd \/ ReadError

\* After a failed assertion nothing happens any more.
Dead == job = Aborted /\ UNCHANGED vars

Next == ClientCall \/ CallStep \/ Dead

Spec == Init /\ [][Next]_vars

\* A call runs on the caller's thread until it returns.
FairSpec == Spec /\ WF_vars(CallStep)

-----------------------------------------------------------------------------
\* Properties.

\* Every variable has a value of its kind, and the call in progress holds
\* positions and marks that exist.
JobTypeOK ==
    \/ job = Idle
    \/ job = Aborted
    \/ /\ job \in [op : {"remove"}, h : Handles, new : Seq(Chars), p : Nat,
                   top : Nat, from : Nat, to : Nat, want : Seq(Chars)]
       /\ job.p <= Len(text)
    \/ /\ job \in [op : {"insert"}, h : Handles, rest : Seq(Chars), pos : Nat,
                   begin : Nat, end : Nat, col : Nat, w : Nat]
       /\ job.begin <= job.end /\ job.end <= job.pos /\ job.pos <= Len(text)
    \/ /\ job \in [op : {"read"}, h : Handles, begin : Nat, got : Seq(Chars),
                   load : BOOLEAN]

TypeOK ==
    /\ text \in Seq(Chars)
    /\ marks \in Seq(Mark)
    /\ slotOf \in [Handles -> 0..Len(marks)]
    /\ pc \in Seq([pos : Nat, line : Int])
    /\ flags \subseteq {"locked", "dirty", "loaded"}
    /\ JobTypeOK
    /\ answer \in [pos : Int, line : Int]

\* The assertions of sbuf_validate and adjust_marks: after any edit made
\* through any mark, every mark in use lies within the text.
MarksInBounds ==
    \A i \in DOMAIN marks :
        marks[i].inuse => marks[i].begin + marks[i].len <= Len(text)

\* A handle a client holds names a slot in use that names it back, and no slot
\* in use is forgotten, although sbuf_mark reuses freed slots and moves the
\* whole array when it grows.
HandlesMatchSlots ==
    /\ slotOf[Aux] # 0
    /\ \A h \in Handles : slotOf[h] # 0 =>
            marks[slotOf[h]].inuse /\ marks[slotOf[h]].handle = h
    /\ \A i \in DOMAIN marks : marks[i].inuse => 
            marks[i].handle \in Handles /\ slotOf[marks[i].handle] = i

\* The code that h has as far as its holder knows: none before sbuf_mark.
CodeOf(h) == IF slotOf[h] = 0 THEN 0 ELSE MarkOf(h).code

\* A search for a code finds a handle that has it, and none only if none has.
Finds(code) ==
    LET found == FindMarkByCode(code)
    IN  IF found = NoHandle THEN \A h \in Handles : CodeOf(h) # code
        ELSE found \in Handles /\ CodeOf(found) = code

\* sbuf_find_mark_by_code and sbuf_set_mark_code: searching by a code finds a handle for
\* which it was set, and finds none only if nobody holds one.  A handle has the code last
\* set for it until it is given up: a new mark has none although the slot's last mark had
\* one, and no edit, no search and no other mark, made or given up, changes it.
CodesFindTheirMarks ==
    [][ /\ \A h \in Handles : CodeOf(h)' # CodeOf(h) =>
            \/ slotOf'[h] = 0
            \/ /\ slotOf[h] # 0 /\ CodeOf(h)' \in Codes
               /\ marks' = [marks EXCEPT ![slotOf[h]].code = CodeOf(h)']
        /\ \A code \in Codes \ {0} : Finds(code)' ]_vars

\* The cached pairs are right, whatever edits there were since they were computed: the
\* line number is that of the position in the text as it is now.  The positions
\* strictly increase, as the search for the nearest assumes, and the array is never
\* overrun (check_pos_cache).
PosCacheRight ==
    /\ Len(pc) < PosCacheAlloc
    /\ \A i \in 1..Len(pc) - 1 : pc[i].pos < pc[i + 1].pos
    /\ \A i \in DOMAIN pc :
            pc[i].pos <= Len(text) /\ pc[i].line = LineOf(text, pc[i].pos)

\* sbuf_lineno: whichever cached pair it starts from, counting forward or
\* backward, the answer is the number of newlines before the position.
AnswersAreRight ==
    answer # NoAnswer => answer.line = LineOf(text, answer.pos)

\* sbuf_change allocates sbuf_mark_length characters for what sbuf_strat then copies: as
\* many as the one loop counts the other copies; and they are those that
\* sbuf_pos_inside_mark, which asks for the column of a position anew, finds inside the
\* mark, and the newlines between them.
LengthIsWhatIsCopied ==
    \A h \in Handles : slotOf[h] # 0 =>
        LET m == MarkOf(h)
            taken == IF m.columnar THEN InColumns(text, m.begin, m.len)
                     ELSE m.begin..m.begin + m.len - 1
        IN  /\ MarkLength(text, m) = Len(Strat(text, m))
            /\ Strat(text, m) = Without(text, (0..Len(text) - 1) \ taken)
            /\ \A p \in 0..Len(text) - 1 :
                text[p + 1] # NL => (PosInsideMark(text, m, p) <=> p \in taken)

\* sbuf_colpos undoes sbuf_colno: at the column of a character of the line
\* stands that character, whatever tabs precede it.
ColumnsAreInverse ==
    \A p \in 0..Len(text) : Colpos(text, Boln(text, p), Colno(text, p)) = p

\* "Remove the selected bit in all lines of a columnar mark": the removal
\* takes the characters that sbuf_strat copies, and leaves all others, as long
\* as there are no tabs: of one that straddles the edge of the columns only one
\* of the two takes notice.
RemovesTheSelectedBitOfLetters ==
    [][(/\ job.op = "remove" /\ job'.op = "insert"
        /\ Tab \notin Range(job.want) \cup Range(text')) => text' = job.want]_vars

\* replace_mark_part asserts that a line of the new text is not longer than
\* the width of the column it goes to: assert(n <= w).
NeverAborts == job # Aborted

\* A file that could not be read to the end leaves an empty buffer, never a
\* part of the file; one that was read is there in order.
FailedLoadIsEmpty ==
    [][(job.op = "read" /\ job.load /\ job' = Idle /\ text' # job.got)
            => text' = <<>>]_vars

\* A call in progress returns, or fails an assertion: the loops over the lines
\* of a columnar mark end.
CallsReturn == (job # Idle) ~> (job = Idle \/ job = Aborted)
=============================================================================
