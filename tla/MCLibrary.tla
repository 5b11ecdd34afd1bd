------------------------------- MODULE MCLibrary -------------------------------
(***************************************************************************)
(* Small instances of the parts of the library that are used by one        *)
(* process and do not interact with one another.  Each behaviour is that   *)
(* of one part, which the variable part names; the variables of the others *)
(* stay as they are at the beginning.                                      *)
(***************************************************************************)
EXTENDS GapBuffer

CONSTANTS d1, d2, a1, a2, b1, c1, NULL, NoKey, Equals, Other, saver

VARIABLES part,
    queue, queue_heap, queue_answer,
    stack, stack_heap, stack_answer,
    tab, tab_heap, tab_answer,
    isets, ranges, assertions, stopped, iset_ret,
    arr, compare, priq_answer,
    logs, logison, closed, log_text, messages, since, log_ret,
    art, article_file, article_ret, article_line,
    buffer, edited, str_ret,
    name, path, files, result, fn_ret, called, beyond,
    block, max, literal, unescaped,
    octets, encoded, decoded,
    dir, pc, data, temp, mode, save_ret,
    content, at, error, reading, got_text, size, got, file_ret, file_data,
    text, word_answer

\* Parts of the text that a string replaces are longer and shorter than it is; what is
\* taken out again leaves gaps of every size, which a string may or may not fit into.
SmallStrings == {<<>>, <<"NL", "a">>}

-----------------------------------------------------------------------------
\* Queues and stacks of pointers and of copies.
TheQueue == INSTANCE Queue WITH
    Data <- {d1, d2}, Copied <- {d1}, MaxLine <- 3,
    heap <- queue_heap, answer <- queue_answer

\* The arrays of a stack grow by two.
TheStack == INSTANCE Stack WITH
    Data <- {d1, d2}, Copied <- {d1}, MaxLine <- 3, Growth <- 2,
    heap <- stack_heap, answer <- stack_answer

\* a1 and a2 are equal, b1 has their hash value, c1 only the same remainder.
TableData == {a1, a2, b1, c1}
Keyed  == [d \in TableData |-> IF d = a2 THEN a1 ELSE d]
Hashed == [d \in TableData |-> IF d = c1 THEN 3 ELSE 1]

TheTable == INSTANCE Hash WITH
    Data <- TableData, Copied <- {a1, b1}, KeyOf <- Keyed, HashOf <- Hashed, TableSize <- 2,
    heap <- tab_heap, answer <- tab_answer

\* Two or three ranges in one set, with memory for four in both.
TheIsets == INSTANCE Iset WITH
    Numbers <- 1..4, Added <- {<<2, 3>>}, Removed <- {<<2, 4>>}, MaxBlocks <- 4,
    heap <- ranges, ret <- iset_ret

\* Up to seven elements: a node whose parent has an uncle, and ties.
ThePriq == INSTANCE Priq WITH
    Keys <- {1, 2, 3}, MaxUsed <- 7, answer <- priq_answer

TheLogs == INSTANCE Log WITH
    Levels <- {0, 1}, MaxLogs <- 2, MaxMessages <- 2, text <- log_text, ret <- log_ret

ArticleFiles ==
    {<<<<"s", "1">>, <<" ", "1">>, <<"", "">>, <<"", "1">>>>, <<<<"s", "1">>, <<"", "1">>>>}

\* Fields of one and two lines, with one name twice.
TheArticle == INSTANCE Article WITH
    Names <- {"s", "d"}, Texts <- {"1"}, Files <- ArticleFiles,
    MaxHeaders <- 3, MaxBody <- 1,
    file <- article_file, ret <- article_ret, line <- article_line

\* Strings of tabs, blanks and the letter a, changed once.
TheStrings == INSTANCE Strutil WITH
    Size <- 7, Chars <- {9, 32, 97}, Longest <- 4, Short <- 2, ret <- str_ret

\* Names of slashes, dots, tildes and the letter a; some name the file a.
TheNames == INSTANCE Fname WITH
    Size <- 9, Longest <- 4, Target <- <<97>>,
    MayExist <- {<<97>>, <<97, 47, 97>>, <<47, 97>>}, ret <- fn_ret

\* NUL, a newline, a digit, two letters of which one is no digit, and an octet that is
\* not printed.
TheLiterals == INSTANCE Escapes WITH
    Octets <- {0, 10, 49, 97, 122, 200}, MaxBlock <- 3, Sizes <- {8, 20},
    decoded <- unescaped

\* One process saves a buffer with sbuf_save again and again and wants a backup.
TheSaves == INSTANCE FileSave WITH
    Savers <- {saver}, Caller <- [p \in {saver} |-> "sbuf_save"], Keeps <- {saver},
    Temps <- {"#1#", "#2#"}, Data <- {"a", "b"}, OldModes <- {"0400", "0666"},
    Umasked <- "0644",
    Failing <- {"create", "fdopen", "write", "rename old", "rename new", "stat", "chmod",
                "remove"},
    MayCrash <- TRUE, ret <- save_ret

TheCodes == INSTANCE Base64 WITH
    Octets <- {0, 5, 90, 255}, MaxOctets <- 4, text <- encoded

\* Lines of up to three characters in blocks of two that grow, one longer line, and
\* files with a NUL.
FileContents ==
    UNION {[1..n -> {"a", "NL"}] : n \in 0..3}
        \cup {<<"NUL">>, <<"a", "NUL", "NL", "a">>, <<"a", "a", "a", "a", "a", "NL", "a">>}

TheFiles == INSTANCE Files WITH
    Contents <- FileContents, Newline <- "NL", Null <- "NUL",
    Thres <- 2, MinInc <- 1, Mucho <- 2, StdoutError <- FALSE,
    text <- got_text, ret <- file_ret, data <- file_data

\* Pairs of two kinds, and three pairs of one kind within one another.
TheWords == INSTANCE SbufWords WITH
    WordLetters <- {"a"}, Left <- <<"(", "[">>, Right <- <<")", "]">>, Others <- {" "},
    MaxWords <- 4, MaxPairs <- 6, answer <- word_answer

-----------------------------------------------------------------------------
\* The variables of each part.
gapVars     == <<buf, locked, answer>>
queueVars   == <<queue, queue_heap, queue_answer>>
stackVars   == <<stack, stack_heap, stack_answer>>
tableVars   == <<tab, tab_heap, tab_answer>>
isetVars    == <<isets, ranges, assertions, stopped, iset_ret>>
priqVars    == <<arr, compare, priq_answer>>
logVars     == <<logs, logison, closed, log_text, messages, since, log_ret>>
articleVars == <<art, article_file, article_ret, article_line>>
stringVars  == <<buffer, edited, str_ret>>
nameVars    == <<name, path, files, result, fn_ret, called, beyond>>
literalVars == <<block, max, literal, unescaped>>
codeVars    == <<octets, encoded, decoded>>
saveVars    == <<dir, pc, data, temp, mode, save_ret>>
fileVars    == <<content, at, error, reading, got_text, size, got, file_ret, file_data>>
wordVars    == <<text, word_answer>>

\* Containers: a part that a behaviour is not about begins in one of its states.
LibraryInit ==
    /\ part \in {"gap", "queue", "stack", "table", "iset", "priq", "log", "article",
                 "string", "name", "literal", "code", "save", "file", "word"}
    /\ Init
    /\ TheQueue!Init /\ TheStack!Init /\ TheTable!Init /\ TheLogs!Init /\ TheArticle!Init
    /\ IF part = "iset" THEN TheIsets!Init
       ELSE /\ isets = [i \in {1, 2} |-> NULL] /\ ranges = TheQueue!NoBlocks
            /\ assertions = TRUE /\ stopped = FALSE /\ iset_ret = 0
    /\ IF part = "priq" THEN ThePriq!Init
       ELSE /\ arr = <<>> /\ compare = "always_same" /\ priq_answer = NoKey
    /\ IF part = "string" THEN TheStrings!Init
       ELSE /\ buffer = <<>> /\ edited = 0 /\ str_ret = 0
    /\ IF part = "name" THEN TheNames!Init
       ELSE /\ name = <<>> /\ path = <<>> /\ files = {} /\ result = <<>> /\ fn_ret = 0
            /\ called = FALSE /\ beyond = FALSE
    /\ IF part = "literal" THEN TheLiterals!Init
       ELSE /\ block = <<>> /\ max = 0 /\ literal = <<>> /\ unescaped = <<>>
    /\ IF part = "code" THEN TheCodes!Init
       ELSE /\ octets = <<>> /\ encoded = <<>> /\ decoded = <<>>
    /\ IF part = "save" THEN TheSaves!Init
       ELSE /\ dir = <<>> /\ pc = [p \in {saver} |-> "idle"] /\ data = <<>> /\ temp = <<>>
            /\ mode = <<>> /\ save_ret = <<>>
    /\ IF part = "file" THEN TheFiles!Init
       ELSE /\ content = <<>> /\ at = 0 /\ error = FALSE /\ reading = "nobody"
            /\ got_text = <<>> /\ size = 0 /\ got = <<>> /\ file_ret = "" /\ file_data = <<>>
    /\ IF part = "word" THEN TheWords!Init
       ELSE /\ text = <<>> /\ word_answer = TheWords!NoAnswer

LibraryNext ==
    /\ UNCHANGED part
    /\ \/ part = "gap" /\ Next
       \/ part = "queue" /\ TheQueue!Next
       \/ part = "stack" /\ TheStack!Next
       \/ part = "table" /\ TheTable!Next
       \/ part = "iset" /\ TheIsets!Next
       \/ part = "priq" /\ ThePriq!Next
       \/ part = "log" /\ TheLogs!Next
       \/ part = "article" /\ TheArticle!Next
       \/ part = "string" /\ TheStrings!Next
       \/ part = "name" /\ TheNames!Next
       \/ part = "literal" /\ TheLiterals!Next
       \/ part = "code" /\ TheCodes!Next
       \/ part = "save" /\ TheSaves!Next
       \/ part = "file" /\ TheFiles!Next
       \/ part = "word" /\ TheWords!Next
    /\ IF part = "gap" THEN TRUE ELSE UNCHANGED gapVars
    /\ IF part = "queue" THEN TRUE ELSE UNCHANGED queueVars
    /\ IF part = "stack" THEN TRUE ELSE UNCHANGED stackVars
    /\ IF part = "table" THEN TRUE ELSE UNCHANGED tableVars
    /\ IF part = "iset" THEN TRUE ELSE UNCHANGED isetVars
    /\ IF part = "priq" THEN TRUE ELSE UNCHANGED priqVars
    /\ IF part = "log" THEN TRUE ELSE UNCHANGED logVars
    /\ IF part = "article" THEN TRUE ELSE UNCHANGED articleVars
    /\ IF part = "string" THEN TRUE ELSE UNCHANGED stringVars
    /\ IF part = "name" THEN TRUE ELSE UNCHANGED nameVars
    /\ IF part = "literal" THEN TRUE ELSE UNCHANGED literalVars
    /\ IF part = "code" THEN TRUE ELSE UNCHANGED codeVars
    /\ IF part = "save" THEN TRUE ELSE UNCHANGED saveVars
    /\ IF part = "file" THEN TRUE ELSE UNCHANGED fileVars
    /\ IF part = "word" THEN TRUE ELSE UNCHANGED wordVars

LibrarySpec ==
    LibraryInit /\ [][LibraryNext]_<<part, gapVars, queueVars, stackVars, tableVars, isetVars,
        priqVars, logVars, articleVars, stringVars, nameVars, literalVars, codeVars,
        saveVars, fileVars, wordVars>>

-----------------------------------------------------------------------------
\* Properties.

\* A queue and a stack are lines of data, a hash table is a set of data of which none
\* are equal, a priority queue is a bag, which comes out in order when nothing was put in
\* since its comparison was set, and each call to a set of integers adds just the numbers
\* of its range, removes just those of its range, or makes what is in both sets, unless it
\* fails; whatever allocation fails in the middle of a call.  (That a priority queue comes
\* out in order after insertions is false: MCPriq_smallest.  A call of a set of integers
\* that fails may have done part of its work: KeepsPromise says which.)
ContainersKeepPromises ==
    /\ TheQueue!KeepsPromise
    /\ TheStack!KeepsPromise
    /\ TheTable!KeepsPromise
    /\ ThePriq!KeepsPromise
    /\ TheIsets!KeepsPromise
    /\ TheIsets!IsectIsWhole

\* The lists of ranges stay sorted, separated and linked both ways.
IsetsAreSound == TheIsets!ListsAreSound

\* No nodes or copies are lost by calls to queues, stacks and hash tables, be they
\* successful or fail at any of their allocations.  What is lost is said call by call:
\* queue_destroy and stack_destroy forget just the copies that are still in (although
\* queue/queue.c:70 speaks of "a queue and its contents"), and stack_copy just what it has
\* allocated itself, all of it when it succeeds and the copies when it fails.
NothingIsLost ==
    /\ TheQueue!NothingIsLost
    /\ TheStack!NothingIsLost
    /\ [](TheTable!NothingIsLost)

\* A log gets every message that another log gets which wants less.
NoLogMissesMessages == TheLogs!NoLogMissesMessages

\* What was made into text can be made out again: a block of memory from a C literal, an
\* article and the lines of a text from a file.  Base64 has all of the octets' bits, too, so
\* that another decoder can make them out; this library's base64_decode does not, and
\* nothing is asked of it but how many octets there are and which is the first.
TextStandsForData ==
    /\ part = "code" => TheCodes!TextHasTheBits /\ TheCodes!DecodedIsAsLong
    /\ part = "literal" => TheLiterals!LiteralsStandForBlocks
    /\ part = "article" => TheArticle!FileGivesItBack
    /\ part = "file" => TheFiles!LinesAreTheFile

\* A header that is replaced takes its continuation lines with it and no others.
OthersStayWhole == TheArticle!OthersStayWhole


\* sbuf_save returns 0, and takes the buffer for clean, only when the file holds what
\* was to be saved.
SavedIsStored == TheSaves!SavedIsStored

\* The file it leaves has the permissions of the one it replaced.
ModesAreKept == TheSaves!ModesAreKept
===============================================================================
