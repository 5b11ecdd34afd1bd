--------------------------------- MODULE Fname ---------------------------------
(***************************************************************************)
(* File names (fname/): a client takes a name apart and puts it together   *)
(* again, has it qualified, or has a file looked for along a path.         *)
(***************************************************************************)
EXTENDS CString

CONSTANTS
    Size,       \* the size of the client's buffers
    Longest,    \* bound on the names and paths
    Target,     \* what is looked for along a path
    MayExist    \* names of files, of which some exist

Slash == 47
Dot   == 46
Colon == 58
Tilde == 126
Letter == 97
Cwd   == <<Slash, Letter>>      \* the current directory
Home  == <<Slash, 104>>         \* the home directory, also of the user named a
Sufs == {<<Dot>>, <<Dot, Letter>>, <<Dot, Letter, Dot>>}

VARIABLES
    name,       \* a buffer with a file name
    path,       \* directories to look in, a text
    files,      \* which of MayExist do exist
    result,     \* the buffer that fnqualify and fnpathfind fill
    ret,        \* what the last call returned
    called,     \* whether the client has made its call (the bound)
    beyond      \* whether a name was written beyond the block that was for it

vars == <<name, path, files, result, ret, called, beyond>>

Unknown == [a \in 0..Size - 1 |-> 1]
BufferOf(text) == StrCpy(Unknown, 0, text)

Init ==
    /\ \/ /\ name \in {BufferOf(t) : t \in BoundedSeq({Slash, Dot, Letter}, Longest)
                                           \cup {<<Tilde>> \o u : u \in BoundedSeq({Slash, Letter}, 3)}}
          /\ path = <<>> /\ files = {}
       \/ /\ name = BufferOf(<<>>)
          /\ path \in BoundedSeq({Slash, Colon, Letter}, Longest)
          /\ files \in SUBSET MayExist
    /\ result = Unknown
    /\ ret = 0
    /\ called = FALSE
    /\ beyond = FALSE

Name == StrAt(name, 0)

-----------------------------------------------------------------------------
\* Where parts of the name in the buffer m start
FnBase(m) == StrRChr(m, 0, Slash) + 1

\* The first dot, also when there are several
FnLastSuf(m) == StrChr(m, FnBase(m), Dot)

FnDir(m) == IF FnBase(m) = 0 THEN <<Dot>> ELSE SubSeq(StrAt(m, 0), 1, FnBase(m))

FnJoin(f1, f2) ==
    IF Last(f1) = Slash \/ Head(f2) = Slash THEN f1 \o f2 ELSE f1 \o <<Slash>> \o f2

\* Without the first directory, or without the slash at the start.  (One character
\* behind the NUL is moved, too, in this case.)
FnDelBeg(m) ==
    LET p == StrChr(m, 0, Slash) IN
    IF m[0] = Slash THEN MemMove(m, 0, 1, StrLen(m, 0) + 1)
    ELSE IF p = NoPointer THEN [m EXCEPT ![0] = NUL]
    ELSE MemMove(m, 0, p, StrLen(m, p) + 1)

FnDelEnd(m) == [m EXCEPT ![Max({0, StrRChr(m, 0, Slash)})] = NUL]

FnDelSuf(m, suffix) ==
    LET dot == FnLastSuf(m) IN
    IF dot # NoPointer /\ StrAt(m, dot) = suffix
    THEN [name |-> [m EXCEPT ![dot] = NUL], ret |-> 0]
    ELSE [name |-> m, ret |-> -1]

\* ret is the size that is needed, also when max is not enough for it.
FnSetSuf(m, suffix, max) ==
    LET dot    == FnLastSuf(m)
        at     == IF dot = NoPointer THEN StrLen(m, 0) ELSE dot
        needed == at + Len(suffix) + 1
    IN  [name |-> IF needed > max THEN m ELSE StrCpy(m, at, suffix), ret |-> needed]

\* The qualified name of the name m, and its size; result is written when it fits.
\* (A name that starts with a tilde and needs the whole buffer is not written.)
FnQualify(m, max) ==
    LET text  == StrAt(m, 0)
        slash == StrChr(m, 0, Slash)
        \* the name without the user, for one that starts with a tilde
        rest  == IF slash = NoPointer THEN <<>> ELSE StrAt(m, slash + 1)
        user  == SubSeq(text, 2, IF slash = NoPointer THEN Len(text) ELSE slash)
        full  == (IF m[0] = Tilde THEN Home ELSE Cwd) \o <<Slash>>
                    \o (IF m[0] = Tilde THEN rest ELSE text)
        size  == Len(full) + 1
    IN  IF m[0] = Slash
        THEN [result |-> BufferOf(SubSeq(text, 1, Min({Len(text), max - 1}))),
              ret    |-> Len(text) + 1]
        ELSE IF m[0] = Tilde /\ user \notin {<<>>, <<Letter>>}
        THEN [result |-> Unknown, ret |-> -1]
        ELSE IF m[0] = Tilde
        THEN [result |-> IF size < max THEN BufferOf(full) ELSE Unknown, ret |-> size]
        ELSE IF max < Len(Cwd) + 1 THEN [result |-> Unknown, ret |-> -1]
        ELSE [result |-> IF size > max THEN BufferOf(Cwd) ELSE BufferOf(full), ret |-> size]

\* The components of a path: it is not asked what is behind a colon at its end.
Components(text) ==
    LET block == BlockOf(text)
        from[p \in 0..Len(text)] ==
            LET colon == StrChr(block, p, Colon) IN
            IF p = Len(text) THEN <<>>
            ELSE IF colon = NoPointer THEN <<SubSeq(text, p + 1, Len(text))>>
            ELSE <<SubSeq(text, p + 1, colon)>> \o from[colon + 1]
    IN  from[0]

FullName(dir) ==
    IF dir = <<>> \/ Last(dir) = Slash THEN dir \o Target ELSE dir \o <<Slash>> \o Target

\* What fnpathfind takes for the size of the full name
FullSize(dir) == Len(dir) + (IF dir # <<>> THEN 0 ELSE 1) + Len(Target) + 1

\* fnpathfind: the loop goes on to the first component with an existing file; beyond
\* tells whether one of the names did not fit into the block, which is never made smaller.
PathFound(max) ==
    LET dirs  == Components(path)
        found == {k \in DOMAIN dirs : FullName(dirs[k]) \in files}
        tried == 1..(IF found = {} THEN Len(dirs) ELSE Min(found))
        dir   == dirs[Min(found)]
        Block(k) == Max({FullSize(dirs[i]) : i \in 1..k})
    IN  [beyond |-> \E k \in tried : Len(FullName(dirs[k])) + 1 > Block(k),
         ret    |-> IF found = {} THEN -1 ELSE FullSize(dir),
         result |-> IF found = {} THEN result
                    ELSE BufferOf(SubSeq(FullName(dir), 1,
                                    Min({Len(FullName(dir)), max - 1})))]

FnPathFind(max) ==
    /\ path # <<>> /\ ~called
    /\ called' = TRUE
    /\ LET x == PathFound(max) IN
        beyond' = x.beyond /\ ret' = x.ret /\ result' = x.result
    /\ UNCHANGED <<name, path, files>>

-----------------------------------------------------------------------------
\* Calls that change the name; a client passes buffers that are large enough, and
\* does not ask for the base of a name that it has used up.
Change(m, r) ==
    /\ path = <<>> /\ Name # <<>> /\ ~called
    /\ called' = TRUE
    /\ name' = m
    /\ ret' = r
    /\ UNCHANGED <<path, files, result, beyond>>

Next ==
    \/ Change(FnDelBeg(name), 0) \/ Change(FnDelEnd(name), 0)
    \/ \E suffix \in Sufs :
        \/ LET x == FnDelSuf(name, suffix) IN Change(x.name, x.ret)
        \/ \E max \in 1..Size :
            LET x == FnSetSuf(name, suffix, max) IN Change(x.name, x.ret)
    \/ /\ path = <<>> /\ Name # <<>> /\ ~called
       /\ called' = TRUE
       /\ \E max \in 1..Size :
            LET x == FnQualify(name, max) IN result' = x.result /\ ret' = x.ret
       /\ UNCHANGED <<name, path, files, beyond>>
    \/ \E max \in 1..Size : FnPathFind(max)

Spec == Init /\ [][Next]_vars

-----------------------------------------------------------------------------
\* Properties.

\* The parts of a name name the same file when they are joined; a suffix that was set
\* can be deleted, which leaves no other; nothing is changed when the buffer is too
\* small; a name that was qualified is absolute, and whole unless the size tells
\* otherwise.
NamesGoTogether ==
    LET base == SubSeq(Name, FnBase(name) + 1, Len(Name)) IN
    Name # <<>> /\ ~called =>
        /\ base # <<>> => FnJoin(FnDir(name), base) \in {Name, <<Dot, Slash>> \o Name}
        /\ \A suffix \in Sufs, max \in 1..Size :
            LET x == FnSetSuf(name, suffix, max)
                y == FnDelSuf(x.name, suffix)
            IN  IF x.ret > max THEN x.name = name
                ELSE /\ StrLen(x.name, 0) + 1 = x.ret
                     /\ FnDir(x.name) = FnDir(name)
                     /\ y.ret = 0 /\ FnLastSuf(y.name) = NoPointer
        /\ \A max \in 4..Size :
            LET x == FnQualify(name, max)
            IN  x.ret \in 1..max - 1 =>
                    x.result[0] = Slash /\ StrLen(x.result, 0) + 1 = x.ret

\* The client's buffers get nothing beyond their ends.
NothingIsBeyond == DOMAIN name = 0..Size - 1 /\ DOMAIN result = 0..Size - 1

\* What fnpathfind finds is the file of the first of the elements of the path, between
\* colons, that has it, an empty one being the current directory: its name or as much of
\* it as the buffer takes, and nothing behind that.  There are two exceptions from
\* man/fnpathfind.3: an empty element at the end of the path is not looked at
\* (fnpathfind.c:64), and the size returned is not the name's (fnpathfind.c:77).
FoundIsFirst ==
    path # <<>> /\ ~called =>
        LET ends == {k \in DOMAIN path : path[k] = Colon} \cup {Len(path) + 1}
            Element(e) ==
                SubSeq(path, Max({0} \cup {k \in ends : k < e}) + 1, e - 1)
            FileIn(e) == IF Element(e) = <<>> THEN Target ELSE FnJoin(Element(e), Target)
            holding == {e \in ends : /\ FileIn(e) \in files
                                     /\ e <= Len(path) \/ Last(path) # Colon}
        IN  \A max \in 1..Size :
                LET x == PathFound(max)
                    f == FileIn(Min(holding))
                IN  IF holding = {} THEN x.ret = -1 /\ x.result = result
                    ELSE /\ x.ret > 0
                         /\ StrAt(x.result, 0) = SubSeq(f, 1, Min({max - 1, Len(f)}))
                         /\ \A a \in max..Size - 1 : x.result[a] = result[a]

\* What the comment in fnpathfind says (fname/fnpathfind.c:71-75): the block for the
\* full name is at least big enough.  It is one too small for a component that has no
\* slash at its end, so this is false (of the path "a", say), and no property
\* that is checked says anything of that block.
BlockIsBigEnough == ~beyond
===============================================================================
