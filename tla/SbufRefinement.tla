--------------------------- MODULE SbufRefinement ---------------------------
(***************************************************************************)
(* The editing buffer keeps the promise of SbufSpec: slots and handles are *)
(* the marks by handle, the position cache only answers.                   *)
(***************************************************************************)
EXTENDS Sbuf

CONSTANT NoMark

\* What a client can tell of the slot m.
Shown(m) == [begin |-> m.begin, len |-> m.len, dirty |-> m.dirty]

ASSUME NoMarkAssumption ==
    NoMark \notin [begin : Nat, len : Nat, dirty : BOOLEAN]

MarkByHandle ==
    [h \in Handles |-> IF slotOf[h] = 0 THEN NoMark ELSE Shown(MarkOf(h))]

Abstract == INSTANCE SbufSpec WITH mark <- MarkByHandle

\* A call that changes the text is the change promised for that call: of the
\* range that the caller's mark has, or that the call has come to.
Changed(h, new) ==
    IF MarkOf(h).columnar THEN Abstract!Forget ELSE Abstract!Change(h, new)

EditsAsCalled ==
    /\ \A h \in Handles, new \in Inserts : SbufStrchange(h, new) => Changed(h, new)
    /\ \A h, repl \in Handles :
        SbufChange(h, repl) => Changed(h, Strat(text, MarkOf(repl)))
    /\ \A opened \in Loads : SbufLoad(opened) => Abstract!Clear
    /\ \A s \in Chunks : ReadChunk(s) => Abstract!AddBlock(job.h, s)
    /\ ReadError => Abstract!TakeBack(job.h, job.begin)
    /\ RemoveLine => Abstract!CutOut(job.h, PartBegin, PartEnd - PartBegin)
    /\ InsertLine =>
        Abstract!PutIn(job.h, job.pos, Pad(job.rest, LineLength(job.rest), job.w))

\* Every step of the buffer is a step of its promise, or none of its business,
\* and an edit is the one that the caller asked for: every mark follows it.
KeepsPromise == Abstract!Spec /\ [][EditsAsCalled]_vars
=============================================================================
