------------------------------- MODULE MCNntp -------------------------------
(***************************************************************************)
(* Articles and texts with the lines that the protocol treats differently: *)
(* empty ones, lines of a dot and ones that begin with one, lines with and *)
(* without ends of their own, and lines that are too long to be written or *)
(* to be read.  An article has headers and a body; the line between them   *)
(* is empty.                                                               *)
(***************************************************************************)
EXTENDS Nntp

MCChars == {"CR", "LF", ".", "x", "long"}

MCArticles ==
    {<< <<".">>, <<>>, <<".", "x", "LF">> >>,
     << <<"x">>, <<>>, <<"long">>, <<".", "CR", "LF">> >>,
     << <<>>, <<"long", "x">> >>}

\* What other clients have posted: nothing, or a line that is too long.
MCSpooled == {<<>>, << <<>>, <<"long", "x", "x", "x">> >>}
=============================================================================
