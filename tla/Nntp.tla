--------------------------------- MODULE Nntp ----------------------------------
(***************************************************************************)
(* A news client's connection (nntp/nntp.c, nntp_post_article in           *)
(* nntp/nntpart.c) and the server at its other end.  What goes through the *)
(* connection is a sequence of tokens: "CR", "LF", "." and "x" are single  *)
(* characters, "long" is a text of 510 characters, and a command or a      *)
(* response code is one token.  The server and the network are external.   *)
(***************************************************************************)
EXTENDS Integers, FiniteSets, FiniteSetsExt, SequencesExt

CONSTANTS
    Chars,      \* the tokens that lines are made of
    Articles,   \* what clients post: sequences of lines, an empty one after the headers
    Spooled,    \* the articles that the server may have from others
    MaxCalls    \* bound on the commands

ASSUME CharsAssumption == {"CR", "LF", ".", "x", "long"} \subseteq Chars

\* What nntp_write_next_line is given is one line, with or without its end.
ASSUME ArticlesAssumption ==
    \A article \in Articles :
        /\ article \in Seq(Seq(Chars))
        /\ \A i \in DOMAIN article : \A j \in 1..Len(article[i]) - 1 : article[i][j] # "LF"

\* The server keeps lines without their ends.
ASSUME SpooledAssumption == Spooled \subseteq Seq(Seq(Chars \ {"LF"}))

ASSUME MaxCallsAssumption == MaxCalls \in Nat

\* Each response code with what it answers.
Refusals == {"400", "441", "500"}
Codes    == {"100", "200", "201", "211", "220", "223", "230", "240", "340", "421"} \cup Refusals

Commands == {"post", "group", "article", "next", "newnews"}

VARIABLES
    phase,      \* what the client does: "closed", "idle", "posting", "reading",
                \* "aborted", or the call that waits for a response
    reader,     \* the argument use_mode_reader of nntp_open
    todo,       \* the lines that nntp_post_article has not written yet
    posted,     \* the article it posts
    got,        \* the lines that nntp_next_line gave since the last response
    ret,        \* <<call, value>> of the call that returned last
    calls,      \* how many commands there were
    up, down,   \* the tokens on their way to the server and to the client
    alive,      \* whether the server has not closed the connection
    server,     \* [mode, lines]: in mode "article" the lines it has got of it
    spool,      \* the article that the server has
    text,       \* the lines of the text that the server sent last
    spoiled     \* what happened to the connection, of "torn", "informed", "stuck"

client   == <<phase, reader, todo, posted, got, ret, calls>>
external == <<alive, server, spool, text>>
vars     == <<client, up, down, external, spoiled>>

Init ==
    /\ phase = "closed" /\ reader = FALSE
    /\ todo = <<>> /\ posted = <<>> /\ got = <<>>
    /\ ret = <<"none", 0>> /\ calls = 0
    /\ up = <<>> /\ down = <<>>
    /\ alive = FALSE /\ server = [mode |-> "command", lines |-> <<>>]
    /\ spool \in Spooled /\ text = <<>>
    /\ spoiled = {}

-----------------------------------------------------------------------------
\* Lines.

Width(line) == Len(line) + 509 * Cardinality({i \in DOMAIN line : line[i] = "long"})

Sent(line) == line \o <<"CR", "LF">>

\* strendzap for one character
Zapped(line, char) == IF line # <<>> /\ Last(line) = char THEN Front(line) ELSE line

\* The line that nntp_write_next_line is to write, before a dot is put in front.
Bare(line) == Zapped(Zapped(line, "LF"), "CR")

\* Faulty variant of Stuffed: only the line of a single dot gets another one.
StuffedIfAlone(line) == Bare(IF line = <<".">> THEN <<".", ".">> ELSE line)

Dotted(line) == IF line # <<>> /\ Head(line) = "." THEN <<".">> \o line ELSE line

Stuffed(line) == Bare(Dotted(line))

Unstuffed(line) == IF line # <<>> /\ Head(line) = "." THEN Tail(line) ELSE line

\* What read_line reads: up to the first LF, which must be in the first 512 characters.
HasLine(s) == "LF" \in Range(s)
EndOf(s)   == CHOOSE i \in DOMAIN s : s[i] = "LF" /\ \A j \in 1..i - 1 : s[j] # "LF"
LineOf(s)  == Zapped(SubSeq(s, 1, EndOf(s) - 1), "CR")
After(s)   == SubSeq(s, EndOf(s) + 1, Len(s))
TooWide(s) == Width(IF HasLine(s) THEN SubSeq(s, 1, EndOf(s) - 1) ELSE s) >= 512

\* recv_response, "-1" for a line that does not begin with a code.
Code(line) == IF line # <<>> /\ Head(line) \in Codes THEN Head(line) ELSE "-1"

-----------------------------------------------------------------------------
\* The server, which is external.  It may send a response 100 that informs before any
\* other, and may close the connection whenever it likes, in the middle of a line, too.

AllSent(lines) ==
    LET sent[n \in 0..Len(lines)] ==
            IF n = 0 THEN <<>> ELSE sent[n - 1] \o Sent(lines[n])
    IN  sent[Len(lines)]

\* The server sends a code, and a text unless lines is <<>>.
Answer(code, lines) ==
    \/ down' = down \o Sent(<<code>>) \o AllSent(lines) /\ UNCHANGED spoiled
    \/ /\ "informed" \notin spoiled
       /\ down' = down \o Sent(<<"100">>) \o Sent(<<code>>) \o AllSent(lines)
       /\ spoiled' = spoiled \cup {"informed"}

Texted(lines) == [i \in DOMAIN lines |-> Dotted(lines[i])] \o <<<<".">>>>

ServerObeys(command) ==
    \/ /\ command = "mode reader"
       /\ \E code \in {"200", "201"} : Answer(code, <<>>)
       /\ UNCHANGED <<server, text>>
    \/ /\ command = "post"
       /\ Answer("340", <<>>)
       /\ server' = [mode |-> "article", lines |-> <<>>]
       /\ UNCHANGED text
    \/ /\ command = "group"
       /\ Answer("211", <<>>)
       /\ UNCHANGED <<server, text>>
    \/ /\ command = "next"
       /\ \E code \in {"223", "421"} : Answer(code, <<>>)
       /\ UNCHANGED <<server, text>>
    \/ /\ command = "article"
       /\ Answer("220", Texted(spool))
       /\ text' = spool
       /\ UNCHANGED server
    \/ /\ command = "newnews"
       /\ text' \in {<<>>, <<<<"x">>>>}
       /\ Answer("230", Texted(text'))
       /\ UNCHANGED server
    \/ \E code \in {"400", "500"} : Answer(code, <<>>) /\ UNCHANGED <<server, text>>

ServerReadsCommand ==
    /\ alive /\ server.mode = "command" /\ HasLine(up)
    /\ up' = After(up)
    /\ ServerObeys(IF Len(LineOf(up)) = 1 THEN LineOf(up)[1] ELSE "?")
    /\ UNCHANGED <<client, alive, spool>>

ServerReadsLine ==
    /\ alive /\ server.mode = "article" /\ HasLine(up)
    /\ up' = After(up)
    /\ IF LineOf(up) = <<".">>
       THEN /\ server' = [mode |-> "command", lines |-> <<>>]
            /\ \/ Answer("240", <<>>) /\ spool' = server.lines
               \/ Answer("441", <<>>) /\ UNCHANGED spool
       ELSE /\ server' = [server EXCEPT !.lines = Append(@, Unstuffed(LineOf(up)))]
            /\ UNCHANGED <<down, spool, spoiled>>
    /\ UNCHANGED <<client, alive, text>>

\* What the client has not read yet may be lost, from some token on.
ServerCloses ==
    /\ alive
    /\ alive' = FALSE
    /\ up' = <<>>
    /\ \E n \in 0..Len(down) : down' = SubSeq(down, 1, n)
    /\ UNCHANGED <<client, server, spool, text, spoiled>>

-----------------------------------------------------------------------------
\* Sending and receiving.

\* Faulty variant of TooLong: the limit is that of read_line.
TooLongToRead(line) == Width(line) > 512

TooLong(line) == Width(line) > 510

\* write_all: after a partial write the rest is counted from the start of the string
\* again.  What is written to a connection that the server has closed is lost.
\* (Bound: at most one partial write in a connection, of the first token.)
WriteAll(s) ==
    \/ up' = (IF alive THEN up \o s ELSE up) /\ UNCHANGED spoiled
    \/ /\ alive /\ "torn" \notin spoiled
       /\ up' = up \o SubSeq(s, 1, 1) \o SubSeq(s, 1, Len(s) - 1)
       /\ spoiled' = spoiled \cup {"torn"}

SendCmd(line) == ~TooLong(line) /\ WriteAll(Sent(line))

SendCmdFails(line) == (TooLong(line) \/ ~alive) /\ UNCHANGED up

\* read_line fails at the end of the connection, where it drops the rest of a line.
ReadLine ==
    /\ ~TooWide(down)
    /\ IF HasLine(down) THEN down' = After(down) ELSE ~alive /\ down' = <<>>

\* What recv_response returns.
Response == IF HasLine(down) THEN Code(LineOf(down)) ELSE "-1"

Waits == phase \notin {"closed", "idle", "posting", "aborted"}

\* The assertion at the end of read_line fails.  (recv_response reads into memory that
\* is not initialised: when there happens to be an LF, it goes on with a part of the
\* line.  This is only possible when the text of an article is read as a response.)
ReadLineAborts ==
    /\ Waits /\ TooWide(down)
    /\ \/ phase' = "aborted" /\ UNCHANGED down
       \/ /\ phase # "reading"
          /\ \E n \in DOMAIN down :
                /\ Width(SubSeq(down, 1, n)) = 512
                /\ down' = <<"x", "LF">> \o SubSeq(down, n + 1, Len(down))
          /\ UNCHANGED phase
    /\ UNCHANGED <<reader, todo, posted, got, ret, calls, up, external, spoiled>>

-----------------------------------------------------------------------------
\* The client.  A call is an action that sends its command and one for each response.

Returns(call, value) == phase' = "idle" /\ ret' = <<call, value>>

\* The host is not found (in 16 attempts), or there is no connection to it.
NntpOpenFails ==
    /\ phase = "closed"
    /\ ret' = <<"open", -1>>
    /\ UNCHANGED <<phase, reader, todo, posted, got, calls, up, down, external, spoiled>>

\* A server greets, or says that it will not, and may send a line before.
NntpOpen(use) ==
    /\ phase = "closed" /\ calls < MaxCalls
    /\ phase' = "greeting" /\ reader' = use
    /\ alive' = TRUE
    /\ \E code \in {"200", "201", "400"} :
        down' \in {Sent(<<code>>), Sent(<<"100">>) \o Sent(<<code>>)}
    /\ up' = <<>>
    /\ server' = [mode |-> "command", lines |-> <<>>]
    /\ spoiled' = {}
    /\ UNCHANGED <<todo, posted, got, ret, calls, spool, text>>

Opened == Returns("open", IF Response = "200" THEN 1 ELSE 0)

\* Faulty variant of Expected: the end of the connection is no reason to stop.
ExpectedOnly(code) == code \in {"200", "201"}

\* What ends the loops of nntp_open.
Expected(code) == code \in {"200", "201", "-1"}

NntpOpenGreeted ==
    /\ phase = "greeting"
    /\ ReadLine
    /\ \/ ~Expected(Response) /\ UNCHANGED <<phase, ret, up, spoiled>>
       \/ Expected(Response) /\ ~reader /\ Opened /\ UNCHANGED <<up, spoiled>>
       \/ /\ Expected(Response) /\ reader
          /\ \/ SendCmd(<<"mode reader">>) /\ phase' = "mode" /\ UNCHANGED ret
             \/ /\ SendCmdFails(<<"mode reader">>)
                /\ phase' = "closed" /\ ret' = <<"open", -1>>
                /\ UNCHANGED spoiled
    /\ UNCHANGED <<reader, todo, posted, got, calls, external>>

NntpOpenMode ==
    /\ phase = "mode"
    /\ ReadLine
    /\ IF Expected(Response) THEN Opened ELSE UNCHANGED <<phase, ret>>
    /\ UNCHANGED <<reader, todo, posted, got, calls, up, external, spoiled>>

NntpClose ==
    /\ phase = "idle"
    /\ phase' = "closed" /\ \E value \in {0, -1} : ret' = <<"close", value>>
    /\ alive' = FALSE /\ up' = <<>> /\ down' = <<>>
    /\ UNCHANGED <<reader, todo, posted, got, calls, server, spool, text, spoiled>>

\* The command of a call; its arguments can make it too long.
Calls(call) ==
    /\ phase = "idle" /\ calls < MaxCalls
    /\ calls' = calls + 1
    /\ \/ SendCmd(<<call>>) /\ phase' = call /\ UNCHANGED ret
       \/ /\ SendCmdFails(<<call>>) \/ (call \in {"group", "newnews"} /\ UNCHANGED up)
          /\ Returns(call, -1) /\ UNCHANGED spoiled
    /\ UNCHANGED <<reader, todo, got, down, external>>

NntpPost(article) == Calls("post") /\ posted' = article

NntpCommand(call) == call # "post" /\ Calls(call) /\ UNCHANGED posted

\* nntp_group and nntp_goto_next_article
NntpAnswered ==
    /\ phase \in {"group", "next"}
    /\ ReadLine
    /\ Returns(phase, CASE phase = "group" /\ Response = "211" -> 0
                        [] phase = "next" /\ Response = "223"  -> 1
                        [] phase = "next" /\ Response = "421"  -> 0
                        [] OTHER -> -1)
    /\ UNCHANGED <<reader, todo, posted, got, calls, up, external, spoiled>>

\* After nntp_get_current_article and nntp_newnews the client reads the text.
\* nntp_newnews waits for a response that it knows, even when there is none any more.
NntpTextFollows ==
    /\ phase \in {"article", "newnews"}
    /\ ReadLine
    /\ \/ /\ Response = IF phase = "article" THEN "220" ELSE "230"
          /\ phase' = "reading" /\ ret' = <<phase, 0>> /\ got' = <<>>
       \/ /\ IF phase = "article" THEN Response # "220" ELSE Response \in {"400", "500"}
          /\ Returns(phase, -1) /\ UNCHANGED got
       \/ /\ phase = "newnews" /\ Response \notin {"230", "400", "500"}
          /\ UNCHANGED <<phase, ret, got>>
    /\ UNCHANGED <<reader, todo, posted, calls, up, external, spoiled>>

\* Faulty variant of IsEnd: the line without its first dot is what is compared.
IsEndUnstuffed(line) == Unstuffed(line) = <<".">>

IsEnd(line) == line = <<".">>

NntpNextLine ==
    /\ phase = "reading"
    /\ ReadLine
    /\ \/ ~HasLine(down) /\ Returns("line", -1) /\ UNCHANGED got
       \/ /\ HasLine(down)
          /\ IF IsEnd(LineOf(down)) THEN Returns("line", 0) /\ UNCHANGED got
             ELSE /\ ret' = <<"line", 1>>
                  /\ got' = Append(got, Unstuffed(LineOf(down)))
                  /\ UNCHANGED phase
    /\ UNCHANGED <<reader, todo, posted, calls, up, external, spoiled>>

NntpPostAnswered ==
    /\ phase = "post"
    /\ ReadLine
    /\ IF Response = "340" THEN phase' = "posting" /\ todo' = posted /\ UNCHANGED ret
       ELSE Returns("post", -1) /\ UNCHANGED todo
    /\ UNCHANGED <<reader, posted, got, calls, up, external, spoiled>>

\* A line that is too long ends nntp_post_article, and the server waits for more.
NntpWriteNextLine ==
    /\ phase = "posting" /\ todo # <<>>
    /\ \/ SendCmd(Stuffed(Head(todo))) /\ todo' = Tail(todo) /\ UNCHANGED <<phase, ret>>
       \/ /\ SendCmdFails(Stuffed(Head(todo)))
          /\ Returns("post", -1) /\ UNCHANGED todo
          /\ spoiled' = spoiled \cup {"stuck"}
    /\ UNCHANGED <<reader, posted, got, calls, down, external>>

NntpWriteEndLine ==
    /\ phase = "posting" /\ todo = <<>>
    /\ \/ SendCmd(<<".">>) /\ phase' = "end" /\ UNCHANGED ret
       \/ SendCmdFails(<<".">>) /\ Returns("post", -1) /\ UNCHANGED spoiled
    /\ UNCHANGED <<reader, todo, posted, got, calls, down, external>>

NntpPosted ==
    /\ phase = "end"
    /\ ReadLine
    /\ Returns("post", IF Response = "240" THEN 0 ELSE -1)
    /\ UNCHANGED <<reader, todo, posted, got, calls, up, external, spoiled>>

ServerStep == ServerReadsCommand \/ ServerReadsLine

\* The steps that a call takes once it has begun.
Continues ==
    \/ ReadLineAborts \/ NntpOpenGreeted \/ NntpOpenMode \/ NntpAnswered
    \/ NntpTextFollows \/ NntpNextLine \/ NntpPostAnswered \/ NntpWriteNextLine
    \/ NntpWriteEndLine \/ NntpPosted

Next ==
    \/ ServerStep \/ ServerCloses \/ Continues
    \/ NntpOpenFails \/ (\E use \in BOOLEAN : NntpOpen(use)) \/ NntpClose
    \/ \E call \in Commands : NntpCommand(call)
    \/ \E article \in Articles : NntpPost(article)

\* A process goes on with its call, and clients read a text to its end.  The server
\* takes what it is sent, and closes the connection when it has not greeted.
Fairness ==
    /\ WF_vars(Continues)
    /\ WF_vars(ServerStep)
    /\ WF_vars(ServerCloses /\ phase = "greeting" /\ down = <<>>)

Spec == Init /\ [][Next]_vars /\ Fairness

-----------------------------------------------------------------------------
\* Properties.

Whole(article) == [i \in DOMAIN article |-> Bare(article[i])]

\* An article whose posting has succeeded is at the server, line for line, whatever
\* dots its lines begin with and whether or not they end in newlines.
Kept == phase = "idle" /\ ret = <<"post", 0>> => spool = Whole(posted)

PostedIsKept == spoiled = {} => Kept

\* "Write the whole string, even if there are signals" (nntp/nntp.c:439): an article
\* is kept whole when some write was partial.
PostedIsKeptWithSignals == spoiled \subseteq {"torn"} => Kept

\* The lines that nntp_next_line gives are whole lines of the text, and all of them
\* when it says that there are no more, even if the server closes the connection in
\* the middle of it; and the only texts that it cannot read are those with a line
\* that nntp_write_next_line would have refused to write.
ReadIsWhole ==
    spoiled = {} =>
        /\ phase = "reading" => IsPrefix(got, text)
        /\ phase = "idle" /\ ret = <<"line", 0>> => got = text
        /\ phase = "aborted" => \E i \in DOMAIN text : TooLong(Dotted(text[i]))

\* Between calls, what each of the two waits for is the other's next step: nothing
\* is on its way, and the server takes the next line for a command.
InStep ==
    spoiled = {} /\ phase = "idle" /\ alive =>
        up = <<>> /\ down = <<>> /\ server.mode = "command"

\* Calls return, also when the server closes the connection.  (nntp_newnews then
\* does not, nor does nntp_open when the server refuses mode reader.)
InCall == phase \notin {"closed", "idle", "newnews", "mode", "aborted"}

CallsReturn == (spoiled = {} /\ InCall) ~> (spoiled # {} \/ ~InCall)

\* "Return -1 for error, 0 for OK" (nntp/nntp.c:190): nntp_newnews returns.
NewnewsReturns == (spoiled = {} /\ phase = "newnews") ~> phase # "newnews"
===============================================================================
