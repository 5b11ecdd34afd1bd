----------------------------- MODULE Nntp_proofs -----------------------------
(***************************************************************************)
(* What the connection to a news server promises, proved for all articles, *)
(* texts and numbers of calls.  The invariant says for each phase of the   *)
(* client what is on its way between it and the server.                    *)
(***************************************************************************)
EXTENDS Nntp, SequenceTheorems, FiniteSetTheorems, WellFoundedInduction, TLAPS

-----------------------------------------------------------------------------
\* The inductive invariant.

\* What goes through the connection.
Tokens == Chars \cup Codes \cup Commands \cup {"mode reader"}

\* A line without its end, as a server keeps it and a client is given it.
Line == Seq(Tokens \ {"LF"})

Phases ==
    {"closed", "greeting", "mode", "idle", "posting", "reading", "end", "aborted"}
        \cup Commands

\* Everything has its type, whatever has happened to the connection, and nothing is
\* on its way to a server that has closed it.
TypeOK ==
    /\ phase \in Phases /\ reader \in BOOLEAN
    /\ posted \in Articles \cup {<<>>} /\ todo \in Seq(Seq(Tokens))
    /\ got \in Seq(Line) /\ calls \in 0..MaxCalls
    /\ up \in Seq(Tokens) /\ down \in Seq(Tokens) /\ alive \in BOOLEAN
    /\ server \in [mode : {"command", "article"}, lines : Seq(Line)]
    /\ spool \in Seq(Line) /\ text \in Seq(Line)
    /\ spoiled \subseteq {"torn", "informed", "stuck"}
    /\ ~alive => up = <<>>

\* What comes to the client is s, or a beginning of it when the server has closed the
\* connection.
Begins(d, s) == \E n \in 0..Len(s) : d = SubSeq(s, 1, n)
Comes(s)     == Begins(down, s) /\ (alive => down = s)

\* The lines k + 1 to m as they are sent.
Run(lines, k, m) == AllSent(SubSeq(lines, k + 1, m))

\* An article as nntp_post_article writes it.
Written(article) == [i \in DOMAIN article |-> Stuffed(article[i])] \o <<<<".">>>>

\* The server has nothing to read, and takes what comes for a command.
Quiet == up = <<>> /\ (alive => server.mode = "command")

\* The command of a call is on its way.
Asked(command) ==
    alive /\ up = Sent(<<command>>) /\ down = <<>> /\ server.mode = "command"

\* The server has answered with a code, or has closed the connection.
Answered(codes) == Quiet /\ \E code \in codes : Comes(Sent(<<code>>))

\* The server has answered with a code and a text, or a part of them.
AnsweredText(code) ==
    Quiet /\ Comes(Sent(<<code>>) \o AllSent(Texted(text)))

\* The server has answered that it expects an article.
Invited ==
    /\ up = <<>> /\ Comes(Sent(<<"340">>))
    /\ alive => server.mode = "article" /\ server.lines = <<>>

\* Of the article and its end, m lines have been written: the server has k of them, the
\* others are on their way.
Posting(m) ==
    /\ down = <<>>
    /\ alive => /\ server.mode = "article"
                /\ \E k \in 0..Len(posted) :
                      /\ k <= m /\ up = Run(Written(posted), k, m)
                      /\ server.lines = SubSeq(Whole(posted), 1, k)

\* Of a text and its end, the client has read k lines.
Reading(k) ==
    /\ Quiet /\ got = SubSeq(text, 1, k)
    /\ Comes(Run(Texted(text), k, Len(text) + 1))

\* What is on its way, for each phase of a client whose connection is not spoiled.
InPhase ==
    /\ phase = "greeting" =>
          Quiet /\ (down = <<>> \/ \E code \in Codes :
              \/ Comes(Sent(<<code>>))
              \/ Comes(Sent(<<"100">>) \o Sent(<<code>>)))
    /\ phase = "mode" => Asked("mode reader") \/ Answered(Codes) \/ (Quiet /\ down = <<>>)
    /\ phase \in {"group", "next"} => Asked(phase) \/ Answered(Codes)
    /\ phase = "post" => Asked(phase) \/ Answered({"400", "500"}) \/ Invited
    /\ phase = "article" =>
          Asked(phase) \/ Answered({"400", "500"}) \/ AnsweredText("220")
    /\ phase = "newnews" =>
          Asked(phase) \/ Answered({"400", "500"}) \/ AnsweredText("230")
    /\ phase = "posting" =>
          \E m \in 0..Len(posted) :
              todo = SubSeq(posted, m + 1, Len(posted)) /\ Posting(m)
    /\ phase = "end" =>
          \/ Posting(Len(posted) + 1)
          \/ Answered({"441"})
          \/ Answered({"240"}) /\ spool = Whole(posted)
    /\ phase = "reading" => \E k \in 0..Len(text) : Reading(k)
    /\ phase = "idle" =>
          /\ Quiet /\ down = <<>>
          /\ ret = <<"post", 0>> => spool = Whole(posted)
          /\ ret = <<"line", 0>> => got = text
    /\ phase = "aborted" => Quiet /\ \E i \in DOMAIN text : TooLong(Dotted(text[i]))

Inv == TypeOK /\ (spoiled = {} => InPhase)

\* A set of naturals that is not empty has a least element: the form in which
\* the proofs here argue by induction.
LEMMA LeastNatural ==
    ASSUME NEW T, T \subseteq Nat, T # {}
    PROVE  \E m \in T : \A n \in T : m <= n
  <1>1. \E m \in T : \A n \in T : <<n, m>> \notin OpToRel(<, Nat)
    BY NatLessThanWellFounded, WFMin
  <1>2. PICK m \in T : \A n \in T : <<n, m>> \notin OpToRel(<, Nat)
    BY <1>1
  <1>3. \A n \in T : ~(n < m)
    BY <1>2 DEF OpToRel
  <1> QED
    BY <1>3
-----------------------------------------------------------------------------
\* Recursive functions on an initial segment of the naturals.

\* f begins with a and goes on as G says.
Recurses(f, n, S, a, G) ==
    f \in [0..n -> S] /\ f[0] = a /\ \A i \in 1..n : f[i] = G[i][f[i - 1]]

\* There is such a function.
LEMMA RecursiveFunctionExists ==
    ASSUME NEW n \in Nat, NEW S, NEW a \in S, NEW G \in [1..n -> [S -> S]]
    PROVE  \E f : Recurses(f, n, S, a, G)
  <1> USE DEF Recurses
  <1> DEFINE Good(k, f) == Recurses(f, k, S, a, G)
             Bad == {k \in 0..n : ~\E f : Good(k, f)}
  <1>1. CASE Bad = {}
    <2>1. n \in 0..n
      OBVIOUS
    <2>2. \E f : Good(n, f)
      BY <1>1, <2>1
    <2> QED
      BY <2>2
  <1>2. CASE Bad # {}
    <2>1. PICK k \in Bad : \A j \in Bad : k <= j
      <3>1. Bad \subseteq Nat
        OBVIOUS
      <3> QED
        BY <1>2, <3>1, LeastNatural
    <2>2. CASE k = 0
      <3> DEFINE f == [i \in 0..0 |-> a]
      <3>1. Good(0, f)
        OBVIOUS
      <3> QED
        BY <3>1, <2>2
    <2>3. CASE k # 0
      <3>1. k - 1 \in 0..n /\ k - 1 \notin Bad
        BY <2>1, <2>3
      <3>2. PICK f : Good(k - 1, f)
        BY <3>1
      <3> DEFINE g == [i \in 0..k |-> IF i = k THEN G[k][f[k - 1]] ELSE f[i]]
      <3>3. G[k][f[k - 1]] \in S
        <4>1. k - 1 \in 0..k - 1 /\ k \in 1..n
          BY <3>1, <2>1, <2>3
        <4>2. f[k - 1] \in S
          BY <3>2, <4>1
        <4> QED
          BY <4>1, <4>2
      <3>4. g \in [0..k -> S]
        BY <3>2, <3>3, <2>1
      <3>5. g[0] = a
        BY <3>2, <2>3, <2>1
      <3>6. \A i \in 1..k : g[i] = G[i][g[i - 1]]
        <4> TAKE i \in 1..k
        <4>1. g[i - 1] = f[i - 1]
          BY <2>1
        <4>2. CASE i = k
          BY <4>1, <4>2
        <4>3. CASE i # k
          <5>1. i \in 1..k - 1
            BY <4>3, <2>1
          <5> QED
            BY <5>1, <4>1, <4>3, <3>2
        <4> QED
          BY <4>2, <4>3
      <3>7. Good(k, g)
        BY <3>4, <3>5, <3>6
      <3> QED
        BY <3>7, <2>1
    <2> QED
      BY <2>2, <2>3
  <1> QED
    BY <1>1, <1>2

-----------------------------------------------------------------------------
\* Sequences.

\* A sequence with one more element, or two.
LEMMA WithLast ==
    ASSUME NEW S, NEW s \in Seq(S), NEW c \in S
    PROVE  /\ s \o <<c>> \in Seq(S) /\ Len(s \o <<c>>) = Len(s) + 1
           /\ \A i \in 1..Len(s) : (s \o <<c>>)[i] = s[i]
           /\ (s \o <<c>>)[Len(s) + 1] = c
  <1>1. PICK e : e = <<c>>
    OBVIOUS
  <1>2. e \in Seq(S) /\ Len(e) = 1 /\ e[1] = c
    BY <1>1
  <1>3. /\ s \o e \in Seq(S) /\ Len(s \o e) = Len(s) + Len(e)
        /\ \A i \in 1..Len(s) + Len(e) :
              (s \o e)[i] = IF i <= Len(s) THEN s[i] ELSE e[i - Len(s)]
    BY <1>2, ConcatProperties
  <1>4. Len(s) + 1 \in 1..Len(s) + 1 /\ Len(s) + 1 - Len(s) = 1 /\ ~(Len(s) + 1 <= Len(s))
    OBVIOUS
  <1>5. (s \o e)[Len(s) + 1] = c
    BY <1>2, <1>3, <1>4
  <1> QED
    BY <1>1, <1>2, <1>3, <1>5

\* What is left of a sequence behind its first n elements.
LEMMA RestIs ==
    ASSUME NEW S, NEW s \in Seq(S), NEW n \in 0..Len(s), NEW e, e = SubSeq(s, n + 1, Len(s))
    PROVE  e \in Seq(S) /\ Len(e) = Len(s) - n /\ \A i \in 1..Len(s) - n : e[i] = s[n + i]
  <1>1. PICK a, b : a = n + 1 /\ b = Len(s)
    OBVIOUS
  <1>2. a \in Int /\ b \in Int /\ \A i \in a..b : s[i] \in S
    BY <1>1
  <1>3. /\ e \in Seq(S) /\ Len(e) = (IF a <= b THEN b - a + 1 ELSE 0)
        /\ \A i \in 1..b - a + 1 : e[i] = s[a + i - 1]
    BY <1>1, <1>2, SubSeqProperties
  <1>4. /\ b - a + 1 = Len(s) - n /\ (IF a <= b THEN b - a + 1 ELSE 0) = Len(s) - n
        /\ \A i \in 1..Len(s) - n : a + i - 1 = n + i
    BY <1>1
  <1> QED
    BY <1>3, <1>4

\* A beginning that is one element longer.
LEMMA PrefixAppend ==
    ASSUME NEW S, NEW z \in Seq(S), NEW j \in 1..Len(z)
    PROVE  Append(SubSeq(z, 1, j - 1), z[j]) = SubSeq(z, 1, j)
  <1>1. PICK a, b : a = SubSeq(z, 1, j - 1) /\ b = SubSeq(z, 1, j)
    OBVIOUS
  <1>2. PICK i : i = j - 1
    OBVIOUS
  <1>3. i \in 0..Len(z) /\ j \in 0..Len(z) /\ i + 1 = j
    BY <1>2
  <1>4. a \in Seq(S) /\ Len(a) = i /\ \A x \in 1..i : a[x] = z[x]
    BY <1>1, <1>2, <1>3
  <1>5. b \in Seq(S) /\ Len(b) = j /\ \A x \in 1..j : b[x] = z[x]
    BY <1>1, <1>3
  <1>6. PICK c : c = Append(a, z[j])
    OBVIOUS
  <1>7. z[j] \in S
    OBVIOUS
  <1>8. c \in Seq(S) /\ Len(c) = j /\ (\A x \in 1..i : c[x] = z[x]) /\ c[j] = z[j]
    <2>1. /\ c \in Seq(S) /\ Len(c) = Len(a) + 1
          /\ \A x \in 1..Len(a) : c[x] = a[x]
          /\ c[Len(a) + 1] = z[j]
      BY <1>4, <1>6, <1>7, AppendProperties
    <2> QED
      BY <1>3, <1>4, <2>1
  <1>9. \A x \in 1..j : c[x] = b[x]
    <2> TAKE x \in 1..j
    <2>1. CASE x = j
      BY <1>5, <1>8, <2>1
    <2>2. CASE x # j
      <3>1. x \in 1..i
        BY <1>3, <2>2
      <3> QED
        BY <3>1, <1>5, <1>8
    <2> QED
      BY <2>1, <2>2
  <1>10. c = b
    BY <1>5, <1>8, <1>9, SeqEqual
  <1> QED
    BY <1>1, <1>6, <1>10

LEMMA OneAndOne ==
    ASSUME NEW S, NEW a \in S, NEW b \in S
    PROVE  <<a>> \o <<b>> = <<a, b>>
  <1>1. PICK s, t : s = <<a>> \o <<b>> /\ t = <<a, b>>
    OBVIOUS
  <1>2. <<a>> \in Seq(S) /\ Len(<<a>>) = 1 /\ <<a>>[1] = a
    OBVIOUS
  <1>3. s \in Seq(S) /\ Len(s) = 2 /\ s[1] = a /\ s[2] = b
    BY <1>1, <1>2, WithLast
  <1>4. t \in Seq(S) /\ Len(t) = 2 /\ t[1] = a /\ t[2] = b
    BY <1>1
  <1>5. \A i \in 1..2 : s[i] = t[i]
    BY <1>3, <1>4
  <1>6. s = t
    BY <1>3, <1>4, <1>5, SeqEqual
  <1> QED
    BY <1>1, <1>6

-----------------------------------------------------------------------------
\* Tokens.

LEMMA TokensAre ==
    /\ {"CR", "LF", ".", "x", "long", "mode reader"} \subseteq Tokens
    /\ Codes \subseteq Tokens /\ Commands \subseteq Tokens
  BY CharsAssumption DEF Tokens

LEMMA WithReturn ==
    ASSUME NEW s \in Seq(Tokens), NEW t, t = s \o <<"CR">>
    PROVE  /\ t \in Seq(Tokens) /\ Len(t) = Len(s) + 1
           /\ \A i \in 1..Len(s) : t[i] = s[i]
           /\ t[Len(s) + 1] = "CR"
  <1>1. PICK c : c = "CR"
    OBVIOUS
  <1>2. c \in Tokens
    BY <1>1, TokensAre
  <1>3. /\ s \o <<c>> \in Seq(Tokens) /\ Len(s \o <<c>>) = Len(s) + 1
        /\ \A i \in 1..Len(s) : (s \o <<c>>)[i] = s[i]
        /\ (s \o <<c>>)[Len(s) + 1] = c
    BY <1>2, WithLast
  <1>4. t = s \o <<c>>
    BY <1>1
  <1> QED
    BY <1>1, <1>3, <1>4

\* A stream behind another one.
LEMMA StreamsJoin ==
    ASSUME NEW a \in Seq(Tokens), NEW b \in Seq(Tokens), NEW c, c = a \o b
    PROVE  /\ c \in Seq(Tokens) /\ Len(c) = Len(a) + Len(b)
           /\ \A i \in 1..Len(a) + Len(b) :
                 c[i] = IF i <= Len(a) THEN a[i] ELSE b[i - Len(a)]
  BY ConcatProperties

-----------------------------------------------------------------------------
\* The widths of lines.

\* The width of a line is a natural number, its beginnings are no wider than the line
\* itself, and a token other than a long text adds one to it.
LEMMA WidthIsNat ==
    ASSUME NEW s \in Seq(Tokens)
    PROVE  Width(s) \in Nat
  <1> DEFINE L == {i \in DOMAIN s : s[i] = "long"}
  <1>1. IsFiniteSet(1..Len(s)) /\ L \subseteq 1..Len(s)
    BY FS_Interval
  <1>2. Cardinality(L) \in Nat
    BY <1>1, FS_Subset, FS_CardinalityType
  <1> QED
    BY <1>2 DEF Width

LEMMA WidthOfToken ==
    ASSUME NEW c \in Tokens, c # "long"
    PROVE  Width(<<c>>) = 1
  <1>1. {i \in DOMAIN <<c>> : <<c>>[i] = "long"} = {}
    OBVIOUS
  <1> QED
    BY <1>1, FS_EmptySet DEF Width

LEMMA WidthGrows ==
    ASSUME NEW s \in Seq(Tokens), NEW n \in 0..Len(s)
    PROVE  Width(SubSeq(s, 1, n)) <= Width(s)
  <1> DEFINE t == SubSeq(s, 1, n)
             L(u) == {i \in DOMAIN u : u[i] = "long"}
  <1>1. t \in Seq(Tokens) /\ Len(t) = n /\ \A i \in 1..n : t[i] = s[i]
    OBVIOUS
  <1>2. IsFiniteSet(1..Len(s)) /\ L(s) \subseteq 1..Len(s)
    BY FS_Interval
  <1>3. L(t) \subseteq L(s)
    BY <1>1
  <1>4. /\ Cardinality(L(t)) \in Nat /\ Cardinality(L(s)) \in Nat
        /\ Cardinality(L(t)) <= Cardinality(L(s))
    <2>1. IsFiniteSet(L(s))
      BY <1>2, FS_Subset
    <2> QED
      BY <1>3, <2>1, FS_Subset, FS_CardinalityType
  <1> HIDE DEF t
  <1>5. Width(t) = n + 509 * Cardinality(L(t)) /\ Width(s) = Len(s) + 509 * Cardinality(L(s))
    BY <1>1 DEF Width
  <1> HIDE DEF L
  <1>6. Width(t) <= Width(s)
    BY <1>4, <1>5
  <1> QED
    BY <1>6 DEF t

LEMMA WidthOfEnd ==
    ASSUME NEW s \in Seq(Tokens)
    PROVE  Width(s \o <<"CR">>) = Width(s) + 1
  <1> DEFINE L(u) == {i \in DOMAIN u : u[i] = "long"}
  <1>1. PICK t : t = s \o <<"CR">>
    OBVIOUS
  <1>2. /\ t \in Seq(Tokens) /\ Len(t) = Len(s) + 1
        /\ \A i \in 1..Len(s) : t[i] = s[i]
        /\ t[Len(s) + 1] = "CR"
    BY <1>1, WithReturn
  <1>3. L(t) = L(s)
    BY <1>2
  <1>4. Cardinality(L(s)) \in Nat
    <2>1. IsFiniteSet(1..Len(s)) /\ L(s) \subseteq 1..Len(s)
      BY FS_Interval
    <2> QED
      BY <2>1, FS_Subset, FS_CardinalityType
  <1>5. /\ Width(t) = Len(s) + 1 + 509 * Cardinality(L(t))
        /\ Width(s) = Len(s) + 509 * Cardinality(L(s))
    BY <1>2 DEF Width
  <1> HIDE DEF L
  <1> QED
    BY <1>1, <1>3, <1>4, <1>5

-----------------------------------------------------------------------------
\* Lines in a stream.

\* What a line is when it is sent.
LEMMA SentIs ==
    ASSUME NEW line \in Seq(Tokens)
    PROVE  /\ Sent(line) \in Seq(Tokens) /\ Len(Sent(line)) = Len(line) + 2
           /\ \A i \in 1..Len(line) : Sent(line)[i] = line[i]
           /\ Sent(line)[Len(line) + 1] = "CR" /\ Sent(line)[Len(line) + 2] = "LF"
           /\ Sent(line) = (line \o <<"CR">>) \o <<"LF">>
  <1>1. PICK a : a = line \o <<"CR">>
    OBVIOUS
  <1>2. /\ a \in Seq(Tokens) /\ Len(a) = Len(line) + 1
        /\ \A i \in 1..Len(line) : a[i] = line[i]
        /\ a[Len(line) + 1] = "CR"
    BY <1>1, WithReturn
  <1>3. PICK b : b = a \o <<"LF">>
    OBVIOUS
  <1>4. /\ b \in Seq(Tokens) /\ Len(b) = Len(line) + 2
        /\ \A i \in 1..Len(line) + 1 : b[i] = a[i]
        /\ b[Len(line) + 2] = "LF"
    <2>1. /\ b \in Seq(Tokens) /\ Len(b) = Len(a) + 1
          /\ \A i \in 1..Len(a) : b[i] = a[i]
          /\ b[Len(a) + 1] = "LF"
      <3>1. a \in Seq(Tokens) /\ "LF" \in Tokens
        BY <1>2, TokensAre
      <3> QED
        BY <1>3, <3>1, WithLast
    <2> QED
      BY <1>2, <2>1
  <1>5. b = Sent(line)
    <2>1. PICK x, y : x = <<"CR">> /\ y = <<"LF">>
      OBVIOUS
    <2>2. x \in Seq(Tokens) /\ y \in Seq(Tokens)
      <3>1. \A c \in Tokens : <<c>> \in Seq(Tokens)
        OBVIOUS
      <3> QED
        BY <2>1, <3>1, TokensAre
    <2>3. x \o y = <<"CR", "LF">>
      BY <2>1, OneAndOne, TokensAre
    <2> QED
      BY <1>1, <1>3, <2>1, <2>2, <2>3, ConcatAssociative DEF Sent
  <1>6. \A i \in 1..Len(line) : b[i] = line[i]
    BY <1>2, <1>4
  <1>7. b[Len(line) + 1] = "CR"
    <2>1. Len(line) + 1 \in 1..Len(line) + 1
      OBVIOUS
    <2> QED
      BY <1>2, <1>4, <2>1
  <1> QED
    BY <1>1, <1>3, <1>4, <1>5, <1>6, <1>7

\* Where the first line of a stream ends.
LEMMA EndOfFirst ==
    ASSUME NEW s \in Seq(Tokens), NEW n \in 1..Len(s),
           s[n] = "LF", \A j \in 1..n - 1 : s[j] # "LF"
    PROVE  HasLine(s) /\ EndOf(s) = n
  <1>1. n \in DOMAIN s /\ "LF" \in Range(s)
    BY DEF Range
  <1>2. \A i \in DOMAIN s : s[i] = "LF" /\ (\A j \in 1..i - 1 : s[j] # "LF") => i = n
    <2> SUFFICES ASSUME NEW i \in DOMAIN s, s[i] = "LF", \A j \in 1..i - 1 : s[j] # "LF",
                        i # n
                 PROVE  FALSE
      OBVIOUS
    <2>1. i \in Int /\ n \in Int /\ 1 <= i /\ 1 <= n
      OBVIOUS
    <2>2. CASE i < n
      BY <2>1, <2>2
    <2>3. CASE n < i
      BY <2>1, <2>3
    <2> QED
      BY <2>1, <2>2, <2>3
  <1> QED
    BY <1>1, <1>2 DEF HasLine, EndOf

\* A stream that holds a line: its end is in it, what is in front of it is a line.
LEMMA EndOfLine ==
    ASSUME NEW s \in Seq(Tokens), HasLine(s)
    PROVE  /\ EndOf(s) \in 1..Len(s) /\ s[EndOf(s)] = "LF"
           /\ \A j \in 1..EndOf(s) - 1 : s[j] # "LF"
  <1> DEFINE E == {i \in DOMAIN s : s[i] = "LF"}
  <1>1. E \subseteq Nat /\ E # {}
    BY DEF HasLine, Range
  <1>2. PICK n \in E : \A m \in E : n <= m
    BY <1>1, LeastNatural
  <1>3. \A j \in 1..n - 1 : s[j] # "LF"
    BY <1>2
  <1> QED
    BY <1>2, <1>3 DEF EndOf

\* strendzap shortens a sequence by one element at most.
LEMMA ZappedIs ==
    ASSUME NEW S, NEW s \in Seq(S), NEW c
    PROVE  /\ Zapped(s, c) \in Seq(S)
           /\ Len(Zapped(s, c)) \in {Len(s), Len(s) - 1}
           /\ \A i \in 1..Len(Zapped(s, c)) : Zapped(s, c)[i] = s[i]
           /\ IF Len(s) # 0 /\ s[Len(s)] = c THEN Len(Zapped(s, c)) = Len(s) - 1
                                             ELSE Zapped(s, c) = s
  <1>1. CASE s # <<>> /\ Last(s) = c
    <2>1. Zapped(s, c) = SubSeq(s, 1, Len(s) - 1)
      BY <1>1 DEF Zapped, Front
    <2>2. Len(s) \in Nat /\ Len(s) # 0 /\ s[Len(s)] = c
      BY <1>1 DEF Last
    <2> DEFINE n == Len(s) - 1
    <2>3. n \in 0..Len(s) /\ n # Len(s)
      BY <2>2
    <2> HIDE DEF n
    <2>4. /\ SubSeq(s, 1, n) \in Seq(S) /\ Len(SubSeq(s, 1, n)) = n
          /\ \A i \in 1..n : SubSeq(s, 1, n)[i] = s[i]
      BY <2>3
    <2> QED
      BY <2>1, <2>2, <2>3, <2>4 DEF n
  <1>2. CASE ~(s # <<>> /\ Last(s) = c)
    <2>1. Zapped(s, c) = s
      BY <1>2 DEF Zapped
    <2>2. ~(Len(s) # 0 /\ s[Len(s)] = c)
      BY <1>2 DEF Last
    <2> QED
      BY <2>1, <2>2
  <1> QED
    BY <1>1, <1>2

\* What is in front of a sequence's first line feed is a line.
LEMMA LineOfStream ==
    ASSUME NEW s \in Seq(Tokens), HasLine(s)
    PROVE  LineOf(s) \in Line /\ After(s) \in Seq(Tokens)
  <1>1. PICK n : n = EndOf(s)
    OBVIOUS
  <1>2. n \in 1..Len(s) /\ \A j \in 1..n - 1 : s[j] # "LF"
    BY <1>1, EndOfLine
  <1>3. SubSeq(s, 1, n - 1) \in Line
    <2>1. n - 1 \in Int /\ 1 \in Int
      BY <1>2
    <2>2. \A j \in 1..n - 1 : s[j] \in Tokens \ {"LF"}
      <3> TAKE j \in 1..n - 1
      <3>1. j \in 1..Len(s)
        BY <1>2
      <3> QED
        BY <3>1, <1>2
    <2> QED
      BY <2>1, <2>2, SubSeqProperties DEF Line
  <1>4. LineOf(s) \in Line
    BY <1>1, <1>3, ZappedIs DEF LineOf, Line
  <1>5. SubSeq(s, n + 1, Len(s)) \in Seq(Tokens)
    BY <1>2
  <1> QED
    BY <1>1, <1>4, <1>5 DEF After

\* A line at the beginning of a stream is what read_line reads from it.
LEMMA FirstLine ==
    ASSUME NEW line \in Line, NEW s \in Seq(Tokens), NEW d, d = Sent(line) \o s
    PROVE  /\ HasLine(d) /\ EndOf(d) = Len(line) + 2
           /\ LineOf(d) = line /\ After(d) = s
           /\ SubSeq(d, 1, Len(line) + 1) = line \o <<"CR">>
  <1>1. line \in Seq(Tokens) /\ \A i \in 1..Len(line) : line[i] # "LF"
    BY DEF Line
  <1>2. PICK t : t = Sent(line)
    OBVIOUS
  <1>3. /\ t \in Seq(Tokens) /\ Len(t) = Len(line) + 2
        /\ \A i \in 1..Len(line) : t[i] = line[i]
        /\ t[Len(line) + 1] = "CR" /\ t[Len(line) + 2] = "LF"
    BY <1>1, <1>2, SentIs
  <1>4. PICK n : n = Len(line) + 2
    OBVIOUS
  <1>5. n \in Nat /\ n - 2 = Len(line) /\ n - 1 = Len(line) + 1 /\ n - 2 \in Nat
    BY <1>1, <1>4
  <1>6. /\ d \in Seq(Tokens) /\ Len(d) = n + Len(s) /\ Len(s) \in Nat
        /\ \A i \in 1..n : d[i] = t[i]
        /\ \A i \in 1..Len(s) : d[n + i] = s[i]
    <2>1. /\ d \in Seq(Tokens) /\ Len(d) = Len(t) + Len(s)
          /\ \A i \in 1..Len(t) + Len(s) :
                d[i] = IF i <= Len(t) THEN t[i] ELSE s[i - Len(t)]
      <3>1. t \in Seq(Tokens) /\ d = t \o s
        BY <1>2, <1>3
      <3> QED
        BY <3>1, StreamsJoin
    <2>2. Len(t) = n /\ Len(s) \in Nat
      BY <1>3, <1>4
    <2>3. \A i \in 1..n : d[i] = t[i]
      BY <2>1, <2>2, <1>5
    <2>4. \A i \in 1..Len(s) : d[n + i] = s[i]
      <3> TAKE i \in 1..Len(s)
      <3>1. n + i \in 1..n + Len(s) /\ ~(n + i <= n) /\ (n + i) - n = i
        BY <1>5, <2>2
      <3> QED
        BY <2>1, <2>2, <3>1
    <2> QED
      BY <2>1, <2>2, <2>3, <2>4
  <1>7. d[n] = "LF" /\ \A j \in 1..n - 1 : d[j] # "LF"
    <2>1. n \in 1..n /\ t[n] = "LF" /\ t[n - 1] = "CR"
      BY <1>3, <1>4, <1>5
    <2>2. \A j \in 1..n - 1 : d[j] # "LF"
      <3> TAKE j \in 1..n - 1
      <3>1. d[j] = t[j]
        BY <1>5, <1>6
      <3>2. CASE j = n - 1
        BY <2>1, <3>1, <3>2
      <3>3. CASE j # n - 1
        <4>1. j \in 1..Len(line)
          BY <3>3, <1>5
        <4> QED
          BY <4>1, <3>1, <1>1, <1>3
      <3> QED
        BY <3>2, <3>3
    <2> QED
      BY <2>1, <2>2, <1>6
  <1>8. HasLine(d) /\ EndOf(d) = n
    <2>1. n \in 1..Len(d)
      BY <1>5, <1>6
    <2> QED
      BY <2>1, <1>6, <1>7, EndOfFirst
  <1>9. SubSeq(d, 1, n - 1) = line \o <<"CR">>
    <2>1. PICK e, f : e = SubSeq(d, 1, n - 1) /\ f = line \o <<"CR">>
      OBVIOUS
    <2>2. /\ f \in Seq(Tokens) /\ Len(f) = n - 1
          /\ \A i \in 1..n - 2 : f[i] = line[i]
          /\ f[n - 1] = "CR"
      <3>1. /\ f \in Seq(Tokens) /\ Len(f) = Len(line) + 1
            /\ \A i \in 1..Len(line) : f[i] = line[i]
            /\ f[Len(line) + 1] = "CR"
        BY <1>1, <2>1, WithReturn
      <3> QED
        BY <3>1, <1>5
    <2>3. e \in Seq(Tokens) /\ Len(e) = n - 1 /\ \A i \in 1..n - 1 : e[i] = d[i]
      BY <1>5, <1>6, <2>1
    <2>4. \A i \in 1..n - 1 : e[i] = f[i]
      <3> TAKE i \in 1..n - 1
      <3>1. e[i] = t[i]
        BY <1>5, <1>6, <2>3
      <3>2. CASE i = n - 1
        BY <3>1, <3>2, <1>3, <1>5, <2>2
      <3>3. CASE i # n - 1
        <4>1. i \in 1..n - 2 /\ i \in 1..Len(line)
          BY <3>3, <1>5
        <4> QED
          BY <4>1, <3>1, <1>3, <2>2
      <3> QED
        BY <3>2, <3>3
    <2>5. e = f
      BY <2>2, <2>3, <2>4, SeqEqual
    <2> QED
      BY <2>1, <2>5
  <1>10. LineOf(d) = line
    <2>1. PICK f : f = line \o <<"CR">>
      OBVIOUS
    <2>2. /\ f \in Seq(Tokens) /\ Len(f) = n - 1
          /\ \A i \in 1..n - 2 : f[i] = line[i]
          /\ f[n - 1] = "CR"
      <3>1. /\ f \in Seq(Tokens) /\ Len(f) = Len(line) + 1
            /\ \A i \in 1..Len(line) : f[i] = line[i]
            /\ f[Len(line) + 1] = "CR"
        BY <1>1, <2>1, WithReturn
      <3> QED
        BY <3>1, <1>5
    <2>3. PICK z : z = Zapped(f, "CR")
      OBVIOUS
    <2>4. /\ z \in Seq(Tokens) /\ \A i \in 1..Len(z) : z[i] = f[i]
          /\ Len(f) # 0 /\ f[Len(f)] = "CR" => Len(z) = Len(f) - 1
      <3>1. f \in Seq(Tokens)
        BY <2>2
      <3>2. /\ Zapped(f, "CR") \in Seq(Tokens)
            /\ \A i \in 1..Len(Zapped(f, "CR")) : Zapped(f, "CR")[i] = f[i]
            /\ Len(f) # 0 /\ f[Len(f)] = "CR" => Len(Zapped(f, "CR")) = Len(f) - 1
        BY <3>1, ZappedIs
      <3> QED
        BY <2>3, <3>2
    <2>5. Len(z) = Len(line)
      BY <2>2, <2>4, <1>5
    <2>6. \A i \in 1..Len(z) : z[i] = line[i]
      BY <2>2, <2>4, <2>5, <1>5
    <2>7. z = line
      BY <1>1, <2>4, <2>5, <2>6, SeqEqual
    <2> QED
      BY <2>1, <2>3, <2>7, <1>8, <1>9 DEF LineOf
  <1>11. After(d) = s
    <2>1. PICK e : e = SubSeq(d, n + 1, Len(d))
      OBVIOUS
    <2>2. /\ e \in Seq(Tokens) /\ Len(e) = Len(s)
          /\ \A i \in 1..Len(s) : e[i] = d[n + i]
      <3>1. n \in 0..Len(d) /\ Len(d) - n = Len(s)
        BY <1>5, <1>6
      <3> QED
        BY <2>1, <3>1, <1>6, RestIs
    <2>3. e = s
      BY <2>2, <1>6, SeqEqual
    <2> QED
      BY <2>1, <2>3, <1>8 DEF After
  <1> QED
    BY <1>4, <1>5, <1>8, <1>9, <1>10, <1>11

-----------------------------------------------------------------------------
\* Beginnings of a stream.

\* A stream is its own beginning; what is cut off it leaves a beginning.
LEMMA BeginningIs ==
    ASSUME NEW s \in Seq(Tokens), NEW d, Begins(d, s)
    PROVE  d \in Seq(Tokens) /\ Len(d) \in 0..Len(s) /\ \A i \in 1..Len(d) : d[i] = s[i]
  BY DEF Begins

LEMMA BeginsItself ==
    ASSUME NEW s \in Seq(Tokens)
    PROVE  Begins(s, s) /\ Begins(<<>>, s)
  <1>1. SubSeq(s, 1, Len(s)) = s /\ SubSeq(s, 1, 0) = <<>>
    BY SubSeqFull, SubSeqEmpty
  <1>2. Len(s) \in 0..Len(s) /\ 0 \in 0..Len(s)
    OBVIOUS
  <1> QED
    BY <1>1, <1>2 DEF Begins

LEMMA BeginsNothing ==
    ASSUME NEW d, Begins(d, <<>>)
    PROVE  d = <<>>
  BY SubSeqEmpty DEF Begins

LEMMA BeginsCut ==
    ASSUME NEW s \in Seq(Tokens), NEW d, Begins(d, s), NEW n \in 0..Len(d)
    PROVE  Begins(SubSeq(d, 1, n), s)
  <1>1. /\ d \in Seq(Tokens) /\ Len(d) \in 0..Len(s)
        /\ \A i \in 1..Len(d) : d[i] = s[i]
    BY BeginningIs
  <1>2. n \in 0..Len(s)
    BY <1>1
  <1>3. PICK e, f : e = SubSeq(d, 1, n) /\ f = SubSeq(s, 1, n)
    OBVIOUS
  <1>4. e \in Seq(Tokens) /\ Len(e) = n /\ \A i \in 1..n : e[i] = d[i]
    BY <1>1, <1>3
  <1>5. f \in Seq(Tokens) /\ Len(f) = n /\ \A i \in 1..n : f[i] = s[i]
    BY <1>2, <1>3
  <1>6. \A i \in 1..n : e[i] = f[i]
    BY <1>1, <1>4, <1>5
  <1>7. e = f
    BY <1>4, <1>5, <1>6, SeqEqual
  <1> QED
    BY <1>2, <1>3, <1>7 DEF Begins

\* What read_line does with a stream whose beginning is a line: it reads this line, or
\* the stream ends within it, and only when it is too wide does it abort.
LEMMA ReadFirst ==
    ASSUME NEW line \in Line, NEW s \in Seq(Tokens), NEW d, Begins(d, Sent(line) \o s)
    PROVE  /\ HasLine(d) => LineOf(d) = line /\ Begins(After(d), s)
           /\ d = Sent(line) \o s => HasLine(d) /\ After(d) = s
           /\ TooWide(d) => TooLong(line)
  <1>1. line \in Seq(Tokens) /\ \A i \in 1..Len(line) : line[i] # "LF"
    BY DEF Line
  <1>2. PICK t, u : t = Sent(line) /\ u = t \o s
    OBVIOUS
  <1>3. PICK N : N = Len(line) + 2
    OBVIOUS
  <1>4. N \in Nat /\ N - 2 = Len(line) /\ N - 1 = Len(line) + 1 /\ N - 2 \in Nat
    BY <1>1, <1>3
  <1>5. /\ t \in Seq(Tokens) /\ Len(t) = N
        /\ \A i \in 1..N - 2 : t[i] = line[i]
        /\ t[N - 1] = "CR" /\ t[N] = "LF"
    BY <1>1, <1>2, <1>3, <1>4, SentIs
  <1>6. /\ u \in Seq(Tokens) /\ Len(u) = N + Len(s)
        /\ \A i \in 1..N + Len(s) : u[i] = IF i <= N THEN t[i] ELSE s[i - N]
    <2>1. /\ u \in Seq(Tokens) /\ Len(u) = Len(t) + Len(s)
          /\ \A i \in 1..Len(t) + Len(s) :
                u[i] = IF i <= Len(t) THEN t[i] ELSE s[i - Len(t)]
      BY <1>2, <1>5, ConcatProperties
    <2> QED
      BY <2>1, <1>5
  <1>7. /\ Begins(d, u) /\ d \in Seq(Tokens) /\ Len(d) \in 0..Len(u)
        /\ \A i \in 1..Len(d) : d[i] = u[i]
    <2>1. Begins(d, u)
      BY <1>2
    <2> QED
      BY <2>1, <1>6, BeginningIs
  <1>8. PICK f : f = line \o <<"CR">>
    OBVIOUS
  <1>9. /\ f \in Seq(Tokens) /\ Len(f) = N - 1
        /\ \A i \in 1..N - 2 : f[i] = line[i]
        /\ f[N - 1] = "CR"
    <2>1. /\ f \in Seq(Tokens) /\ Len(f) = Len(line) + 1
          /\ \A i \in 1..Len(line) : f[i] = line[i]
          /\ f[Len(line) + 1] = "CR"
      BY <1>1, <1>8, WithReturn
    <2> QED
      BY <2>1, <1>4
  <1>10. Width(f) = Width(line) + 1 /\ Width(line) \in Nat
    BY <1>1, <1>8, WidthOfEnd, WidthIsNat
  <1>11. CASE N <= Len(d)
    <2>1. PICK r : r = SubSeq(s, 1, Len(d) - N)
      OBVIOUS
    <2>2. Len(d) - N \in 0..Len(s)
      BY <1>4, <1>6, <1>7, <1>11
    <2>3. r \in Seq(Tokens) /\ Len(r) = Len(d) - N /\ \A i \in 1..Len(d) - N : r[i] = s[i]
      BY <2>1, <2>2
    <2>4. d = t \o r
      <3>1. PICK e : e = t \o r
        OBVIOUS
      <3>2. /\ e \in Seq(Tokens) /\ Len(e) = Len(d)
            /\ \A i \in 1..Len(d) : e[i] = IF i <= N THEN t[i] ELSE r[i - N]
        <4>1. /\ e \in Seq(Tokens) /\ Len(e) = Len(t) + Len(r)
              /\ \A i \in 1..Len(t) + Len(r) :
                    e[i] = IF i <= Len(t) THEN t[i] ELSE r[i - Len(t)]
          <5>1. t \in Seq(Tokens) /\ r \in Seq(Tokens)
            BY <1>5, <2>3
          <5> QED
            BY <3>1, <5>1, StreamsJoin
        <4>2. Len(t) = N /\ Len(t) + Len(r) = Len(d)
          BY <1>4, <1>5, <1>7, <2>3
        <4> QED
          BY <4>1, <4>2
      <3>3. \A i \in 1..Len(d) : e[i] = d[i]
        <4> TAKE i \in 1..Len(d)
        <4>1. i \in 1..N + Len(s) /\ i \in Nat
          BY <1>6, <1>7
        <4>2. d[i] = IF i <= N THEN t[i] ELSE s[i - N]
          BY <1>6, <1>7, <4>1
        <4>3. CASE i <= N
          BY <3>2, <4>2, <4>3
        <4>4. CASE ~(i <= N)
          <5>1. i - N \in 1..Len(d) - N
            BY <4>1, <4>4, <1>4, <1>7
          <5>2. r[i - N] = s[i - N]
            BY <5>1, <2>3
          <5> QED
            BY <3>2, <4>2, <4>4, <5>2
        <4> QED
          BY <4>3, <4>4
      <3>4. e = d
        BY <3>2, <3>3, <1>7, SeqEqual
      <3> QED
        BY <3>1, <3>4
    <2>5. /\ HasLine(d) /\ EndOf(d) = Len(line) + 2
          /\ LineOf(d) = line /\ After(d) = r
          /\ SubSeq(d, 1, Len(line) + 1) = f
      BY <2>3, <2>4, <1>2, <1>8, FirstLine
    <2>6. Begins(r, s)
      BY <2>1, <2>2 DEF Begins
    <2>7. d = u => After(d) = s
      BY <1>2, FirstLine
    <2>8. TooWide(d) => TooLong(line)
      <3>1. EndOf(d) - 1 = Len(line) + 1
        BY <2>5, <1>4
      <3>2. TooWide(d) => Width(f) >= 512
        BY <2>5, <3>1 DEF TooWide
      <3> QED
        BY <3>2, <1>10 DEF TooLong
    <2> QED
      BY <2>5, <2>6, <2>7, <2>8, <1>2
  <1>12. CASE ~(N <= Len(d))
    <2>1. Len(d) \in 0..N - 1 /\ Len(d) \in Nat
      BY <1>4, <1>7, <1>12
    <2>2. \A i \in 1..Len(d) : d[i] = f[i]
      <3> TAKE i \in 1..Len(d)
      <3>1. i \in 1..N - 1 /\ i \in 1..N + Len(s) /\ i <= N
        BY <2>1, <1>4
      <3>2. d[i] = t[i]
        BY <3>1, <1>6, <1>7
      <3>3. CASE i = N - 1
        BY <3>2, <3>3, <1>5, <1>9
      <3>4. CASE i # N - 1
        <4>1. i \in 1..N - 2
          BY <3>1, <3>4, <1>4
        <4> QED
          BY <4>1, <3>2, <1>5, <1>9
      <3> QED
        BY <3>3, <3>4
    <2>3. \A i \in 1..N - 1 : f[i] # "LF"
      <3> TAKE i \in 1..N - 1
      <3>1. CASE i = N - 1
        BY <3>1, <1>9
      <3>2. CASE i # N - 1
        <4>1. i \in 1..N - 2 /\ i \in 1..Len(line)
          BY <3>2, <1>4
        <4> QED
          BY <4>1, <1>1, <1>9
      <3> QED
        BY <3>1, <3>2
    <2>4. ~HasLine(d)
      <3>1. \A i \in 1..Len(d) : d[i] # "LF"
        <4> TAKE i \in 1..Len(d)
        <4>1. i \in 1..N - 1
          BY <2>1, <1>4
        <4> QED
          BY <4>1, <2>2, <2>3
      <3> QED
        BY <3>1, <1>7 DEF HasLine, Range
    <2>5. d # u
      <3>1. Len(d) # Len(u)
        BY <2>1, <1>4, <1>6
      <3> QED
        BY <3>1
    <2>6. d = SubSeq(f, 1, Len(d))
      <3>1. PICK e : e = SubSeq(f, 1, Len(d))
        OBVIOUS
      <3>2. Len(d) \in 0..Len(f)
        BY <2>1, <1>9
      <3>3. e \in Seq(Tokens) /\ Len(e) = Len(d) /\ \A i \in 1..Len(d) : e[i] = f[i]
        BY <3>1, <3>2, <1>9
      <3>4. e = d
        BY <3>3, <2>2, <1>7, SeqEqual
      <3> QED
        BY <3>1, <3>4
    <2>7. Width(d) <= Width(f)
      <3>1. Len(d) \in 0..Len(f)
        BY <2>1, <1>9
      <3> QED
        BY <3>1, <2>6, <1>9, WidthGrows
    <2>8. TooWide(d) => TooLong(line)
      <3>1. Width(d) \in Nat
        BY <1>7, WidthIsNat
      <3> QED
        BY <2>4, <2>7, <3>1, <1>10 DEF TooWide, TooLong
    <2> QED
      BY <2>4, <2>5, <2>8, <1>2
  <1>13. N \in Int /\ Len(d) \in Int
    BY <1>4, <1>7
  <1> QED
    BY <1>11, <1>12, <1>13

\* A response code is a line, and never too wide.
LEMMA CodeIsLine ==
    ASSUME NEW c \in Codes
    PROVE  /\ <<c>> \in Line /\ <<c>> \in Seq(Tokens)
           /\ ~TooLong(<<c>>) /\ Code(<<c>>) = c
  <1>1. c \in Tokens /\ c # "LF" /\ c # "long"
    BY TokensAre DEF Codes, Refusals
  <1>2. <<c>> \in Seq(Tokens \ {"LF"}) /\ <<c>> \in Seq(Tokens)
    BY <1>1
  <1>3. Width(<<c>>) = 1
    BY <1>1, WidthOfToken
  <1>4. <<c>> # <<>> /\ Head(<<c>>) = c
    OBVIOUS
  <1> QED
    BY <1>2, <1>3, <1>4 DEF Line, TooLong, Code

\* Reading a response of which a beginning is there.
LEMMA ReadCode ==
    ASSUME NEW c \in Codes, NEW s \in Seq(Tokens), NEW d, Begins(d, Sent(<<c>>) \o s)
    PROVE  /\ HasLine(d) => Code(LineOf(d)) = c /\ Begins(After(d), s)
           /\ d = Sent(<<c>>) \o s => HasLine(d) /\ After(d) = s
           /\ ~TooWide(d)
  <1>1. PICK line : line = <<c>>
    OBVIOUS
  <1>2. line \in Line /\ ~TooLong(line) /\ Code(line) = c /\ Begins(d, Sent(line) \o s)
    BY <1>1, CodeIsLine
  <1>3. /\ HasLine(d) => LineOf(d) = line /\ Begins(After(d), s)
        /\ d = Sent(line) \o s => HasLine(d) /\ After(d) = s
        /\ TooWide(d) => TooLong(line)
    BY <1>2, ReadFirst
  <1> QED
    BY <1>1, <1>2, <1>3

LEMMA ReadCodeAlone ==
    ASSUME NEW c \in Codes, NEW d, Begins(d, Sent(<<c>>))
    PROVE  /\ HasLine(d) => Code(LineOf(d)) = c /\ After(d) = <<>>
           /\ d = Sent(<<c>>) => HasLine(d)
           /\ ~TooWide(d)
  <1>1. PICK t : t = Sent(<<c>>)
    OBVIOUS
  <1>2. t \in Seq(Tokens)
    BY <1>1, CodeIsLine, SentIs
  <1>3. t \o <<>> = t /\ <<>> \in Seq(Tokens)
    BY <1>2, ConcatEmptySeq
  <1>4. Begins(d, Sent(<<c>>) \o <<>>)
    BY <1>1, <1>3
  <1>5. /\ HasLine(d) => Code(LineOf(d)) = c /\ Begins(After(d), <<>>)
        /\ d = Sent(<<c>>) \o <<>> => HasLine(d)
        /\ ~TooWide(d)
    BY <1>3, <1>4, ReadCode
  <1> QED
    BY <1>1, <1>3, <1>5, BeginsNothing

\* Nothing is not too wide.
LEMMA NothingIsThere ==
    ~HasLine(<<>>) /\ ~TooWide(<<>>)
  <1>1. ~HasLine(<<>>)
    BY DEF HasLine, Range
  <1>2. Width(<<>>) = 0
    <2>1. {i \in DOMAIN <<>> : <<>>[i] = "long"} = {}
      OBVIOUS
    <2> QED
      BY <2>1, FS_EmptySet DEF Width
  <1> QED
    BY <1>1, <1>2 DEF TooWide

-----------------------------------------------------------------------------
\* Dots and the ends of lines.

\* Another dot does not make a line the one of a single dot, and is taken away again.
LEMMA DottedIs ==
    ASSUME NEW S, "." \in S, NEW line \in Seq(S)
    PROVE  /\ Dotted(line) \in Seq(S) /\ Dotted(line) # <<".">>
           /\ Unstuffed(Dotted(line)) = line
  <1>1. CASE line # <<>> /\ Head(line) = "."
    <2>1. PICK e, t : e = <<".">> /\ t = e \o line
      OBVIOUS
    <2>2. e \in Seq(S) /\ Len(e) = 1 /\ e[1] = "."
      BY <2>1
    <2>3. /\ t \in Seq(S) /\ Len(t) = 1 + Len(line)
          /\ \A i \in 1..1 + Len(line) : t[i] = IF i <= 1 THEN e[i] ELSE line[i - 1]
      <3>1. /\ t \in Seq(S) /\ Len(t) = Len(e) + Len(line)
            /\ \A i \in 1..Len(e) + Len(line) :
                  t[i] = IF i <= Len(e) THEN e[i] ELSE line[i - Len(e)]
        BY <2>1, <2>2, ConcatProperties
      <3> QED
        BY <2>2, <3>1
    <2>4. Len(line) \in Nat /\ Len(line) # 0
      BY <1>1
    <2>5. Len(t) # 1
      BY <2>3, <2>4
    <2>6. t # <<>> /\ t[1] = "."
      BY <2>2, <2>3, <2>4
    <2>7. Head(t) = "."
      BY <2>3, <2>6
    <2>8. Tail(t) = line
      <3>1. PICK u : u = Tail(t)
        OBVIOUS
      <3>2. /\ u \in Seq(S) /\ Len(u) = Len(t) - 1
            /\ \A i \in 1..Len(u) : u[i] = t[i + 1]
        BY <3>1, <2>3, <2>6, HeadTailProperties
      <3>3. Len(u) = Len(line)
        BY <3>2, <2>3, <2>4
      <3>4. \A i \in 1..Len(line) : u[i] = line[i]
        <4> TAKE i \in 1..Len(line)
        <4>1. i + 1 \in 1..1 + Len(line) /\ ~(i + 1 <= 1) /\ i + 1 - 1 = i
          BY <2>4
        <4> QED
          BY <4>1, <3>2, <3>3, <2>3
      <3>5. u = line
        BY <3>2, <3>3, <3>4, SeqEqual
      <3> QED
        BY <3>1, <3>5
    <2>9. Dotted(line) = t
      BY <1>1, <2>1 DEF Dotted
    <2> QED
      BY <2>3, <2>1, <2>2, <2>5, <2>6, <2>7, <2>8, <2>9 DEF Unstuffed
  <1>2. CASE ~(line # <<>> /\ Head(line) = ".")
    <2>1. Dotted(line) = line
      BY <1>2 DEF Dotted
    <2>2. <<".">> # <<>> /\ Head(<<".">>) = "."
      OBVIOUS
    <2> QED
      BY <1>2, <2>1, <2>2 DEF Unstuffed
  <1> QED
    BY <1>1, <1>2

LEMMA UnstuffedIsLine ==
    ASSUME NEW line \in Line
    PROVE  Unstuffed(line) \in Line
  <1>1. CASE line # <<>> /\ Head(line) = "."
    BY <1>1, HeadTailProperties DEF Unstuffed, Line
  <1>2. CASE ~(line # <<>> /\ Head(line) = ".")
    BY <1>2 DEF Unstuffed
  <1> QED
    BY <1>1, <1>2

\* A line that a client may be given to write, with or without its end.
OneLine(line) == line \in Seq(Tokens) /\ \A j \in 1..Len(line) - 1 : line[j] # "LF"

LEMMA BareIsLine ==
    ASSUME NEW line, OneLine(line)
    PROVE  Bare(line) \in Line
  <1>1. line \in Seq(Tokens) /\ \A j \in 1..Len(line) - 1 : line[j] # "LF"
    BY DEF OneLine
  <1>2. PICK z : z = Zapped(line, "LF")
    OBVIOUS
  <1>3. /\ z \in Seq(Tokens) /\ \A i \in 1..Len(z) : z[i] = line[i]
        /\ IF Len(line) # 0 /\ line[Len(line)] = "LF" THEN Len(z) = Len(line) - 1
                                                      ELSE z = line
    BY <1>1, <1>2, ZappedIs
  <1>4. \A i \in 1..Len(z) : z[i] # "LF"
    <2> TAKE i \in 1..Len(z)
    <2>1. CASE Len(line) # 0 /\ line[Len(line)] = "LF"
      <3>1. i \in 1..Len(line) - 1
        BY <2>1, <1>1, <1>3
      <3> QED
        BY <3>1, <1>1, <1>3
    <2>2. CASE ~(Len(line) # 0 /\ line[Len(line)] = "LF")
      <3>1. z = line /\ i \in 1..Len(line) /\ Len(line) \in Nat
        BY <2>2, <1>1, <1>3
      <3>2. CASE i = Len(line)
        BY <2>2, <3>1, <3>2
      <3>3. CASE i # Len(line)
        <4>1. i \in 1..Len(line) - 1
          BY <3>1, <3>3
        <4> QED
          BY <4>1, <3>1, <1>1
      <3> QED
        BY <3>2, <3>3
    <2> QED
      BY <2>1, <2>2
  <1>5. z \in Seq(Tokens \ {"LF"})
    <2>1. Len(z) \in Nat /\ \A i \in 1..Len(z) : z[i] \in Tokens \ {"LF"}
      BY <1>3, <1>4
    <2> QED
      BY <2>1, <1>3, IsASeq
  <1>6. Zapped(z, "CR") \in Line
    BY <1>5, ZappedIs DEF Line
  <1> QED
    BY <1>2, <1>6 DEF Bare

\* A dot in front of a line that is not empty stays there when its end is removed.
LEMMA ZappedBehindDot ==
    ASSUME NEW line \in Seq(Tokens), line # <<>>, NEW c
    PROVE  Zapped(<<".">> \o line, c) = <<".">> \o Zapped(line, c)
  <1>1. PICK e, t : e = <<".">> /\ t = e \o line
    OBVIOUS
  <1>2. e \in Seq(Tokens) /\ Len(e) = 1
    <2>1. "." \in Tokens
      BY TokensAre
    <2> QED
      BY <1>1, <2>1
  <1>3. PICK n : n = Len(line)
    OBVIOUS
  <1>4. n \in Nat /\ n # 0 /\ n >= 1
    BY <1>3
  <1>5. /\ t \in Seq(Tokens) /\ Len(t) = 1 + n
        /\ \A i \in 1..1 + n : t[i] = IF i <= 1 THEN e[i] ELSE line[i - 1]
    <2>1. /\ t \in Seq(Tokens) /\ Len(t) = Len(e) + Len(line)
          /\ \A i \in 1..Len(e) + Len(line) :
                t[i] = IF i <= Len(e) THEN e[i] ELSE line[i - Len(e)]
      BY <1>1, <1>2, ConcatProperties
    <2> QED
      BY <2>1, <1>2, <1>3
  <1>6. t[1 + n] = line[n]
    <2>1. PICK m : m = 1 + n
      OBVIOUS
    <2>2. m \in 1..1 + n /\ ~(m <= 1) /\ m - 1 = n
      BY <2>1, <1>4
    <2>3. t[m] = line[m - 1]
      BY <2>2, <1>5
    <2> QED
      BY <2>1, <2>2, <2>3
  <1>7. PICK y, z : y = Zapped(t, c) /\ z = Zapped(line, c)
    OBVIOUS
  <1>8. CASE line[n] = c
    <2>1. /\ y \in Seq(Tokens) /\ Len(y) = n /\ \A i \in 1..n : y[i] = t[i]
      <3>1. /\ y \in Seq(Tokens) /\ \A i \in 1..Len(y) : y[i] = t[i]
            /\ Len(t) # 0 /\ t[Len(t)] = c => Len(y) = Len(t) - 1
        BY <1>5, <1>7, ZappedIs
      <3>2. Len(t) # 0 /\ t[Len(t)] = c /\ Len(t) - 1 = n
        BY <1>4, <1>5, <1>6, <1>8
      <3> QED
        BY <3>1, <3>2
    <2>2. /\ z \in Seq(Tokens) /\ Len(z) = n - 1 /\ \A i \in 1..n - 1 : z[i] = line[i]
      <3>1. /\ z \in Seq(Tokens) /\ \A i \in 1..Len(z) : z[i] = line[i]
            /\ Len(line) # 0 /\ line[Len(line)] = c => Len(z) = Len(line) - 1
        BY <1>7, ZappedIs
      <3> QED
        BY <3>1, <1>3, <1>4, <1>8
    <2>3. PICK x : x = e \o z
      OBVIOUS
    <2>4. /\ x \in Seq(Tokens) /\ Len(x) = n
          /\ \A i \in 1..n : x[i] = IF i <= 1 THEN e[i] ELSE z[i - 1]
      <3>1. /\ x \in Seq(Tokens) /\ Len(x) = Len(e) + Len(z)
            /\ \A i \in 1..Len(e) + Len(z) :
                  x[i] = IF i <= Len(e) THEN e[i] ELSE z[i - Len(e)]
        BY <2>3, <1>2, <2>2, ConcatProperties
      <3>2. Len(e) + Len(z) = n
        BY <1>2, <1>4, <2>2
      <3> QED
        BY <3>1, <3>2, <1>2
    <2>5. \A i \in 1..n : x[i] = y[i]
      <3> TAKE i \in 1..n
      <3>1. i \in 1..1 + n /\ i \in Nat
        BY <1>4
      <3>2. y[i] = IF i <= 1 THEN e[i] ELSE line[i - 1]
        BY <3>1, <2>1, <1>5
      <3>3. CASE i <= 1
        BY <3>2, <3>3, <2>4
      <3>4. CASE ~(i <= 1)
        <4>1. i - 1 \in 1..n - 1
          BY <3>1, <3>4, <1>4
        <4>2. z[i - 1] = line[i - 1]
          BY <4>1, <2>2
        <4> QED
          BY <3>2, <3>4, <4>2, <2>4
      <3> QED
        BY <3>3, <3>4
    <2>6. x = y
      BY <2>1, <2>4, <2>5, SeqEqual
    <2> QED
      BY <1>1, <1>7, <2>3, <2>6
  <1>9. CASE line[n] # c
    <2>1. y = t
      <3>1. IF Len(t) # 0 /\ t[Len(t)] = c THEN Len(y) = Len(t) - 1 ELSE y = t
        BY <1>5, <1>7, ZappedIs
      <3>2. t[Len(t)] # c
        BY <1>5, <1>6, <1>9
      <3> QED
        BY <3>1, <3>2
    <2>2. z = line
      <3>1. IF Len(line) # 0 /\ line[Len(line)] = c THEN Len(z) = Len(line) - 1
                                                    ELSE z = line
        BY <1>7, ZappedIs
      <3> QED
        BY <3>1, <1>3, <1>9
    <2> QED
      BY <1>1, <1>7, <2>1, <2>2
  <1> QED
    BY <1>8, <1>9

\* Writing a line removes its end and doubles the dot that it begins with: in which
\* order it does so makes no difference.
LEMMA StuffedIs ==
    ASSUME NEW line, OneLine(line)
    PROVE  Stuffed(line) = Dotted(Bare(line))
  <1>1. line \in Seq(Tokens)
    BY DEF OneLine
  <1>2. PICK y : y = Zapped(line, "LF")
    OBVIOUS
  <1>3. PICK z : z = Zapped(y, "CR")
    OBVIOUS
  <1>4. z = Bare(line)
    BY <1>2, <1>3 DEF Bare
  <1>5. /\ y \in Seq(Tokens) /\ Len(y) \in {Len(line), Len(line) - 1}
        /\ \A i \in 1..Len(y) : y[i] = line[i]
        /\ IF Len(line) # 0 /\ line[Len(line)] = "LF" THEN Len(y) = Len(line) - 1
                                                      ELSE y = line
    BY <1>1, <1>2, ZappedIs
  <1>6. /\ z \in Seq(Tokens) /\ Len(z) \in {Len(y), Len(y) - 1}
        /\ \A i \in 1..Len(z) : z[i] = y[i]
        /\ IF Len(y) # 0 /\ y[Len(y)] = "CR" THEN Len(z) = Len(y) - 1 ELSE z = y
    BY <1>3, <1>5, ZappedIs
  <1>7. CASE line # <<>> /\ Head(line) = "."
    <2>1. Len(line) \in Nat /\ Len(line) # 0 /\ line[1] = "."
      BY <1>1, <1>7
    <2>2. Len(y) # 0 /\ y # <<>>
      BY <2>1, <1>5
    <2>3. y[1] = "." /\ Len(y) \in Nat
      BY <2>1, <2>2, <1>5
    <2>4. Len(z) # 0 /\ Len(z) \in Nat
      BY <2>2, <2>3, <1>6
    <2>5. z # <<>> /\ z[1] = "." /\ Head(z) = "."
      BY <2>3, <2>4, <1>6
    <2>6. Zapped(<<".">> \o line, "LF") = <<".">> \o y
      BY <1>1, <1>2, <1>7, ZappedBehindDot
    <2>7. Zapped(<<".">> \o y, "CR") = <<".">> \o z
      BY <1>3, <1>5, <2>2, ZappedBehindDot
    <2>8. Bare(<<".">> \o line) = <<".">> \o z
      BY <2>6, <2>7 DEF Bare
    <2> QED
      BY <2>5, <2>8, <1>4, <1>7 DEF Stuffed, Dotted
  <1>8. CASE ~(line # <<>> /\ Head(line) = ".")
    <2>1. z # <<>> => Head(z) # "."
      <3> SUFFICES ASSUME z # <<>> PROVE Head(z) # "."
        OBVIOUS
      <3>1. 1 \in 1..Len(z) /\ Head(z) = z[1]
        BY <1>6
      <3>2. 1 \in 1..Len(y)
        BY <3>1, <1>5, <1>6
      <3>3. z[1] = line[1]
        BY <3>1, <3>2, <1>5, <1>6
      <3>4. line # <<>>
        BY <3>2, <1>1, <1>5
      <3> QED
        BY <3>1, <3>3, <3>4, <1>1, <1>8
    <2> QED
      BY <2>1, <1>4, <1>8 DEF Stuffed, Dotted
  <1> QED
    BY <1>7, <1>8

\* What the server gets of a line that is written is the line without its end.
LEMMA WrittenLine ==
    ASSUME NEW line, OneLine(line)
    PROVE  /\ Bare(line) \in Line /\ Stuffed(line) \in Line
           /\ Stuffed(line) # <<".">> /\ Unstuffed(Stuffed(line)) = Bare(line)
  <1>1. Bare(line) \in Seq(Tokens \ {"LF"}) /\ "." \in Tokens \ {"LF"}
    BY BareIsLine, TokensAre DEF Line
  <1>2. /\ Dotted(Bare(line)) \in Seq(Tokens \ {"LF"}) /\ Dotted(Bare(line)) # <<".">>
        /\ Unstuffed(Dotted(Bare(line))) = Bare(line)
    BY <1>1, DottedIs
  <1> QED
    BY <1>1, <1>2, StuffedIs DEF Line

LEMMA TextLine ==
    ASSUME NEW line \in Line
    PROVE  /\ Dotted(line) \in Line /\ Dotted(line) # <<".">>
           /\ Unstuffed(Dotted(line)) = line
  <1>1. line \in Seq(Tokens \ {"LF"}) /\ "." \in Tokens \ {"LF"}
    BY TokensAre DEF Line
  <1> QED
    BY <1>1, DottedIs DEF Line

-----------------------------------------------------------------------------
\* Lines one after the other.

\* f tells how far the first lines reach in a stream.
Sends(f, lines) ==
    /\ f \in [0..Len(lines) -> Seq(Tokens)] /\ f[0] = <<>>
    /\ \A i \in 1..Len(lines) : f[i] = f[i - 1] \o Sent(lines[i])

LEMMA AllSentIs ==
    ASSUME NEW lines \in Seq(Line)
    PROVE  \E f : Sends(f, lines) /\ AllSent(lines) = f[Len(lines)]
  <1> DEFINE n == Len(lines)
             Recursive(f) == f = [i \in 0..n |->
                                IF i = 0 THEN <<>> ELSE f[i - 1] \o Sent(lines[i])]
             sent == CHOOSE f : Recursive(f)
             G == [i \in 1..n |-> [s \in Seq(Tokens) |-> s \o Sent(lines[i])]]
  <1>1. G \in [1..n -> [Seq(Tokens) -> Seq(Tokens)]]
    <2> SUFFICES ASSUME NEW i \in 1..n, NEW s \in Seq(Tokens)
                 PROVE  s \o Sent(lines[i]) \in Seq(Tokens)
      OBVIOUS
    <2>1. lines[i] \in Line
      OBVIOUS
    <2>2. lines[i] \in Seq(Tokens)
      BY <2>1 DEF Line
    <2>3. Sent(lines[i]) \in Seq(Tokens)
      BY <2>2, SentIs
    <2> QED
      BY <2>3, ConcatProperties
  <1>2. PICK f : Recurses(f, n, Seq(Tokens), <<>>, G)
    <2>1. n \in Nat /\ <<>> \in Seq(Tokens)
      OBVIOUS
    <2> HIDE DEF G, n
    <2> QED
      BY <1>1, <2>1, RecursiveFunctionExists
  <1>3. \A i \in 1..n : f[i] = f[i - 1] \o Sent(lines[i])
    <2> TAKE i \in 1..n
    <2>1. i - 1 \in 0..n
      OBVIOUS
    <2>2. f[i - 1] \in Seq(Tokens) /\ f[i] = G[i][f[i - 1]]
      <3> HIDE DEF G, n
      <3> QED
        BY <1>2, <2>1 DEF Recurses
    <2> QED
      BY <2>2
  <1> HIDE DEF G
  <1>4. Recursive(f)
    <2>1. f \in [0..n -> Seq(Tokens)] /\ f[0] = <<>>
      <3> HIDE DEF n
      <3> QED
        BY <1>2 DEF Recurses
    <2>2. \A i \in 0..n : f[i] = IF i = 0 THEN <<>> ELSE f[i - 1] \o Sent(lines[i])
      <3> TAKE i \in 0..n
      <3>1. CASE i = 0
        BY <2>1, <3>1
      <3>2. CASE i # 0
        <4>1. i \in 1..n
          BY <3>2
        <4> QED
          BY <3>2, <4>1, <1>3
      <3> QED
        BY <3>1, <3>2
    <2> QED
      BY <2>1, <2>2
  <1>5. Recursive(sent)
    BY <1>4
  <1>6. AllSent(lines) = sent[n]
    BY DEF AllSent
  <1> HIDE DEF sent
  <1>7. n \in Nat
    OBVIOUS
  <1>8. sent[0] = <<>> /\ \A i \in 1..n : sent[i] = sent[i - 1] \o Sent(lines[i])
    <2> HIDE DEF n
    <2>1. \A i \in 0..n : sent[i] = IF i = 0 THEN <<>> ELSE sent[i - 1] \o Sent(lines[i])
      BY <1>5
    <2>2. 0 \in 0..n /\ \A i \in 1..n : i \in 0..n /\ i # 0
      BY <1>7
    <2>3. \A i \in 1..n : sent[i] = sent[i - 1] \o Sent(lines[i])
      BY <2>1, <2>2
    <2> QED
      BY <2>1, <2>2, <2>3
  <1>9. \A i \in 0..n : sent[i] \in Seq(Tokens)
    <2> DEFINE Bad == {i \in 0..n : sent[i] \notin Seq(Tokens)}
    <2>1. SUFFICES ASSUME Bad # {} PROVE FALSE
      OBVIOUS
    <2>2. Bad \subseteq Nat
      BY <1>7
    <2>3. PICK k \in Bad : \A i \in Bad : k <= i
      BY <2>1, <2>2, LeastNatural
    <2>4. k # 0
      <3>1. <<>> \in Seq(Tokens) /\ sent[k] \notin Seq(Tokens)
        BY <2>3
      <3> QED
        BY <3>1, <1>8
    <2>5. k \in 1..n /\ k - 1 \in 0..n /\ ~(k <= k - 1)
      BY <2>4, <1>7
    <2>6. sent[k - 1] \in Seq(Tokens)
      BY <2>3, <2>5
    <2>7. Sent(lines[k]) \in Seq(Tokens)
      <3>1. lines[k] \in Line
        BY <2>5
      <3>2. lines[k] \in Seq(Tokens)
        BY <3>1 DEF Line
      <3> QED
        BY <3>2, SentIs
    <2>8. sent[k] \in Seq(Tokens)
      BY <2>5, <2>6, <2>7, <1>8, ConcatProperties
    <2> QED
      BY <2>3, <2>8
  <1>10. Sends(sent, lines)
    <2>1. sent \in [0..n -> Seq(Tokens)]
      BY <1>5, <1>9
    <2> QED
      BY <2>1, <1>8 DEF Sends
  <1> QED
    BY <1>6, <1>10

\* Two sequences have their first n lines in common.
Alike(ls, ms, n) ==
    /\ n \in Nat /\ Len(ls) \in Nat /\ Len(ms) \in Nat
    /\ n <= Len(ls) /\ n <= Len(ms) /\ \A i \in 1..n : ls[i] = ms[i]

\* They reach as far.
LEMMA SendsAgree ==
    ASSUME NEW f, NEW ls, NEW g, NEW ms, NEW n, Alike(ls, ms, n), Sends(f, ls), Sends(g, ms)
    PROVE  f[n] = g[n]
  <1> USE DEF Alike
  <1> DEFINE Bad == {i \in 0..n : f[i] # g[i]}
  <1>1. SUFFICES ASSUME Bad # {} PROVE FALSE
    <2>1. n \in 0..n
      OBVIOUS
    <2> QED
      BY <1>1, <2>1
  <1>2. Bad \subseteq Nat
    OBVIOUS
  <1>3. PICK k \in Bad : \A i \in Bad : k <= i
    BY <1>1, <1>2, LeastNatural
  <1>4. k # 0
    BY <1>3 DEF Sends
  <1>5. k \in 1..n /\ k - 1 \in 0..n /\ ~(k <= k - 1)
    BY <1>4
  <1>6. f[k - 1] = g[k - 1]
    BY <1>3, <1>5
  <1>7. f[k] = f[k - 1] \o Sent(ls[k]) /\ g[k] = g[k - 1] \o Sent(ms[k])
    <2>1. k \in 1..Len(ls) /\ k \in 1..Len(ms)
      BY <1>5
    <2> QED
      BY <2>1 DEF Sends
  <1> QED
    BY <1>5, <1>6, <1>7, <1>3

\* The lines from the first to the second of two positions.
LEMMA PartIs ==
    ASSUME NEW S, NEW s \in Seq(S), NEW m \in 0..Len(s), NEW k \in 0..m,
           NEW p, p = SubSeq(s, k + 1, m)
    PROVE  p \in Seq(S) /\ Len(p) = m - k /\ \A i \in 1..m - k : p[i] = s[k + i]
  <1>1. PICK a, b : a = k + 1 /\ b = m
    OBVIOUS
  <1>2. a \in Int /\ b \in Int /\ \A i \in a..b : s[i] \in S
    BY <1>1
  <1>3. /\ p \in Seq(S) /\ Len(p) = (IF a <= b THEN b - a + 1 ELSE 0)
        /\ \A i \in 1..b - a + 1 : p[i] = s[a + i - 1]
    BY <1>1, <1>2, SubSeqProperties
  <1>4. /\ b - a + 1 = m - k /\ (IF a <= b THEN b - a + 1 ELSE 0) = m - k
        /\ \A i \in 1..m - k : a + i - 1 = k + i
    BY <1>1
  <1> QED
    BY <1>3, <1>4

LEMMA RunIsStream ==
    ASSUME NEW lines \in Seq(Line), NEW m \in 0..Len(lines), NEW k \in 0..m
    PROVE  Run(lines, k, m) \in Seq(Tokens) /\ (k = m => Run(lines, k, m) = <<>>)
  <1>1. PICK p : p = SubSeq(lines, k + 1, m)
    OBVIOUS
  <1>2. p \in Seq(Line) /\ Len(p) = m - k /\ m - k \in Nat
    BY <1>1, PartIs
  <1>3. PICK f : Sends(f, p) /\ AllSent(p) = f[Len(p)]
    BY <1>2, AllSentIs
  <1>4. f[m - k] \in Seq(Tokens) /\ f[0] = <<>>
    BY <1>2, <1>3 DEF Sends
  <1>5. k = m => m - k = 0
    OBVIOUS
  <1> QED
    BY <1>1, <1>2, <1>3, <1>4, <1>5 DEF Run

\* Another line is sent behind those that were sent before.
LEMMA RunLast ==
    ASSUME NEW lines \in Seq(Line), NEW m \in 0..Len(lines) - 1, NEW k \in 0..m
    PROVE  Run(lines, k, m + 1) = Run(lines, k, m) \o Sent(lines[m + 1])
  <1>1. PICK p, q : p = SubSeq(lines, k + 1, m) /\ q = SubSeq(lines, k + 1, m + 1)
    OBVIOUS
  <1>2. PICK n : n = m - k
    OBVIOUS
  <1>3. n \in Nat /\ n + 1 = m + 1 - k /\ k + (n + 1) = m + 1
    BY <1>2
  <1>4. p \in Seq(Line) /\ Len(p) = n /\ \A i \in 1..n : p[i] = lines[k + i]
    BY <1>1, <1>2, PartIs
  <1>5. q \in Seq(Line) /\ Len(q) = n + 1 /\ \A i \in 1..n + 1 : q[i] = lines[k + i]
    <2>1. m + 1 \in 0..Len(lines) /\ k \in 0..m + 1
      OBVIOUS
    <2>2. /\ q \in Seq(Line) /\ Len(q) = m + 1 - k
          /\ \A i \in 1..m + 1 - k : q[i] = lines[k + i]
      BY <1>1, <2>1, PartIs
    <2> QED
      BY <2>2, <1>3
  <1>6. PICK f : Sends(f, p) /\ AllSent(p) = f[n]
    <2>1. \E f : Sends(f, p) /\ AllSent(p) = f[Len(p)]
      BY <1>4, AllSentIs
    <2> QED
      BY <2>1, <1>4
  <1>7. PICK g : Sends(g, q) /\ AllSent(q) = g[n + 1]
    <2>1. \E g : Sends(g, q) /\ AllSent(q) = g[Len(q)]
      BY <1>5, AllSentIs
    <2> QED
      BY <2>1, <1>5
  <1>8. f[n] = g[n]
    <2>1. Alike(p, q, n)
      BY <1>3, <1>4, <1>5 DEF Alike
    <2> QED
      BY <2>1, <1>6, <1>7, SendsAgree
  <1>9. g[n + 1] = g[n] \o Sent(q[n + 1])
    <2>1. PICK j : j = n + 1
      OBVIOUS
    <2>2. j \in 1..Len(q) /\ j - 1 = n
      BY <2>1, <1>3, <1>5
    <2>3. g[j] = g[j - 1] \o Sent(q[j])
      BY <2>2, <1>7 DEF Sends
    <2> QED
      BY <2>1, <2>2, <2>3
  <1>10. q[n + 1] = lines[m + 1]
    <2>1. n + 1 \in 1..n + 1
      BY <1>3
    <2>2. q[n + 1] = lines[k + (n + 1)]
      BY <2>1, <1>5
    <2> QED
      BY <2>2, <1>3
  <1> QED
    BY <1>1, <1>6, <1>7, <1>8, <1>9, <1>10 DEF Run

LEMMA StreamsAssociate ==
    \A a, b, c \in Seq(Tokens) : (a \o b) \o c = a \o (b \o c)
  BY ConcatAssociative

\* The first line is the beginning of what is sent.
LEMMA RunFirst ==
    ASSUME NEW lines \in Seq(Line), NEW m \in 1..Len(lines), NEW k \in 0..m - 1
    PROVE  Run(lines, k, m) = Sent(lines[k + 1]) \o Run(lines, k + 1, m)
  <1> DEFINE First(i) == Run(lines, k, i) = Sent(lines[k + 1]) \o Run(lines, k + 1, i)
             Bad == {i \in k + 1..m : ~First(i)}
  <1>1. SUFFICES ASSUME Bad # {} PROVE FALSE
    <2>1. m \in k + 1..m
      OBVIOUS
    <2> QED
      BY <1>1, <2>1
  <1>2. Bad \subseteq Nat
    OBVIOUS
  <1>3. PICK n \in Bad : \A i \in Bad : n <= i
    BY <1>1, <1>2, LeastNatural
  <1>4. Sent(lines[k + 1]) \in Seq(Tokens)
    <2>1. k + 1 \in 1..Len(lines)
      OBVIOUS
    <2>2. lines[k + 1] \in Line
      BY <2>1
    <2>3. lines[k + 1] \in Seq(Tokens)
      BY <2>2 DEF Line
    <2> QED
      BY <2>3, SentIs
  <1>5. CASE n = k + 1
    <2>1. k \in 0..Len(lines) - 1 /\ k \in 0..k /\ k \in 0..Len(lines)
      OBVIOUS
    <2>2. Run(lines, k, k + 1) = Run(lines, k, k) \o Sent(lines[k + 1])
      BY <2>1, RunLast
    <2>3. Run(lines, k, k) = <<>>
      BY <2>1, RunIsStream
    <2>4. Run(lines, k + 1, k + 1) = <<>>
      <3>1. k + 1 \in 0..Len(lines) /\ k + 1 \in 0..k + 1
        OBVIOUS
      <3> QED
        BY <3>1, RunIsStream
    <2>5. First(n)
      BY <1>4, <1>5, <2>2, <2>3, <2>4, ConcatEmptySeq
    <2> QED
      BY <1>3, <2>5
  <1>6. CASE n # k + 1
    <2>1. PICK j : j = n - 1
      OBVIOUS
    <2>2. /\ j \in k + 1..m /\ j \in 0..Len(lines) - 1 /\ k \in 0..j /\ k + 1 \in 0..j
          /\ j + 1 = n /\ ~(n <= j) /\ j \in 0..Len(lines) /\ n \in 1..Len(lines)
      BY <2>1, <1>3, <1>6
    <2>3. Run(lines, k, j) = Sent(lines[k + 1]) \o Run(lines, k + 1, j)
      BY <2>2, <1>3
    <2>4. Run(lines, k, n) = Run(lines, k, j) \o Sent(lines[n])
      BY <2>2, RunLast
    <2>5. Run(lines, k + 1, n) = Run(lines, k + 1, j) \o Sent(lines[n])
      BY <2>2, RunLast
    <2>6. Run(lines, k + 1, j) \in Seq(Tokens)
      BY <2>2, RunIsStream
    <2>7. Sent(lines[n]) \in Seq(Tokens)
      <3>1. lines[n] \in Line
        BY <2>2
      <3>2. lines[n] \in Seq(Tokens)
        BY <3>1 DEF Line
      <3> QED
        BY <3>2, SentIs
    <2>8. First(n)
      <3>1. PICK a, b, c : /\ a = Sent(lines[k + 1]) /\ b = Run(lines, k + 1, j)
                           /\ c = Sent(lines[n])
        OBVIOUS
      <3>2. a \in Seq(Tokens) /\ b \in Seq(Tokens) /\ c \in Seq(Tokens)
        BY <3>1, <1>4, <2>6, <2>7
      <3>3. (a \o b) \o c = a \o (b \o c)
        BY <3>2, StreamsAssociate
      <3> QED
        BY <3>1, <3>3, <2>3, <2>4, <2>5
    <2> QED
      BY <1>3, <2>8
  <1> QED
    BY <1>5, <1>6

-----------------------------------------------------------------------------
\* Texts and articles.

\* One more line behind the lines that another function of their numbers gives.
LEMMA WithEnd ==
    ASSUME NEW lines \in Seq(Line), NEW t, t = lines \o <<<<".">>>>
    PROVE  /\ t \in Seq(Line) /\ Len(t) = Len(lines) + 1
           /\ \A i \in 1..Len(lines) : t[i] = lines[i]
           /\ t[Len(lines) + 1] = <<".">>
  <1>1. PICK e : e = <<".">>
    OBVIOUS
  <1>2. e \in Line
    <2>1. "." \in Tokens \ {"LF"}
      BY TokensAre
    <2> QED
      BY <1>1, <2>1 DEF Line
  <1> QED
    BY <1>1, <1>2, WithLast

\* A text is sent with dots in front of its lines and a line of one behind it.
LEMMA TextedIs ==
    ASSUME NEW t \in Seq(Line)
    PROVE  /\ Texted(t) \in Seq(Line) /\ Len(Texted(t)) = Len(t) + 1
           /\ \A i \in 1..Len(t) : Texted(t)[i] = Dotted(t[i])
           /\ Texted(t)[Len(t) + 1] = <<".">>
  <1>1. PICK d : d = [i \in DOMAIN t |-> Dotted(t[i])]
    OBVIOUS
  <1>2. \A i \in 1..Len(t) : Dotted(t[i]) \in Line
    <2> TAKE i \in 1..Len(t)
    <2>1. t[i] \in Line
      OBVIOUS
    <2> QED
      BY <2>1, TextLine
  <1>3. d \in Seq(Line) /\ Len(d) = Len(t) /\ \A i \in 1..Len(t) : d[i] = Dotted(t[i])
    <2>1. DOMAIN t = 1..Len(t) /\ Len(t) \in Nat
      OBVIOUS
    <2>2. d \in [1..Len(t) -> Line]
      BY <1>1, <1>2, <2>1
    <2>3. d \in Seq(Line) /\ Len(d) = Len(t)
      BY <2>1, <2>2
    <2> QED
      BY <1>1, <2>1, <2>3
  <1>4. Texted(t) = d \o <<<<".">>>>
    BY <1>1 DEF Texted
  <1>5. /\ Texted(t) \in Seq(Line) /\ Len(Texted(t)) = Len(d) + 1
        /\ \A i \in 1..Len(d) : Texted(t)[i] = d[i]
        /\ Texted(t)[Len(d) + 1] = <<".">>
    BY <1>3, <1>4, WithEnd
  <1> QED
    BY <1>3, <1>5

\* What is posted are lines as nntp_write_next_line takes them.
LEMMA ArticlesAre ==
    ASSUME NEW article \in Articles \cup {<<>>}
    PROVE  article \in Seq(Seq(Tokens)) /\ \A i \in 1..Len(article) : OneLine(article[i])
  <1>1. CASE article = <<>>
    BY <1>1
  <1>2. CASE article \in Articles
    <2>1. article \in Seq(Seq(Chars))
      BY <1>2, ArticlesAssumption
    <2>2. Len(article) \in Nat /\ DOMAIN article = 1..Len(article)
      BY <2>1
    <2>3. \A i \in 1..Len(article) : article[i] \in Seq(Tokens)
      <3> TAKE i \in 1..Len(article)
      <3>1. article[i] \in Seq(Chars)
        BY <2>1
      <3>2. Chars \subseteq Tokens
        BY DEF Tokens
      <3> QED
        BY <3>1, <3>2, SeqMonotonic
    <2>4. article \in Seq(Seq(Tokens))
      BY <2>1, <2>2, <2>3, IsASeq
    <2> QED
      BY <1>2, <2>2, <2>3, <2>4, ArticlesAssumption DEF OneLine
  <1> QED
    BY <1>1, <1>2

\* An article without the ends of its lines, and as it is written.
LEMMA WholeIs ==
    ASSUME NEW article \in Articles \cup {<<>>}
    PROVE  /\ Whole(article) \in Seq(Line) /\ Len(Whole(article)) = Len(article)
           /\ \A i \in 1..Len(article) : Whole(article)[i] = Bare(article[i])
  <1>1. Len(article) \in Nat /\ DOMAIN article = 1..Len(article)
    BY ArticlesAre
  <1>2. \A i \in 1..Len(article) : Bare(article[i]) \in Line
    BY ArticlesAre, WrittenLine
  <1>3. Whole(article) \in [1..Len(article) -> Line]
    BY <1>1, <1>2 DEF Whole
  <1>4. Whole(article) \in Seq(Line) /\ Len(Whole(article)) = Len(article)
    BY <1>1, <1>3
  <1> QED
    BY <1>1, <1>4 DEF Whole

LEMMA WrittenIs ==
    ASSUME NEW article \in Articles \cup {<<>>}
    PROVE  /\ Written(article) \in Seq(Line) /\ Len(Written(article)) = Len(article) + 1
           /\ \A i \in 1..Len(article) : Written(article)[i] = Stuffed(article[i])
           /\ Written(article)[Len(article) + 1] = <<".">>
  <1>1. Len(article) \in Nat /\ DOMAIN article = 1..Len(article)
    BY ArticlesAre
  <1>2. \A i \in 1..Len(article) : Stuffed(article[i]) \in Line
    BY ArticlesAre, WrittenLine
  <1>3. PICK d : d = [i \in DOMAIN article |-> Stuffed(article[i])]
    OBVIOUS
  <1>4. d \in [1..Len(article) -> Line]
    BY <1>1, <1>2, <1>3
  <1>5. d \in Seq(Line) /\ Len(d) = Len(article)
    BY <1>1, <1>4
  <1>6. \A i \in 1..Len(article) : d[i] = Stuffed(article[i])
    BY <1>1, <1>3
  <1>7. Written(article) = d \o <<<<".">>>>
    BY <1>3 DEF Written
  <1>8. /\ Written(article) \in Seq(Line) /\ Len(Written(article)) = Len(d) + 1
        /\ \A i \in 1..Len(d) : Written(article)[i] = d[i]
        /\ Written(article)[Len(d) + 1] = <<".">>
    BY <1>5, <1>7, WithEnd
  <1> QED
    BY <1>5, <1>6, <1>8

-----------------------------------------------------------------------------
\* What every step does to the types.

\* A line of any kind is written with the ends and dots that it needs.
LEMMA StuffedIsStream ==
    ASSUME NEW line \in Seq(Tokens)
    PROVE  Stuffed(line) \in Seq(Tokens) /\ Sent(Stuffed(line)) \in Seq(Tokens)
  <1>1. Dotted(line) \in Seq(Tokens)
    BY TokensAre, DottedIs
  <1>2. Bare(Dotted(line)) \in Seq(Tokens)
    BY <1>1, ZappedIs DEF Bare
  <1> QED
    BY <1>2, SentIs DEF Stuffed

\* What write_all does: unless the connection is torn, all of s is on its way.
LEMMA WriteAllStep ==
    ASSUME TypeOK, NEW s \in Seq(Tokens), Len(s) # 0, WriteAll(s)
    PROVE  /\ up' \in Seq(Tokens) /\ spoiled' \subseteq {"torn", "informed", "stuck"}
           /\ spoiled \subseteq spoiled'
           /\ ~alive => up' = up
           /\ spoiled' = {} => up' = IF alive THEN up \o s ELSE up
  <1>1. up \in Seq(Tokens) /\ spoiled \subseteq {"torn", "informed", "stuck"}
    BY DEF TypeOK
  <1>2. CASE up' = (IF alive THEN up \o s ELSE up) /\ UNCHANGED spoiled
    BY <1>1, <1>2, ConcatProperties
  <1>3. CASE /\ alive /\ "torn" \notin spoiled
             /\ up' = up \o SubSeq(s, 1, 1) \o SubSeq(s, 1, Len(s) - 1)
             /\ spoiled' = spoiled \cup {"torn"}
    <2>1. PICK a, b : a = SubSeq(s, 1, 1) /\ b = SubSeq(s, 1, Len(s) - 1)
      OBVIOUS
    <2>2. a \in Seq(Tokens) /\ b \in Seq(Tokens)
      <3>1. \A n \in 0..Len(s) : SubSeq(s, 1, n) \in Seq(Tokens)
        OBVIOUS
      <3>2. 1 \in 0..Len(s) /\ Len(s) - 1 \in 0..Len(s)
        OBVIOUS
      <3> QED
        BY <2>1, <3>1, <3>2
    <2>3. (up \o a) \o b \in Seq(Tokens)
      BY <1>1, <2>2, ConcatProperties
    <2> QED
      BY <1>1, <1>3, <2>1, <2>3
  <1> QED
    BY <1>2, <1>3 DEF WriteAll

\* What read_line does.
LEMMA ReadLineStep ==
    ASSUME TypeOK, ReadLine
    PROVE  /\ down' \in Seq(Tokens)
           /\ IF HasLine(down) THEN down' = After(down) /\ LineOf(down) \in Line
                               ELSE ~alive /\ down' = <<>>
  <1>1. down \in Seq(Tokens)
    BY DEF TypeOK
  <1>2. CASE HasLine(down)
    BY <1>1, <1>2, LineOfStream DEF ReadLine
  <1>3. CASE ~HasLine(down)
    BY <1>3 DEF ReadLine
  <1> QED
    BY <1>2, <1>3

\* What send_cmd does to what is on its way: the line goes to the server with its end.
LEMMA SendCmdStep ==
    ASSUME TypeOK, NEW line \in Seq(Tokens), SendCmd(line)
    PROVE  /\ ~TooLong(line)
           /\ up' \in Seq(Tokens) /\ spoiled' \subseteq {"torn", "informed", "stuck"}
           /\ spoiled \subseteq spoiled'
           /\ ~alive => up' = up
           /\ spoiled' = {} => up' = IF alive THEN up \o Sent(line) ELSE up
  <1>1. PICK s : s = Sent(line)
    OBVIOUS
  <1>2. s \in Seq(Tokens) /\ Len(s) # 0
    BY <1>1, SentIs
  <1>3. WriteAll(s) /\ ~TooLong(line)
    BY <1>1 DEF SendCmd
  <1>4. /\ up' \in Seq(Tokens) /\ spoiled' \subseteq {"torn", "informed", "stuck"}
        /\ spoiled \subseteq spoiled'
        /\ ~alive => up' = up
        /\ spoiled' = {} => up' = IF alive THEN up \o s ELSE up
    BY <1>2, <1>3, WriteAllStep
  <1> QED
    BY <1>1, <1>3, <1>4

\* What the server's answer is.
LEMMA AnswerStep ==
    ASSUME TypeOK, NEW code \in Codes, NEW lines \in Seq(Line), Answer(code, lines)
    PROVE  /\ down' \in Seq(Tokens) /\ spoiled' \subseteq {"torn", "informed", "stuck"}
           /\ spoiled \subseteq spoiled'
           /\ spoiled' = {} => down' = down \o Sent(<<code>>) \o AllSent(lines)
  <1>1. PICK a, b, c : a = Sent(<<code>>) /\ b = Sent(<<"100">>) /\ c = AllSent(lines)
    OBVIOUS
  <1>2. a \in Seq(Tokens) /\ b \in Seq(Tokens)
    <2>1. "100" \in Codes
      BY DEF Codes
    <2> QED
      BY <2>1, <1>1, CodeIsLine, SentIs
  <1>3. c \in Seq(Tokens)
    <2>1. PICK f : Sends(f, lines) /\ AllSent(lines) = f[Len(lines)]
      BY AllSentIs
    <2>2. Len(lines) \in 0..Len(lines)
      OBVIOUS
    <2> QED
      BY <1>1, <2>1, <2>2 DEF Sends
  <1>4. down \in Seq(Tokens) /\ spoiled \subseteq {"torn", "informed", "stuck"}
    BY DEF TypeOK
  <1>5. down \o a \o c \in Seq(Tokens) /\ down \o b \o a \o c \in Seq(Tokens)
    BY <1>2, <1>3, <1>4, ConcatProperties
  <1>6. \/ down' = down \o a \o c /\ spoiled' = spoiled
        \/ /\ down' = down \o b \o a \o c
           /\ spoiled' = spoiled \cup {"informed"}
    BY <1>1 DEF Answer
  <1> QED
    BY <1>1, <1>4, <1>5, <1>6

\* What newnews answers is a text.
LEMMA NewsIsText ==
    \A t \in {<<>>, <<<<"x">>>>} : t \in Seq(Line)
  <1>1. PICK line : line = <<"x">>
    OBVIOUS
  <1>2. line \in Line
    <2>1. "x" \in Tokens \ {"LF"}
      BY TokensAre
    <2> QED
      BY <1>1, <2>1 DEF Line
  <1>3. <<line>> \in Seq(Line) /\ <<>> \in Seq(Line)
    BY <1>2
  <1> QED
    BY <1>1, <1>3

\* Nothing else than these variables changes when the server answers a command.
LEMMA ServerObeysTypes ==
    ASSUME TypeOK, NEW command, ServerObeys(command)
    PROVE  /\ down' \in Seq(Tokens) /\ spoiled' \subseteq {"torn", "informed", "stuck"}
           /\ spoiled \subseteq spoiled'
           /\ server' \in [mode : {"command", "article"}, lines : Seq(Line)]
           /\ text' \in Seq(Line)
  <1>1. /\ server \in [mode : {"command", "article"}, lines : Seq(Line)]
        /\ text \in Seq(Line) /\ spool \in Seq(Line)
    BY DEF TypeOK
  <1>2. <<>> \in Seq(Line)
    OBVIOUS
  <1>3. {"100", "200", "201", "211", "220", "223", "230", "240", "340", "421",
         "400", "441", "500"} \subseteq Codes
    BY DEF Codes, Refusals
  <1> DEFINE Answers(code, lines) == code \in Codes /\ lines \in Seq(Line) /\ Answer(code, lines)
  <1>4. ASSUME NEW code, NEW lines, Answers(code, lines)
        PROVE  /\ down' \in Seq(Tokens) /\ spoiled' \subseteq {"torn", "informed", "stuck"}
               /\ spoiled \subseteq spoiled'
    BY <1>4, AnswerStep
  <1>5. CASE command = "mode reader" /\ (\E code \in {"200", "201"} : Answer(code, <<>>))
             /\ UNCHANGED <<server, text>>
    <2>1. PICK code \in {"200", "201"} : Answers(code, <<>>)
      BY <1>2, <1>3, <1>5
    <2> HIDE DEF Answers
    <2> QED
      BY <1>1, <1>4, <1>5, <2>1
  <1>6. CASE /\ command = "post" /\ Answer("340", <<>>)
             /\ server' = [mode |-> "article", lines |-> <<>>]
             /\ UNCHANGED text
    <2>1. Answers("340", <<>>)
      BY <1>2, <1>3, <1>6
    <2> HIDE DEF Answers
    <2> QED
      BY <1>1, <1>2, <1>4, <1>6, <2>1
  <1>7. CASE command = "group" /\ Answer("211", <<>>) /\ UNCHANGED <<server, text>>
    <2>1. Answers("211", <<>>)
      BY <1>2, <1>3, <1>7
    <2> HIDE DEF Answers
    <2> QED
      BY <1>1, <1>4, <1>7, <2>1
  <1>8. CASE command = "next" /\ (\E code \in {"223", "421"} : Answer(code, <<>>))
             /\ UNCHANGED <<server, text>>
    <2>1. PICK code \in {"223", "421"} : Answers(code, <<>>)
      BY <1>2, <1>3, <1>8
    <2> HIDE DEF Answers
    <2> QED
      BY <1>1, <1>4, <1>8, <2>1
  <1>9. CASE /\ command = "article" /\ Answer("220", Texted(spool)) /\ text' = spool
             /\ UNCHANGED server
    <2>1. Answers("220", Texted(spool))
      BY <1>1, <1>3, <1>9, TextedIs
    <2> HIDE DEF Answers
    <2> QED
      BY <1>1, <1>4, <1>9, <2>1
  <1>10. CASE /\ command = "newnews" /\ text' \in {<<>>, <<<<"x">>>>}
              /\ Answer("230", Texted(text')) /\ UNCHANGED server
    <2>1. text' \in Seq(Line)
      BY <1>10, NewsIsText
    <2>2. Answers("230", Texted(text'))
      BY <2>1, <1>3, <1>10, TextedIs
    <2> HIDE DEF Answers
    <2> QED
      BY <1>1, <1>4, <1>10, <2>1, <2>2
  <1>11. CASE \E code \in {"400", "500"} : Answer(code, <<>>) /\ UNCHANGED <<server, text>>
    <2>1. PICK code \in {"400", "500"} : Answers(code, <<>>) /\ UNCHANGED <<server, text>>
      BY <1>2, <1>3, <1>11
    <2> HIDE DEF Answers
    <2> QED
      BY <1>1, <1>4, <2>1
  <1> HIDE DEF Answers
  <1> QED
    BY <1>5, <1>6, <1>7, <1>8, <1>9, <1>10, <1>11 DEF ServerObeys

LEMMA TypeInit == Init => TypeOK
  <1> SUFFICES ASSUME Init PROVE TypeOK
    OBVIOUS
  <1>1. spool \in Seq(Line)
    <2>1. spool \in Seq(Seq(Chars \ {"LF"}))
      BY SpooledAssumption DEF Init
    <2>2. Chars \ {"LF"} \subseteq Tokens \ {"LF"}
      BY DEF Tokens
    <2>3. Seq(Chars \ {"LF"}) \subseteq Line
      BY <2>2, SeqMonotonic DEF Line
    <2> QED
      BY <2>1, <2>3, SeqMonotonic
  <1>2. /\ <<>> \in Seq(Line) /\ <<>> \in Seq(Tokens) /\ <<>> \in Seq(Seq(Tokens))
        /\ 0 \in 0..MaxCalls
    BY MaxCallsAssumption
  <1> QED
    BY <1>1, <1>2 DEF Init, TypeOK, Phases

\* Every step keeps the types, and nothing is sent to a server that is gone.
LEMMA TypeStep == TypeOK /\ [Next]_vars => TypeOK'
  <1> SUFFICES ASSUME TypeOK, [Next]_vars PROVE TypeOK'
    OBVIOUS
  <1> USE DEF client, external
  <1>1. down \in Seq(Tokens) /\ up \in Seq(Tokens) /\ got \in Seq(Line)
    BY DEF TypeOK
  <1>2. posted \in Seq(Seq(Tokens))
    BY ArticlesAre DEF TypeOK
  <1>3. \A c \in {"mode reader", "."} \cup Commands : <<c>> \in Seq(Tokens)
    <2>1. \A c \in Tokens : <<c>> \in Seq(Tokens)
      OBVIOUS
    <2>2. {"mode reader", "."} \cup Commands \subseteq Tokens
      BY TokensAre
    <2> QED
      BY <2>1, <2>2
  <1>4. CASE UNCHANGED vars
    BY <1>4 DEF vars, TypeOK
  <1>5. CASE ServerReadsCommand
    <2>1. up' \in Seq(Tokens)
      BY <1>1, <1>5, LineOfStream DEF ServerReadsCommand
    <2>2. PICK command : ServerObeys(command)
      BY <1>5 DEF ServerReadsCommand
    <2>3. /\ down' \in Seq(Tokens) /\ spoiled' \subseteq {"torn", "informed", "stuck"}
          /\ server' \in [mode : {"command", "article"}, lines : Seq(Line)]
          /\ text' \in Seq(Line)
      BY <2>2, ServerObeysTypes
    <2>4. alive' /\ alive' \in BOOLEAN
      BY <1>5 DEF ServerReadsCommand, TypeOK
    <2>5. UNCHANGED <<client, spool>>
      BY <1>5 DEF ServerReadsCommand
    <2> QED
      BY <2>1, <2>3, <2>4, <2>5 DEF TypeOK
  <1>6. CASE ServerReadsLine
    <2>1. up' \in Seq(Tokens) /\ LineOf(up) \in Line
      BY <1>1, <1>6, LineOfStream DEF ServerReadsLine
    <2>2. UNCHANGED <<client, text>> /\ alive' /\ alive' \in BOOLEAN
      BY <1>6 DEF ServerReadsLine, TypeOK
    <2>3. server.lines \in Seq(Line) /\ <<>> \in Seq(Line)
      BY DEF TypeOK
    <2>4. CASE LineOf(up) = <<".">>
      <3>1. server' \in [mode : {"command", "article"}, lines : Seq(Line)]
        <4>1. server' = [mode |-> "command", lines |-> <<>>]
          BY <1>6, <2>4 DEF ServerReadsLine
        <4> QED
          BY <4>1, <2>3
      <3>2. PICK code \in {"240", "441"} : Answer(code, <<>>) /\ spool' \in {spool, server.lines}
        BY <1>6, <2>4 DEF ServerReadsLine
      <3>3. code \in Codes
        BY DEF Codes, Refusals
      <3>4. down' \in Seq(Tokens) /\ spoiled' \subseteq {"torn", "informed", "stuck"}
        BY <2>3, <3>2, <3>3, AnswerStep
      <3> QED
        BY <2>1, <2>2, <2>3, <3>1, <3>2, <3>4 DEF TypeOK
    <2>5. CASE LineOf(up) # <<".">>
      <3>1. /\ server' = [server EXCEPT !.lines = Append(server.lines, Unstuffed(LineOf(up)))]
            /\ UNCHANGED <<down, spool, spoiled>>
        BY <1>6, <2>5 DEF ServerReadsLine
      <3>2. Append(server.lines, Unstuffed(LineOf(up))) \in Seq(Line)
        BY <2>1, <2>3, UnstuffedIsLine
      <3>3. server' \in [mode : {"command", "article"}, lines : Seq(Line)]
        <4>1. server \in [mode : {"command", "article"}, lines : Seq(Line)]
          BY DEF TypeOK
        <4> QED
          BY <3>1, <3>2, <4>1
      <3> QED
        BY <2>1, <2>2, <3>1, <3>3 DEF TypeOK
    <2> QED
      BY <2>4, <2>5
  <1>7. CASE ServerCloses
    <2>1. down' \in Seq(Tokens) /\ up' \in Seq(Tokens)
      BY <1>1, <1>7 DEF ServerCloses
    <2> QED
      BY <1>7, <2>1 DEF ServerCloses, TypeOK
  <1>8. CASE ReadLineAborts
    <2>1. down' \in Seq(Tokens)
      <3>1. CASE UNCHANGED down
        BY <1>1, <3>1
      <3>2. CASE \E n \in DOMAIN down : down' = <<"x", "LF">> \o SubSeq(down, n + 1, Len(down))
        <4>1. PICK n \in 1..Len(down) : down' = <<"x", "LF">> \o SubSeq(down, n + 1, Len(down))
          <5>1. DOMAIN down = 1..Len(down)
            BY <1>1
          <5> QED
            BY <3>2, <5>1
        <4>2. PICK e, f : e = <<"x", "LF">> /\ f = SubSeq(down, n + 1, Len(down))
          OBVIOUS
        <4>3. e \in Seq(Tokens)
          <5>1. \A a, b \in Tokens : <<a, b>> \in Seq(Tokens)
            OBVIOUS
          <5> QED
            BY <4>2, <5>1, TokensAre
        <4>4. f \in Seq(Tokens)
          <5>1. n \in 0..Len(down)
            OBVIOUS
          <5> QED
            BY <1>1, <4>2, <5>1, RestIs
        <4> QED
          BY <4>1, <4>2, <4>3, <4>4, ConcatProperties
      <3> QED
        BY <1>8, <3>1, <3>2 DEF ReadLineAborts
    <2>2. phase' \in Phases
      BY <1>8 DEF ReadLineAborts, TypeOK, Phases
    <2> QED
      BY <1>8, <2>1, <2>2 DEF ReadLineAborts, TypeOK
  <1>9. CASE NntpOpenGreeted
    <2>1. down' \in Seq(Tokens)
      BY <1>9, ReadLineStep DEF NntpOpenGreeted
    <2>2. phase' \in Phases
      BY <1>9 DEF NntpOpenGreeted, Opened, Returns, TypeOK, Phases
    <2>3. UNCHANGED <<reader, todo, posted, got, calls, external>>
      BY <1>9 DEF NntpOpenGreeted
    <2>4. /\ up' \in Seq(Tokens) /\ spoiled' \subseteq {"torn", "informed", "stuck"}
          /\ ~alive => up' = up
      <3>1. CASE UNCHANGED <<up, spoiled>>
        BY <3>1 DEF TypeOK
      <3>2. CASE SendCmd(<<"mode reader">>)
        BY <1>3, <3>2, SendCmdStep
      <3> QED
        BY <1>9, <3>1, <3>2 DEF NntpOpenGreeted, SendCmdFails
    <2> QED
      BY <2>1, <2>2, <2>3, <2>4 DEF TypeOK
  <1>10. CASE NntpOpenMode
    <2>1. down' \in Seq(Tokens)
      BY <1>10, ReadLineStep DEF NntpOpenMode
    <2>2. phase' \in Phases
      BY <1>10 DEF NntpOpenMode, Opened, Returns, TypeOK, Phases
    <2> QED
      BY <1>10, <2>1, <2>2 DEF NntpOpenMode, TypeOK
  <1>11. CASE NntpAnswered
    <2>1. down' \in Seq(Tokens)
      BY <1>11, ReadLineStep DEF NntpAnswered
    <2>2. phase' \in Phases
      BY <1>11 DEF NntpAnswered, Returns, Phases
    <2> QED
      BY <1>11, <2>1, <2>2 DEF NntpAnswered, TypeOK
  <1>12. CASE NntpTextFollows
    <2>1. down' \in Seq(Tokens)
      BY <1>12, ReadLineStep DEF NntpTextFollows
    <2>2. phase' \in Phases /\ got' \in Seq(Line)
      <3>1. phase' \in {"reading", "idle", phase}
        BY <1>12 DEF NntpTextFollows, Returns
      <3>2. got' \in {got, <<>>}
        BY <1>12 DEF NntpTextFollows
      <3>3. <<>> \in Seq(Line)
        OBVIOUS
      <3>4. phase' \in Phases
        BY <3>1 DEF TypeOK, Phases
      <3> QED
        BY <1>1, <3>2, <3>3, <3>4
    <2> QED
      BY <1>12, <2>1, <2>2 DEF NntpTextFollows, TypeOK
  <1>13. CASE NntpNextLine
    <2>1. down' \in Seq(Tokens) /\ (HasLine(down) => LineOf(down) \in Line)
      BY <1>13, ReadLineStep DEF NntpNextLine
    <2>2. phase' \in Phases
      BY <1>13 DEF NntpNextLine, Returns, TypeOK, Phases
    <2>3. got' \in Seq(Line)
      <3>1. CASE UNCHANGED got
        BY <3>1, <1>1
      <3>2. CASE HasLine(down) /\ got' = Append(got, Unstuffed(LineOf(down)))
        BY <3>2, <1>1, <2>1, UnstuffedIsLine
      <3> QED
        BY <1>13, <3>1, <3>2 DEF NntpNextLine
    <2> QED
      BY <1>13, <2>1, <2>2, <2>3 DEF NntpNextLine, TypeOK
  <1>14. CASE NntpPostAnswered
    <2>1. down' \in Seq(Tokens)
      BY <1>14, ReadLineStep DEF NntpPostAnswered
    <2>2. phase' \in Phases /\ todo' \in Seq(Seq(Tokens))
      BY <1>14, <1>2 DEF NntpPostAnswered, Returns, TypeOK, Phases
    <2> QED
      BY <1>14, <2>1, <2>2 DEF NntpPostAnswered, TypeOK
  <1>15. CASE NntpWriteNextLine
    <2>1. todo \in Seq(Seq(Tokens)) /\ todo # <<>>
      BY <1>15 DEF NntpWriteNextLine, TypeOK
    <2>2. Head(todo) \in Seq(Tokens) /\ Tail(todo) \in Seq(Seq(Tokens))
      BY <2>1, HeadTailProperties
    <2>3. Stuffed(Head(todo)) \in Seq(Tokens)
      BY <2>2, StuffedIsStream
    <2>4. /\ up' \in Seq(Tokens) /\ spoiled' \subseteq {"torn", "informed", "stuck"}
          /\ ~alive => up' = up
      <3>1. CASE SendCmd(Stuffed(Head(todo)))
        BY <2>3, <3>1, SendCmdStep
      <3>2. CASE UNCHANGED up /\ spoiled' = spoiled \cup {"stuck"}
        BY <3>2 DEF TypeOK
      <3> QED
        BY <1>15, <3>1, <3>2 DEF NntpWriteNextLine, SendCmdFails
    <2>5. phase' \in Phases /\ todo' \in Seq(Seq(Tokens))
      BY <1>15, <2>1, <2>2 DEF NntpWriteNextLine, Returns, TypeOK, Phases
    <2> QED
      BY <1>15, <2>4, <2>5 DEF NntpWriteNextLine, TypeOK
  <1>16. CASE NntpWriteEndLine
    <2>1. /\ up' \in Seq(Tokens) /\ spoiled' \subseteq {"torn", "informed", "stuck"}
          /\ ~alive => up' = up
      <3>1. CASE SendCmd(<<".">>)
        BY <1>3, <3>1, SendCmdStep
      <3>2. CASE UNCHANGED <<up, spoiled>>
        BY <3>2 DEF TypeOK
      <3> QED
        BY <1>16, <3>1, <3>2 DEF NntpWriteEndLine, SendCmdFails
    <2>2. phase' \in Phases
      BY <1>16 DEF NntpWriteEndLine, Returns, Phases
    <2> QED
      BY <1>16, <2>1, <2>2 DEF NntpWriteEndLine, TypeOK
  <1>17. CASE NntpPosted
    <2>1. down' \in Seq(Tokens)
      BY <1>17, ReadLineStep DEF NntpPosted
    <2>2. phase' \in Phases
      BY <1>17 DEF NntpPosted, Returns, Phases
    <2> QED
      BY <1>17, <2>1, <2>2 DEF NntpPosted, TypeOK
  <1>18. CASE NntpOpenFails
    BY <1>18 DEF NntpOpenFails, TypeOK
  <1>19. ASSUME NEW use \in BOOLEAN, NntpOpen(use) PROVE TypeOK'
    <2>1. down' \in Seq(Tokens)
      <3>1. PICK code \in {"200", "201", "400"} :
                down' \in {Sent(<<code>>), Sent(<<"100">>) \o Sent(<<code>>)}
        BY <1>19 DEF NntpOpen
      <3>2. code \in Codes /\ "100" \in Codes
        BY DEF Codes, Refusals
      <3>3. \A c \in Codes : Sent(<<c>>) \in Seq(Tokens)
        BY CodeIsLine, SentIs
      <3> QED
        BY <3>1, <3>2, <3>3, ConcatProperties
    <2>2. server' \in [mode : {"command", "article"}, lines : Seq(Line)]
      <3>1. <<>> \in Seq(Line)
        OBVIOUS
      <3> QED
        BY <1>19, <3>1 DEF NntpOpen
    <2>3. up' \in Seq(Tokens) /\ phase' \in Phases /\ alive' /\ alive' \in BOOLEAN
      BY <1>19 DEF NntpOpen, Phases
    <2> QED
      BY <1>19, <2>1, <2>2, <2>3 DEF NntpOpen, TypeOK
  <1>20. CASE NntpClose
    <2>1. phase' \in Phases
      BY <1>20 DEF NntpClose, Phases
    <2>2. up' = <<>> /\ down' = <<>> /\ alive' = FALSE
      BY <1>20 DEF NntpClose
    <2>3. up' \in Seq(Tokens) /\ down' \in Seq(Tokens) /\ alive' \in BOOLEAN
      <3>1. <<>> \in Seq(Tokens)
        OBVIOUS
      <3> QED
        BY <2>2, <3>1
    <2> QED
      BY <1>20, <2>1, <2>2, <2>3 DEF NntpClose, TypeOK
  <1>21. ASSUME NEW call \in Commands, Calls(call), posted' \in Articles \cup {<<>>}
         PROVE  TypeOK'
    <2>1. /\ up' \in Seq(Tokens) /\ spoiled' \subseteq {"torn", "informed", "stuck"}
          /\ ~alive => up' = up
      <3>1. CASE SendCmd(<<call>>)
        BY <1>3, <3>1, SendCmdStep
      <3>2. CASE UNCHANGED <<up, spoiled>>
        BY <3>2 DEF TypeOK
      <3> QED
        BY <1>21, <3>1, <3>2 DEF Calls, SendCmdFails
    <2>2. phase' \in Phases /\ calls' \in 0..MaxCalls
      BY <1>21, MaxCallsAssumption DEF Calls, Returns, Phases, TypeOK
    <2>3. UNCHANGED <<reader, todo, got, down, external>>
      BY <1>21 DEF Calls
    <2> QED
      BY <1>21, <2>1, <2>2, <2>3 DEF TypeOK
  <1>22. ASSUME NEW call \in Commands, NntpCommand(call) PROVE TypeOK'
    <2>1. Calls(call) /\ posted' \in Articles \cup {<<>>}
      BY <1>22 DEF NntpCommand, TypeOK
    <2> QED
      BY <1>21, <2>1
  <1>23. ASSUME NEW article \in Articles, NntpPost(article) PROVE TypeOK'
    <2>1. Calls("post") /\ posted' \in Articles \cup {<<>>} /\ "post" \in Commands
      BY <1>23 DEF NntpPost, Commands
    <2> QED
      BY <1>21, <2>1
  <1> QED
    BY <1>4, <1>5, <1>6, <1>7, <1>8, <1>9, <1>10, <1>11, <1>12, <1>13, <1>14, <1>15, <1>16,
       <1>17, <1>18, <1>19, <1>20, <1>22, <1>23
    DEF Next, ServerStep, Continues

\* Types hold in every state, for all articles, texts and numbers of calls: whatever is
\* torn, lost or closed, what the server keeps are lines without their ends.
THEOREM TypeCorrect == Spec => []TypeOK
  <1>1. Init => TypeOK
    BY TypeInit
  <1>2. TypeOK /\ [Next]_vars => TypeOK'
    BY TypeStep
  <1> QED
    BY <1>1, <1>2, PTL DEF Spec

-----------------------------------------------------------------------------
\* What is on its way, step by step.  The lemmas assume a connection that is not
\* spoiled, before the step and behind it.

LEMMA NothingSent == AllSent(<<>>) = <<>>
  <1>1. <<>> \in Seq(Line) /\ Len(<<>>) = 0
    OBVIOUS
  <1>2. PICK f : Sends(f, <<>>) /\ AllSent(<<>>) = f[Len(<<>>)]
    BY <1>1, AllSentIs
  <1> QED
    BY <1>1, <1>2 DEF Sends

\* A line of one token is read as it was sent.
LEMMA TokenRead ==
    ASSUME NEW c \in Tokens, c # "LF", c # "long"
    PROVE  /\ <<c>> \in Line /\ <<c>> \in Seq(Tokens) /\ ~TooLong(<<c>>)
           /\ HasLine(Sent(<<c>>)) /\ LineOf(Sent(<<c>>)) = <<c>> /\ After(Sent(<<c>>)) = <<>>
  <1>1. c \in Tokens \ {"LF"}
    OBVIOUS
  <1>2. <<c>> \in Seq(Tokens)
    OBVIOUS
  <1>3. <<c>> \in Seq(Tokens \ {"LF"})
    BY <1>1
  <1>4. Width(<<c>>) = 1
    BY WidthOfToken
  <1>5. ~TooLong(<<c>>)
    BY <1>4 DEF TooLong
  <1>6. PICK line : line = <<c>>
    OBVIOUS
  <1>7. line \in Line /\ line \in Seq(Tokens)
    BY <1>2, <1>3, <1>6 DEF Line
  <1>8. PICK s : s = Sent(line)
    OBVIOUS
  <1>9. s \in Seq(Tokens)
    BY <1>7, <1>8, SentIs
  <1>10. s = s \o <<>> /\ <<>> \in Seq(Tokens)
    BY <1>9, ConcatEmptySeq
  <1>11. s = Sent(line) \o <<>>
    BY <1>8, <1>10
  <1>12. HasLine(s) /\ LineOf(s) = line /\ After(s) = <<>>
    BY <1>7, <1>10, <1>11, FirstLine
  <1> QED
    BY <1>5, <1>6, <1>7, <1>8, <1>12

\* A command is read as it was sent.
LEMMA CommandRead ==
    ASSUME NEW c \in Commands \cup {"mode reader"}
    PROVE  /\ HasLine(Sent(<<c>>)) /\ LineOf(Sent(<<c>>)) = <<c>> /\ After(Sent(<<c>>)) = <<>>
           /\ ~TooLong(<<c>>)
  <1>1. c \in Tokens /\ c # "LF" /\ c # "long"
    BY TokensAre DEF Commands
  <1> QED
    BY <1>1, TokenRead

\* A text is what is sent of its lines.
LEMMA TextStream ==
    ASSUME NEW t \in Seq(Line)
    PROVE  /\ AllSent(Texted(t)) = Run(Texted(t), 0, Len(t) + 1)
           /\ AllSent(Texted(t)) \in Seq(Tokens)
  <1>1. PICK w : w = Texted(t)
    OBVIOUS
  <1>2. w \in Seq(Line) /\ Len(w) = Len(t) + 1 /\ Len(t) \in Nat
    BY <1>1, TextedIs
  <1>3. SubSeq(w, 1, Len(w)) = w
    BY <1>2, SubSeqFull
  <1>4. Run(w, 0, Len(w)) = AllSent(w)
    <2>1. 0 + 1 = 1
      OBVIOUS
    <2> QED
      BY <1>3, <2>1 DEF Run
  <1>5. Run(w, 0, Len(w)) \in Seq(Tokens)
    <2>1. Len(w) \in 0..Len(w) /\ 0 \in 0..Len(w)
      BY <1>2
    <2> QED
      BY <1>2, <2>1, RunIsStream
  <1> QED
    BY <1>1, <1>2, <1>4, <1>5

\* An answer to a client that waits for it.
LEMMA AnswerComes ==
    ASSUME TypeOK, down = <<>>, spoiled' = {}, NEW code \in Codes, NEW lines \in Seq(Line),
           Answer(code, lines)
    PROVE  down' = Sent(<<code>>) \o AllSent(lines)
  <1>1. down' = down \o Sent(<<code>>) \o AllSent(lines)
    BY AnswerStep
  <1>2. Sent(<<code>>) \in Seq(Tokens)
    BY CodeIsLine, SentIs
  <1> QED
    BY <1>1, <1>2, ConcatEmptySeq

LEMMA AnswerComesAlone ==
    ASSUME TypeOK, down = <<>>, spoiled' = {}, NEW code \in Codes, Answer(code, <<>>)
    PROVE  down' = Sent(<<code>>) /\ Comes(Sent(<<code>>))'
  <1>1. <<>> \in Seq(Line)
    OBVIOUS
  <1>2. down' = Sent(<<code>>) \o <<>>
    BY <1>1, AnswerComes, NothingSent
  <1>3. PICK s : s = Sent(<<code>>)
    OBVIOUS
  <1>4. s \in Seq(Tokens)
    BY <1>3, CodeIsLine, SentIs
  <1>5. down' = s
    BY <1>2, <1>3, <1>4, ConcatEmptySeq
  <1>6. Begins(s, s)
    BY <1>4, BeginsItself
  <1> QED
    BY <1>3, <1>5, <1>6 DEF Comes

\* The server only reads a command when a call has sent it.
LEMMA CommandsAreAsked ==
    ASSUME TypeOK, InPhase, ServerReadsCommand, phase # "closed"
    PROVE  /\ phase \in {"mode", "group", "next", "post", "article", "newnews"}
           /\ \E command \in Commands \cup {"mode reader"} :
                 /\ command = IF phase = "mode" THEN "mode reader" ELSE phase
                 /\ Asked(command) /\ ServerObeys(command)
                 /\ up' = <<>> /\ alive' /\ UNCHANGED <<client, spool>>
  <1>1. /\ alive /\ server.mode = "command" /\ HasLine(up) /\ up' = After(up)
        /\ ServerObeys(IF Len(LineOf(up)) = 1 THEN LineOf(up)[1] ELSE "?")
        /\ UNCHANGED <<client, alive, spool>>
    BY DEF ServerReadsCommand
  <1>2. up # <<>>
    BY <1>1, NothingIsThere
  <1>3. ~Quiet /\ "command" # "article" /\ ~Invited
    BY <1>2 DEF Quiet, Invited
  <1>4. \A codes : ~Answered(codes)
    BY <1>3 DEF Answered
  <1>5. \A code : ~AnsweredText(code)
    BY <1>3 DEF AnsweredText
  <1>6. (\A m : ~Posting(m)) /\ (\A k : ~Reading(k))
    BY <1>1, <1>3 DEF Posting, Reading
  <1>7. phase \in Phases
    BY DEF TypeOK
  <1>8. /\ phase \in {"mode", "group", "next", "post", "article", "newnews"}
        /\ Asked(IF phase = "mode" THEN "mode reader" ELSE phase)
    BY <1>3, <1>4, <1>5, <1>6, <1>7 DEF InPhase, Phases, Commands
  <1>9. PICK command \in Commands \cup {"mode reader"} :
            command = IF phase = "mode" THEN "mode reader" ELSE phase
    BY <1>8 DEF Commands
  <1>10. up = Sent(<<command>>)
    BY <1>8, <1>9 DEF Asked
  <1>11. LineOf(up) = <<command>> /\ After(up) = <<>>
    BY <1>10, CommandRead
  <1>12. Len(<<command>>) = 1 /\ <<command>>[1] = command
    OBVIOUS
  <1>13. ServerObeys(command) /\ up' = <<>>
    BY <1>1, <1>11, <1>12
  <1> QED
    BY <1>1, <1>8, <1>9, <1>13

LEMMA ServerReadsCommandStep ==
    ASSUME TypeOK, InPhase, TypeOK', spoiled' = {}, ServerReadsCommand
    PROVE  InPhase'
  <1>1. CASE phase = "closed"
    <2>1. phase' = "closed"
      BY <1>1 DEF ServerReadsCommand, client
    <2> QED
      BY <2>1 DEF InPhase
  <1>2. CASE phase # "closed"
    <2>1. phase \in {"mode", "group", "next", "post", "article", "newnews"}
      BY <1>2, CommandsAreAsked
    <2>2. PICK command \in Commands \cup {"mode reader"} :
              /\ command = IF phase = "mode" THEN "mode reader" ELSE phase
              /\ Asked(command) /\ ServerObeys(command)
              /\ up' = <<>> /\ alive' /\ UNCHANGED <<client, spool>>
      BY <1>2, CommandsAreAsked
    <2>3. phase' = phase /\ down = <<>> /\ server.mode = "command"
      BY <2>2 DEF Asked, client
    <2>4. {"200", "201", "211", "220", "223", "230", "340", "421", "400", "500"} \subseteq Codes
      BY DEF Codes, Refusals
    <2>5. ASSUME NEW codes, NEW code \in codes, codes \subseteq Codes, Answer(code, <<>>),
                 UNCHANGED server
          PROVE  Answered(codes)'
      <3>1. Comes(Sent(<<code>>))'
        BY <2>3, <2>5, AnswerComesAlone
      <3>2. Quiet'
        BY <2>2, <2>3, <2>5 DEF Quiet
      <3> QED
        BY <2>5, <3>1, <3>2 DEF Answered
    <2>6. ASSUME NEW code \in {"220", "230"}, Answer(code, Texted(text')), UNCHANGED server
          PROVE  AnsweredText(code)'
      <3>1. text' \in Seq(Line) /\ code \in Codes
        BY <2>4 DEF TypeOK
      <3>2. PICK a, b : a = Sent(<<code>>) /\ b = AllSent(Texted(text'))
        OBVIOUS
      <3>3. a \in Seq(Tokens) /\ b \in Seq(Tokens)
        BY <3>1, <3>2, CodeIsLine, SentIs, TextStream
      <3>4. down' = a \o b
        <4>1. Texted(text') \in Seq(Line)
          BY <3>1, TextedIs
        <4> QED
          BY <2>3, <2>6, <3>1, <3>2, <4>1, AnswerComes
      <3>5. Begins(a \o b, a \o b)
        BY <3>3, ConcatProperties, BeginsItself
      <3>6. Comes(a \o b)'
        BY <3>4, <3>5 DEF Comes
      <3>7. Quiet'
        BY <2>2, <2>3, <2>6 DEF Quiet
      <3> QED
        BY <3>2, <3>6, <3>7 DEF AnsweredText
    <2>7. CASE \E code \in {"400", "500"} : Answer(code, <<>>) /\ UNCHANGED <<server, text>>
      <3>1. PICK code \in {"400", "500"} : Answer(code, <<>>) /\ UNCHANGED server
        BY <2>7
      <3>2. Answered({"400", "500"})' /\ Answered(Codes)'
        BY <2>4, <2>5, <3>1
      <3> QED
        BY <2>1, <2>3, <3>2 DEF InPhase
    <2>8. CASE /\ command = "mode reader"
               /\ \E code \in {"200", "201"} : Answer(code, <<>>)
               /\ UNCHANGED <<server, text>>
      <3>1. PICK code \in {"200", "201"} : Answer(code, <<>>) /\ UNCHANGED server
        BY <2>8
      <3>2. Answered(Codes)'
        BY <2>4, <2>5, <3>1
      <3>3. phase' = "mode"
        BY <2>1, <2>2, <2>3, <2>8
      <3> QED
        BY <3>2, <3>3 DEF InPhase
    <2>9. CASE /\ command = "post" /\ Answer("340", <<>>)
               /\ server' = [mode |-> "article", lines |-> <<>>]
               /\ UNCHANGED text
      <3>1. phase' = "post"
        BY <2>1, <2>2, <2>3, <2>9
      <3>2. Comes(Sent(<<"340">>))'
        BY <2>3, <2>4, <2>9, AnswerComesAlone
      <3>3. Invited'
        BY <2>2, <2>9, <3>2 DEF Invited
      <3> QED
        BY <3>1, <3>3 DEF InPhase
    <2>10. CASE command = "group" /\ Answer("211", <<>>) /\ UNCHANGED <<server, text>>
      <3>1. Answered(Codes)'
        BY <2>4, <2>5, <2>10
      <3>2. phase' = "group"
        BY <2>1, <2>2, <2>3, <2>10
      <3> QED
        BY <3>1, <3>2 DEF InPhase
    <2>11. CASE /\ command = "next"
                /\ \E code \in {"223", "421"} : Answer(code, <<>>)
                /\ UNCHANGED <<server, text>>
      <3>1. PICK code \in {"223", "421"} : Answer(code, <<>>) /\ UNCHANGED server
        BY <2>11
      <3>2. Answered(Codes)'
        BY <2>4, <2>5, <3>1
      <3>3. phase' = "next"
        BY <2>1, <2>2, <2>3, <2>11
      <3> QED
        BY <3>2, <3>3 DEF InPhase
    <2>12. CASE /\ command = "article" /\ Answer("220", Texted(spool)) /\ text' = spool
                /\ UNCHANGED server
      <3>1. AnsweredText("220")'
        BY <2>6, <2>12
      <3>2. phase' = "article"
        BY <2>1, <2>2, <2>3, <2>12
      <3> QED
        BY <3>1, <3>2 DEF InPhase
    <2>13. CASE /\ command = "newnews" /\ text' \in {<<>>, <<<<"x">>>>}
                /\ Answer("230", Texted(text')) /\ UNCHANGED server
      <3>1. AnsweredText("230")'
        BY <2>6, <2>13
      <3>2. phase' = "newnews"
        BY <2>1, <2>2, <2>3, <2>13
      <3> QED
        BY <3>1, <3>2 DEF InPhase
    <2> QED
      BY <2>2, <2>7, <2>8, <2>9, <2>10, <2>11, <2>12, <2>13 DEF ServerObeys
  <1> QED
    BY <1>1, <1>2

\* The server only reads a line while the client posts an article, and reads the next
\* one then.
LEMMA LinesArePosted ==
    ASSUME TypeOK, InPhase, phase # "closed", alive, server.mode = "article", up # <<>>
    PROVE  \/ phase = "posting" /\ \E m \in 0..Len(posted) :
                 todo = SubSeq(posted, m + 1, Len(posted)) /\ Posting(m)
           \/ phase = "end" /\ Posting(Len(posted) + 1)
  <1>1. "command" # "article"
    OBVIOUS
  <1>2. ~Quiet /\ ~Invited /\ \A command : ~Asked(command)
    BY <1>1 DEF Quiet, Invited, Asked
  <1>3. (\A codes : ~Answered(codes)) /\ (\A code : ~AnsweredText(code)) /\ \A k : ~Reading(k)
    BY <1>2 DEF Answered, AnsweredText, Reading
  <1>4. phase \in Phases
    BY DEF TypeOK
  <1> QED
    BY <1>2, <1>3, <1>4 DEF InPhase, Phases, Commands

\* A line that the server reads while m lines have been written.
LEMMA ServerReadsLineOf ==
    ASSUME TypeOK, alive, NEW m \in 0..Len(posted) + 1, Posting(m), HasLine(up),
           up' = After(up), posted' = posted
    PROVE  /\ LineOf(up) = <<".">> =>
                 m = Len(posted) + 1 /\ up' = <<>> /\ server.lines = Whole(posted)
           /\ /\ LineOf(up) # <<".">> /\ UNCHANGED down
              /\ server' = [server EXCEPT
                     !.lines = Append(server.lines, Unstuffed(LineOf(up)))]
              => Posting(m)'
  <1>1. posted \in Articles \cup {<<>>}
    BY DEF TypeOK
  <1>2. Len(posted) \in Nat /\ m \in Nat
    BY <1>1, ArticlesAre
  <1>3. PICK k \in 0..Len(posted) :
            k <= m /\ up = Run(Written(posted), k, m) /\ server.lines = SubSeq(Whole(posted), 1, k)
    BY DEF Posting
  <1>4. PICK w : w = Written(posted)
    OBVIOUS
  <1>5. /\ w \in Seq(Line) /\ Len(w) = Len(posted) + 1
        /\ \A i \in 1..Len(posted) : w[i] = Stuffed(posted[i])
        /\ w[Len(posted) + 1] = <<".">>
    BY <1>1, <1>4, WrittenIs
  <1>6. k # m
    <2>1. SUFFICES ASSUME k = m PROVE FALSE
      OBVIOUS
    <2>2. m \in 0..Len(w) /\ k \in 0..m
      BY <1>2, <1>5, <2>1
    <2>3. up = <<>>
      BY <1>3, <1>4, <1>5, <2>1, <2>2, RunIsStream
    <2> QED
      BY <2>3, NothingIsThere
  <1>7. m \in 1..Len(w) /\ k \in 0..m - 1 /\ k + 1 \in 0..m /\ m \in 0..Len(w)
    BY <1>2, <1>3, <1>5, <1>6
  <1>8. up = Sent(w[k + 1]) \o Run(w, k + 1, m)
    BY <1>3, <1>4, <1>5, <1>7, RunFirst
  <1>9. Run(w, k + 1, m) \in Seq(Tokens) /\ (k + 1 = m => Run(w, k + 1, m) = <<>>)
    BY <1>5, <1>7, RunIsStream
  <1>10. w[k + 1] \in Line
    <2>1. k + 1 \in 1..Len(w)
      BY <1>7
    <2> QED
      BY <1>5, <2>1
  <1>11. LineOf(up) = w[k + 1] /\ up' = Run(w, k + 1, m)
    <2>1. PICK line, s : line = w[k + 1] /\ s = Run(w, k + 1, m)
      OBVIOUS
    <2>2. line \in Line /\ s \in Seq(Tokens)
      BY <1>9, <1>10, <2>1
    <2>3. up = Sent(line) \o s
      BY <1>8, <2>1
    <2>4. LineOf(up) = line /\ After(up) = s
      BY <2>2, <2>3, FirstLine
    <2> QED
      BY <2>1, <2>4
  <1>12. CASE k = Len(posted)
    <2>1. m = Len(posted) + 1 /\ k + 1 = m
      BY <1>2, <1>3, <1>6, <1>12
    <2>2. LineOf(up) = <<".">>
      BY <1>5, <1>11, <1>12
    <2>3. up' = <<>>
      BY <1>9, <1>11, <2>1
    <2>4. server.lines = Whole(posted)
      <3>1. Whole(posted) \in Seq(Line) /\ Len(Whole(posted)) = Len(posted)
        BY <1>1, WholeIs
      <3>2. SubSeq(Whole(posted), 1, Len(Whole(posted))) = Whole(posted)
        BY <3>1, SubSeqFull
      <3> QED
        BY <1>3, <1>12, <3>1, <3>2
    <2> QED
      BY <2>1, <2>2, <2>3, <2>4
  <1>13. CASE k # Len(posted)
    <2>1. PICK j : j = k + 1
      OBVIOUS
    <2>2. j \in 1..Len(posted) /\ j \in 0..Len(posted) /\ j <= m /\ k = j - 1
      BY <1>2, <1>7, <1>13, <2>1
    <2>3. w[j] = Stuffed(posted[j]) /\ OneLine(posted[j])
      BY <1>1, <1>5, <2>2, ArticlesAre
    <2>4. LineOf(up) # <<".">> /\ Unstuffed(LineOf(up)) = Bare(posted[j])
      BY <1>11, <2>1, <2>3, WrittenLine
    <2>5. Append(server.lines, Bare(posted[j])) = SubSeq(Whole(posted), 1, j)
      <3>1. PICK z : z = Whole(posted)
        OBVIOUS
      <3>2. /\ z \in Seq(Line) /\ Len(z) = Len(posted) /\ z[j] = Bare(posted[j])
        BY <1>1, <2>2, <3>1, WholeIs
      <3>3. Append(SubSeq(z, 1, j - 1), z[j]) = SubSeq(z, 1, j)
        BY <2>2, <3>2, PrefixAppend
      <3> QED
        BY <1>3, <2>2, <3>1, <3>2, <3>3
    <2>6. /\ UNCHANGED down
          /\ server' = [server EXCEPT !.lines = Append(server.lines, Unstuffed(LineOf(up)))]
          => Posting(m)'
      <3> SUFFICES ASSUME UNCHANGED down,
                          server' = [server EXCEPT
                              !.lines = Append(server.lines, Unstuffed(LineOf(up)))]
                   PROVE  Posting(m)'
        OBVIOUS
      <3>1. server \in [mode : {"command", "article"}, lines : Seq(Line)]
        BY DEF TypeOK
      <3>2. server'.mode = server.mode /\ server'.lines = SubSeq(Whole(posted), 1, j)
        BY <2>4, <2>5, <3>1
      <3>3. server.mode = "article" /\ down' = <<>> /\ posted' = posted
        BY DEF Posting
      <3>4. up' = Run(Written(posted), j, m)
        BY <1>4, <1>11, <2>1
      <3> QED
        BY <2>2, <3>2, <3>3, <3>4 DEF Posting
    <2> QED
      BY <2>4, <2>6
  <1> QED
    BY <1>12, <1>13

LEMMA ServerReadsLineStep ==
    ASSUME TypeOK, InPhase, TypeOK', spoiled' = {}, ServerReadsLine
    PROVE  InPhase'
  <1>1. /\ alive /\ server.mode = "article" /\ HasLine(up) /\ up' = After(up)
        /\ UNCHANGED <<client, alive, text>>
    BY DEF ServerReadsLine
  <1>2. phase' = phase /\ posted' = posted /\ todo' = todo
    BY <1>1 DEF client
  <1>3. up # <<>>
    BY <1>1, NothingIsThere
  <1>4. CASE phase = "closed"
    BY <1>2, <1>4 DEF InPhase
  <1>5. CASE phase = "posting" \/ phase = "end"
    <2>1. Len(posted) \in Nat
      BY ArticlesAre DEF TypeOK
    <2>2. PICK m \in 0..Len(posted) + 1 :
              /\ Posting(m)
              /\ phase = "posting" => /\ m \in 0..Len(posted)
                                      /\ todo = SubSeq(posted, m + 1, Len(posted))
              /\ phase = "end" => m = Len(posted) + 1
      <3>1. phase # "closed" /\ Len(posted) + 1 \in 0..Len(posted) + 1
        BY <1>5, <2>1
      <3>2. \A m \in 0..Len(posted) : m \in 0..Len(posted) + 1
        BY <2>1
      <3> QED
        BY <1>1, <1>3, <1>5, <3>1, <3>2, LinesArePosted
    <2>3. down = <<>>
      BY <2>2 DEF Posting
    <2>4. CASE LineOf(up) = <<".">>
      <3>1. server' = [mode |-> "command", lines |-> <<>>]
        BY <2>4 DEF ServerReadsLine
      <3>2. PICK code \in {"240", "441"} :
                Answer(code, <<>>) /\ (code = "240" => spool' = server.lines)
        BY <2>4 DEF ServerReadsLine
      <3>3. code \in Codes
        BY DEF Codes, Refusals
      <3>4. /\ phase = "end" /\ up' = <<>> /\ (code = "240" => spool' = Whole(posted))
        <4>2. m = Len(posted) + 1 /\ up' = <<>> /\ server.lines = Whole(posted)
          BY <1>1, <1>2, <2>2, <2>4, ServerReadsLineOf
        <4>3. ~(m \in 0..Len(posted))
          BY <2>1, <4>2
        <4> QED
          BY <1>5, <2>2, <3>2, <4>2, <4>3
      <3>5. Comes(Sent(<<code>>))'
        BY <2>3, <3>2, <3>3, AnswerComesAlone
      <3>6. Quiet'
        BY <3>1, <3>4 DEF Quiet
      <3>7. Answered({code})'
        BY <3>5, <3>6 DEF Answered
      <3> QED
        BY <1>2, <3>2, <3>4, <3>7 DEF InPhase
    <2>5. CASE LineOf(up) # <<".">>
      <3>1. /\ server' = [server EXCEPT !.lines = Append(server.lines, Unstuffed(LineOf(up)))]
            /\ UNCHANGED <<down, spool, spoiled>>
        BY <2>5 DEF ServerReadsLine
      <3>2. Posting(m)'
        BY <1>1, <1>2, <2>2, <2>5, <3>1, ServerReadsLineOf
      <3>3. phase = "posting" => phase' = "posting" /\ m \in 0..Len(posted')
                                  /\ todo' = SubSeq(posted', m + 1, Len(posted'))
        BY <1>2, <2>2
      <3>4. phase = "end" => phase' = "end" /\ Posting(Len(posted) + 1)'
        <4>1. phase = "end" => m = (Len(posted) + 1)'
          BY <1>2, <2>2
        <4> QED
          BY <1>2, <3>2, <4>1
      <3> QED
        BY <1>5, <3>2, <3>3, <3>4 DEF InPhase
    <2> QED
      BY <2>4, <2>5
  <1> QED
    BY <1>1, <1>3, <1>4, <1>5, LinesArePosted

\* The server may close the connection in every phase.
LEMMA ServerClosesStep ==
    ASSUME TypeOK, InPhase, TypeOK', ServerCloses
    PROVE  InPhase'
  <1>1. PICK n \in 0..Len(down) : down' = SubSeq(down, 1, n)
    BY DEF ServerCloses
  <1>2. /\ alive' = FALSE /\ up' = <<>>
        /\ phase' = phase /\ posted' = posted /\ todo' = todo /\ got' = got /\ ret' = ret
        /\ server' = server /\ spool' = spool /\ text' = text
    BY DEF ServerCloses, client
  <1>3. Quiet'
    BY <1>2 DEF Quiet
  <1>4. down = <<>> => down' = <<>>
    BY <1>1, SubSeqEmpty
  <1>5. ASSUME NEW s \in Seq(Tokens), Comes(s)
        PROVE  Begins(down', s)
    BY <1>1, <1>5, BeginsCut DEF Comes
  <1>6. ASSUME NEW code \in Codes
        PROVE  Sent(<<code>>) \in Seq(Tokens) /\ Begins(<<>>, Sent(<<code>>))
    BY CodeIsLine, SentIs, BeginsItself
  <1>7. {"100", "240", "340", "400", "441", "500"} \subseteq Codes
    BY DEF Codes, Refusals
  <1>8. ASSUME NEW codes, codes \subseteq Codes, Answered(codes)
        PROVE  Answered(codes)'
    <2>1. PICK code \in codes : Comes(Sent(<<code>>))
      BY <1>8 DEF Answered
    <2>2. code \in Codes
      BY <1>8
    <2>3. Sent(<<code>>) \in Seq(Tokens)
      BY <1>6, <2>2
    <2>4. Begins(down', Sent(<<code>>))
      BY <1>5, <2>1, <2>3
    <2>5. Comes(Sent(<<code>>))'
      BY <1>2, <2>4 DEF Comes
    <2> QED
      BY <1>3, <2>5 DEF Answered
  <1>9. ASSUME NEW codes, NEW code \in codes, codes \subseteq Codes, down = <<>>
        PROVE  Answered(codes)'
    <2>1. Begins(down', Sent(<<code>>))
      <3>1. code \in Codes
        BY <1>9
      <3> QED
        BY <1>4, <1>6, <1>9, <3>1
    <2>2. Comes(Sent(<<code>>))'
      BY <1>2, <2>1 DEF Comes
    <2> QED
      BY <1>3, <1>9, <2>2 DEF Answered
  <1>10. ASSUME NEW command, Asked(command)
         PROVE  Answered(Codes)' /\ Answered({"400", "500"})'
    <2>1. down = <<>>
      BY <1>10 DEF Asked
    <2>2. {"400", "500"} \subseteq Codes /\ "400" \in Codes /\ "400" \in {"400", "500"}
      BY <1>7
    <2> QED
      BY <1>9, <2>1, <2>2
  <1>11. ASSUME NEW code \in Codes, AnsweredText(code)
         PROVE  AnsweredText(code)'
    <2>1. PICK a, b : a = Sent(<<code>>) /\ b = AllSent(Texted(text))
      OBVIOUS
    <2>2. a \o b \in Seq(Tokens)
      <3>1. a \in Seq(Tokens) /\ b \in Seq(Tokens)
        <4>1. text \in Seq(Line)
          BY DEF TypeOK
        <4> QED
          BY <1>6, <2>1, <4>1, TextStream
      <3> QED
        BY <3>1, ConcatProperties
    <2>3. Comes(a \o b)
      BY <1>11, <2>1 DEF AnsweredText
    <2>4. Begins(down', a \o b)
      BY <1>5, <2>2, <2>3
    <2>5. Begins(down', Sent(<<code>>) \o AllSent(Texted(text')))
      BY <1>2, <2>1, <2>4
    <2> QED
      BY <1>2, <1>3, <2>5 DEF AnsweredText, Comes
  <1>12. phase \in Phases
    BY DEF TypeOK
  <1>13. CASE phase = "greeting"
    <2>1. down' = <<>> \/ \E code \in Codes :
                \/ Comes(Sent(<<code>>))'
                \/ Comes(Sent(<<"100">>) \o Sent(<<code>>))'
      <3>1. CASE down = <<>>
        BY <1>4, <3>1
      <3>2. ASSUME NEW code \in Codes, Comes(Sent(<<code>>)) PROVE Comes(Sent(<<code>>))'
        <4>1. Begins(down', Sent(<<code>>))
          BY <1>5, <1>6, <3>2
        <4> QED
          BY <1>2, <4>1 DEF Comes
      <3>3. ASSUME NEW code \in Codes, Comes(Sent(<<"100">>) \o Sent(<<code>>))
            PROVE  Comes(Sent(<<"100">>) \o Sent(<<code>>))'
        <4>1. PICK a, b : a = Sent(<<"100">>) /\ b = Sent(<<code>>)
          OBVIOUS
        <4>2. a \in Seq(Tokens) /\ b \in Seq(Tokens)
          BY <1>6, <1>7, <4>1
        <4>3. a \o b \in Seq(Tokens) /\ Comes(a \o b)
          BY <3>3, <4>1, <4>2, ConcatProperties
        <4>4. Begins(down', a \o b)
          BY <1>5, <4>3
        <4> QED
          BY <1>2, <4>1, <4>4 DEF Comes
      <3> QED
        BY <1>13, <3>1, <3>2, <3>3 DEF InPhase
    <2> QED
      BY <1>2, <1>3, <1>13, <2>1 DEF InPhase
  <1>14. CASE phase \in {"mode", "group", "next"}
    <2>1. Answered(Codes) => Answered(Codes)'
      BY <1>8
    <2> QED
      BY <1>2, <1>3, <1>4, <1>10, <1>14, <2>1 DEF InPhase
  <1>15. CASE phase = "post"
    <2>1. Answered({"400", "500"}) => Answered({"400", "500"})'
      BY <1>7, <1>8
    <2>2. Invited => Invited'
      <3> SUFFICES ASSUME Invited PROVE Invited'
        OBVIOUS
      <3>1. Comes(Sent(<<"340">>)) /\ "340" \in Codes
        BY <1>7 DEF Invited
      <3>2. Begins(down', Sent(<<"340">>))
        BY <1>5, <1>6, <3>1
      <3> QED
        BY <1>2, <3>2 DEF Invited, Comes
    <2> QED
      BY <1>2, <1>10, <1>15, <2>1, <2>2 DEF InPhase
  <1>16. CASE phase \in {"article", "newnews"}
    <2>1. Answered({"400", "500"}) => Answered({"400", "500"})'
      BY <1>7, <1>8
    <2>2. \A code \in {"220", "230"} : AnsweredText(code) => AnsweredText(code)'
      <3>1. {"220", "230"} \subseteq Codes
        BY DEF Codes
      <3> QED
        BY <1>11, <3>1
    <2> QED
      BY <1>2, <1>10, <1>16, <2>1, <2>2 DEF InPhase
  <1>17. CASE phase \in {"posting", "end"}
    <2>1. \A m : Posting(m) => Posting(m)'
      BY <1>2, <1>4 DEF Posting
    <2>2. Answered({"441"}) => Answered({"441"})'
      BY <1>7, <1>8
    <2>3. Answered({"240"}) => Answered({"240"})'
      BY <1>7, <1>8
    <2>4. Posting(Len(posted) + 1) => Posting(Len(posted) + 1)'
      BY <1>2, <2>1
    <2>5. CASE phase = "posting"
      <3>1. PICK m \in 0..Len(posted) :
                todo = SubSeq(posted, m + 1, Len(posted)) /\ Posting(m)
        BY <2>5 DEF InPhase
      <3>2. Posting(m)'
        BY <2>1, <3>1
      <3>3. m \in 0..Len(posted') /\ todo' = SubSeq(posted', m + 1, Len(posted'))
        BY <1>2, <3>1
      <3> QED
        BY <1>2, <2>5, <3>2, <3>3 DEF InPhase
    <2>6. CASE phase = "end"
      BY <1>2, <2>2, <2>3, <2>4, <2>6 DEF InPhase
    <2> QED
      BY <1>17, <2>5, <2>6
  <1>18. CASE phase = "reading"
    <2>1. PICK k \in 0..Len(text) : Reading(k)
      BY <1>18 DEF InPhase
    <2>2. text \in Seq(Line)
      BY DEF TypeOK
    <2>3. PICK s : s = Run(Texted(text), k, Len(text) + 1)
      OBVIOUS
    <2>4. s \in Seq(Tokens)
      <3>1. Texted(text) \in Seq(Line) /\ Len(Texted(text)) = Len(text) + 1
        BY <2>2, TextedIs
      <3>2. Len(text) + 1 \in 0..Len(Texted(text)) /\ k \in 0..Len(text) + 1
        BY <2>2, <3>1
      <3> QED
        BY <2>3, <3>1, <3>2, RunIsStream
    <2>5. Begins(down', s)
      BY <1>5, <2>1, <2>3, <2>4 DEF Reading
    <2>6. Reading(k)'
      BY <1>2, <1>3, <2>1, <2>3, <2>5 DEF Reading, Comes
    <2> QED
      BY <1>2, <1>18, <2>1, <2>6 DEF InPhase
  <1>19. CASE phase \in {"idle", "aborted"}
    BY <1>2, <1>3, <1>4, <1>19 DEF InPhase
  <1>20. CASE phase = "closed"
    BY <1>2, <1>20 DEF InPhase
  <1> QED
    BY <1>12, <1>13, <1>14, <1>15, <1>16, <1>17, <1>18, <1>19, <1>20 DEF Phases, Commands

-----------------------------------------------------------------------------
\* Reading what has come.

\* A response is there, or the server has closed the connection.
LEMMA AnsweredRead ==
    ASSUME NEW codes, codes \subseteq Codes, Answered(codes)
    PROVE  /\ ~TooWide(down)
           /\ HasLine(down) => Response \in codes /\ After(down) = <<>>
           /\ ~HasLine(down) => Response = "-1"
           /\ Quiet
  <1>1. PICK code \in codes : Begins(down, Sent(<<code>>))
    BY DEF Answered, Comes
  <1>2. code \in Codes
    OBVIOUS
  <1>3. /\ HasLine(down) => Code(LineOf(down)) = code /\ After(down) = <<>>
        /\ ~TooWide(down)
    BY <1>1, <1>2, ReadCodeAlone
  <1> QED
    BY <1>3 DEF Response, Answered

\* So it is when a text follows.
LEMMA AnsweredTextRead ==
    ASSUME TypeOK, NEW code \in Codes, AnsweredText(code)
    PROVE  /\ ~TooWide(down)
           /\ HasLine(down) => /\ Response = code
                               /\ Begins(After(down), AllSent(Texted(text)))
                               /\ alive => After(down) = AllSent(Texted(text))
           /\ ~HasLine(down) => Response = "-1"
           /\ Quiet
  <1>1. PICK s : s = AllSent(Texted(text))
    OBVIOUS
  <1>2. s \in Seq(Tokens)
    BY <1>1, TextStream DEF TypeOK
  <1>3. Begins(down, Sent(<<code>>) \o s) /\ (alive => down = Sent(<<code>>) \o s)
    BY <1>1 DEF AnsweredText, Comes
  <1>4. /\ HasLine(down) => Code(LineOf(down)) = code /\ Begins(After(down), s)
        /\ down = Sent(<<code>>) \o s => After(down) = s
        /\ ~TooWide(down)
    BY <1>2, <1>3, ReadCode
  <1> QED
    BY <1>1, <1>3, <1>4 DEF Response, AnsweredText

\* Nothing is there to be read before the server has read the command.
LEMMA AskedRead ==
    ASSUME NEW command, Asked(command)
    PROVE  alive /\ ~HasLine(down) /\ ~TooWide(down)
  BY NothingIsThere DEF Asked

\* Reading a text: lines with another dot, and one of a single dot behind them.
LEMMA TextRead ==
    ASSUME TypeOK, NEW k \in 0..Len(text), Reading(k)
    PROVE  /\ HasLine(down) =>
                 IF k = Len(text) THEN LineOf(down) = <<".">> /\ After(down) = <<>>
                 ELSE /\ LineOf(down) # <<".">> /\ Unstuffed(LineOf(down)) = text[k + 1]
                      /\ Begins(After(down), Run(Texted(text), k + 1, Len(text) + 1))
                      /\ alive => After(down) = Run(Texted(text), k + 1, Len(text) + 1)
           /\ TooWide(down) => k # Len(text) /\ TooLong(Dotted(text[k + 1]))
  <1>1. text \in Seq(Line) /\ Len(text) \in Nat
    BY DEF TypeOK
  <1>2. PICK w : w = Texted(text)
    OBVIOUS
  <1>3. PICK n : n = Len(text) + 1
    OBVIOUS
  <1>4. /\ w \in Seq(Line) /\ Len(w) = n
        /\ \A i \in 1..Len(text) : w[i] = Dotted(text[i])
        /\ w[n] = <<".">>
    BY <1>1, <1>2, <1>3, TextedIs
  <1>5. PICK j : j = k + 1
    OBVIOUS
  <1>6. n \in 1..Len(w) /\ k \in 0..n - 1 /\ j \in 0..n /\ n \in 0..Len(w) /\ j \in 1..Len(w)
    BY <1>1, <1>3, <1>4, <1>5
  <1>7. Run(w, k, n) = Sent(w[j]) \o Run(w, j, n)
    BY <1>4, <1>5, <1>6, RunFirst
  <1>8. PICK s : s = Run(w, j, n)
    OBVIOUS
  <1>9. s \in Seq(Tokens) /\ (j = n => s = <<>>)
    BY <1>4, <1>6, <1>8, RunIsStream
  <1>10. w[j] \in Line
    BY <1>4, <1>6
  <1>11. PICK line : line = w[j]
    OBVIOUS
  <1>12. line \in Line
    BY <1>10, <1>11
  <1>13. Begins(down, Sent(line) \o s) /\ (alive => down = Sent(line) \o s)
    BY <1>2, <1>3, <1>7, <1>8, <1>11 DEF Reading, Comes
  <1>14. /\ HasLine(down) => LineOf(down) = line /\ Begins(After(down), s)
         /\ down = Sent(line) \o s => After(down) = s
         /\ TooWide(down) => TooLong(line)
    BY <1>9, <1>12, <1>13, ReadFirst
  <1>15. CASE k = Len(text)
    <2>1. j = n /\ line = <<".">> /\ s = <<>>
      BY <1>3, <1>4, <1>5, <1>9, <1>11, <1>15
    <2>2. ~TooLong(<<".">>)
      <3>1. "." \in Tokens /\ "." # "LF" /\ "." # "long"
        BY TokensAre
      <3> QED
        BY <3>1, TokenRead
    <2>3. HasLine(down) => After(down) = <<>>
      BY <1>14, <2>1, BeginsNothing
    <2> QED
      BY <1>14, <1>15, <2>1, <2>2, <2>3
  <1>16. CASE k # Len(text)
    <2>1. j \in 1..Len(text)
      BY <1>1, <1>5, <1>16
    <2>2. line = Dotted(text[j]) /\ text[j] \in Line
      BY <1>1, <1>4, <1>11, <2>1
    <2>3. line # <<".">> /\ Unstuffed(line) = text[j]
      BY <2>2, TextLine
    <2>4. s = Run(Texted(text), k + 1, Len(text) + 1) /\ j = k + 1
      BY <1>2, <1>3, <1>5, <1>8
    <2> QED
      BY <1>13, <1>14, <1>16, <2>2, <2>3, <2>4
  <1> QED
    BY <1>15, <1>16

\* Only a text has lines that are too wide.
LEMMA ReadLineAbortsStep ==
    ASSUME TypeOK, InPhase, TypeOK', ReadLineAborts
    PROVE  InPhase'
  <1>1. Waits /\ TooWide(down) /\ phase \in Phases
    BY DEF ReadLineAborts, TypeOK
  <1>2. \A command : ~Asked(command)
    BY <1>1, AskedRead
  <1>3. down # <<>>
    BY <1>1, NothingIsThere
  <1>4. ASSUME NEW codes, codes \subseteq Codes PROVE ~Answered(codes)
    BY <1>1, <1>4, AnsweredRead
  <1>5. \A code \in {"220", "230"} : ~AnsweredText(code)
    <2>1. {"220", "230"} \subseteq Codes
      BY DEF Codes
    <2> QED
      BY <1>1, <2>1, AnsweredTextRead
  <1>6. {"400", "500"} \subseteq Codes /\ {"441"} \subseteq Codes /\ {"240"} \subseteq Codes
        /\ "100" \in Codes /\ "340" \in Codes
    BY DEF Codes, Refusals
  <1>7. \A code \in Codes : ~Comes(Sent(<<code>>))
    BY <1>1, ReadCodeAlone DEF Comes
  <1>8. \A code \in Codes : ~Comes(Sent(<<"100">>) \o Sent(<<code>>))
    <2> SUFFICES ASSUME NEW code \in Codes, Begins(down, Sent(<<"100">>) \o Sent(<<code>>))
                 PROVE  FALSE
      BY DEF Comes
    <2>1. PICK s : s = Sent(<<code>>)
      OBVIOUS
    <2>2. s \in Seq(Tokens)
      BY <2>1, CodeIsLine, SentIs
    <2>3. Begins(down, Sent(<<"100">>) \o s)
      BY <2>1
    <2>4. ~TooWide(down)
      BY <1>6, <2>2, <2>3, ReadCode
    <2> QED
      BY <1>1, <2>4
  <1>9. \A m : ~Posting(m)
    BY <1>3 DEF Posting
  <1>10. ~Invited
    BY <1>6, <1>7 DEF Invited
  <1>11. phase = "reading"
    <2>1. ~Answered(Codes) /\ ~Answered({"400", "500"}) /\ ~Answered({"441"}) /\ ~Answered({"240"})
      BY <1>4, <1>6
    <2>2. ~AnsweredText("220") /\ ~AnsweredText("230")
      BY <1>5
    <2> QED
      BY <1>1, <1>2, <1>3, <1>7, <1>8, <1>9, <1>10, <2>1, <2>2
      DEF InPhase, Phases, Commands, Waits
  <1>12. PICK k \in 0..Len(text) : Reading(k)
    BY <1>11 DEF InPhase
  <1>13. k # Len(text) /\ TooLong(Dotted(text[k + 1]))
    BY <1>1, <1>12, TextRead
  <1>14. k + 1 \in DOMAIN text
    <2>1. text \in Seq(Line)
      BY DEF TypeOK
    <2> QED
      BY <1>13, <2>1
  <1>15. phase' = "aborted" /\ up' = up /\ server' = server /\ alive' = alive /\ text' = text
    BY <1>11 DEF ReadLineAborts, external
  <1>16. Quiet'
    BY <1>12, <1>15 DEF Reading, Quiet
  <1>17. \E i \in DOMAIN text' : TooLong(Dotted(text'[i]))
    BY <1>13, <1>14, <1>15
  <1> QED
    BY <1>15, <1>16, <1>17 DEF InPhase


-----------------------------------------------------------------------------
\* The steps of the client.

\* A call has returned, and nothing has been promised.
LEMMA ReturnedStep ==
    ASSUME NEW call, NEW value, Returns(call, value), Quiet', down' = <<>>,
           call \notin {"post", "line"} \/ value = -1
    PROVE  InPhase'
  <1>1. phase' = "idle" /\ ret' = <<call, value>>
    BY DEF Returns
  <1>2. ret' # <<"post", 0>> /\ ret' # <<"line", 0>>
    BY <1>1
  <1> QED
    BY <1>1, <1>2 DEF InPhase

\* What the server has not read or closed it will not read or open.
LEMMA QuietStep ==
    ASSUME Quiet, UNCHANGED <<up, external>>
    PROVE  Quiet'
  BY DEF Quiet, external

\* A client whose connection has been closed finds nothing there.
LEMMA LostStep ==
    ASSUME TypeOK', alive' = FALSE, down' = <<>>, NEW codes, codes # {}, codes \subseteq Codes
    PROVE  Answered(codes)'
  <1>1. up' = <<>>
    BY DEF TypeOK
  <1>2. PICK code \in codes : TRUE
    OBVIOUS
  <1>3. Sent(<<code>>) \in Seq(Tokens)
    BY <1>2, CodeIsLine, SentIs
  <1>4. Begins(down', Sent(<<code>>))
    BY <1>3, BeginsItself
  <1> QED
    BY <1>1, <1>2, <1>4 DEF Answered, Quiet, Comes

\* Reading a response: the code, or the end of the connection.
LEMMA AnsweredStep ==
    ASSUME TypeOK, ReadLine, NEW command, NEW codes, codes \subseteq Codes,
           Asked(command) \/ Answered(codes)
    PROVE  /\ Quiet /\ down' = <<>>
           /\ Response \in codes \/ (Response = "-1" /\ alive = FALSE)
  <1>1. ~Asked(command)
    BY AskedRead, ReadLineStep
  <1>2. Answered(codes)
    BY <1>1
  <1> QED
    BY <1>2, AnsweredRead, ReadLineStep DEF TypeOK

\* Reading a response with a text.
LEMMA AnsweredTextStep ==
    ASSUME TypeOK, ReadLine, NEW code \in Codes, AnsweredText(code)
    PROVE  /\ Quiet
           /\ \/ /\ Response = code
                 /\ Begins(down', AllSent(Texted(text)))
                 /\ alive => down' = AllSent(Texted(text))
              \/ Response = "-1" /\ alive = FALSE /\ down' = <<>>
  BY AnsweredTextRead, ReadLineStep DEF TypeOK

LEMMA GreetingRead ==
    ASSUME TypeOK, InPhase, phase = "greeting", ReadLine
    PROVE  /\ Quiet /\ (Expected(Response) => down' = <<>>)
           /\ \/ down' = <<>>
              \/ \E code \in Codes : /\ Begins(down', Sent(<<code>>))
                                     /\ alive => down' = Sent(<<code>>)
  <1>1. Quiet
    BY DEF InPhase
  <1>2. CASE ~HasLine(down)
    BY <1>1, <1>2, ReadLineStep
  <1>3. CASE HasLine(down)
    <2>1. down' = After(down) /\ Response = Code(LineOf(down))
      BY <1>3, ReadLineStep DEF Response
    <2>2. down # <<>>
      BY <1>3, NothingIsThere
    <2>3. ASSUME NEW code \in Codes, Comes(Sent(<<code>>))
          PROVE  down' = <<>>
      BY <1>3, <2>1, <2>3, ReadCodeAlone DEF Comes
    <2>4. ASSUME NEW code \in Codes, Comes(Sent(<<"100">>) \o Sent(<<code>>))
          PROVE  /\ ~Expected(Response) /\ Begins(down', Sent(<<code>>))
                 /\ alive => down' = Sent(<<code>>)
      <3>1. PICK s : s = Sent(<<code>>)
        OBVIOUS
      <3>2. s \in Seq(Tokens) /\ "100" \in Codes
        BY <3>1, CodeIsLine, SentIs DEF Codes
      <3>3. Begins(down, Sent(<<"100">>) \o s) /\ (alive => down = Sent(<<"100">>) \o s)
        BY <2>4, <3>1 DEF Comes
      <3>4. /\ HasLine(down) => Code(LineOf(down)) = "100" /\ Begins(After(down), s)
            /\ down = Sent(<<"100">>) \o s => After(down) = s
        BY <3>2, <3>3, ReadCode
      <3> QED
        BY <1>3, <2>1, <3>1, <3>3, <3>4 DEF Expected
    <2>5. \E code \in Codes : Comes(Sent(<<code>>)) \/ Comes(Sent(<<"100">>) \o Sent(<<code>>))
      BY <2>2 DEF InPhase
    <2> QED
      BY <1>1, <2>3, <2>4, <2>5
  <1> QED
    BY <1>2, <1>3

LEMMA NntpOpenGreetedStep ==
    ASSUME TypeOK, InPhase, TypeOK', spoiled' = {}, NntpOpenGreeted
    PROVE  InPhase'
  <1>1. phase = "greeting" /\ ReadLine /\ UNCHANGED external
    BY DEF NntpOpenGreeted
  <1>2. /\ Quiet /\ (Expected(Response) => down' = <<>>)
        /\ \/ down' = <<>>
           \/ \E code \in Codes : /\ Begins(down', Sent(<<code>>))
                                  /\ alive => down' = Sent(<<code>>)
    BY <1>1, GreetingRead
  <1>3. alive' = alive /\ server' = server
    BY <1>1 DEF external
  <1>4. CASE ~Expected(Response) /\ UNCHANGED <<phase, ret, up, spoiled>>
    <2>1. Quiet' /\ phase' = "greeting"
      BY <1>1, <1>2, <1>4, QuietStep
    <2>2. down' = <<>> \/ \E code \in Codes : Comes(Sent(<<code>>))'
      BY <1>2, <1>3 DEF Comes
    <2> QED
      BY <2>1, <2>2 DEF InPhase
  <1>5. CASE Expected(Response) /\ ~reader /\ Opened /\ UNCHANGED <<up, spoiled>>
    <2>1. Quiet' /\ down' = <<>>
      BY <1>1, <1>2, <1>5, QuietStep
    <2>2. Returns("open", IF Response = "200" THEN 1 ELSE 0)
      BY <1>5 DEF Opened
    <2> QED
      BY <2>1, <2>2, ReturnedStep
  <1>6. CASE Expected(Response) /\ SendCmd(<<"mode reader">>) /\ phase' = "mode"
    <2>1. "mode reader" \in Tokens
      BY DEF Tokens
    <2>2. PICK line : line = <<"mode reader">>
      OBVIOUS
    <2>3. line \in Seq(Tokens) /\ Sent(line) \in Seq(Tokens)
      <3>1. "mode reader" # "LF" /\ "mode reader" # "long"
        OBVIOUS
      <3>2. line \in Seq(Tokens)
        BY <2>1, <2>2, <3>1, TokenRead
      <3> QED
        BY <3>2, SentIs
    <2>4. up' = IF alive THEN up \o Sent(line) ELSE up
      BY <1>6, <2>2, <2>3, SendCmdStep
    <2>5. up = <<>> /\ (alive => server.mode = "command")
      BY <1>2 DEF Quiet
    <2>6. CASE alive
      <3>1. up' = Sent(line)
        BY <2>3, <2>4, <2>5, <2>6, ConcatEmptySeq
      <3>2. Asked("mode reader")'
        BY <1>2, <1>3, <1>6, <2>2, <2>5, <2>6, <3>1 DEF Asked
      <3> QED
        BY <1>6, <3>2 DEF InPhase
    <2>7. CASE ~alive
      <3>1. Quiet' /\ down' = <<>>
        BY <1>2, <1>3, <1>6, <2>4, <2>5, <2>7 DEF Quiet
      <3> QED
        BY <1>6, <3>1 DEF InPhase
    <2> QED
      BY <2>6, <2>7
  <1>7. CASE phase' = "closed"
    BY <1>7 DEF InPhase
  <1> QED
    BY <1>4, <1>5, <1>6, <1>7 DEF NntpOpenGreeted

LEMMA NntpOpenModeStep ==
    ASSUME TypeOK, InPhase, NntpOpenMode
    PROVE  InPhase'
  <1>1. phase = "mode" /\ ReadLine /\ UNCHANGED <<up, external>>
    BY DEF NntpOpenMode
  <1>2. Quiet /\ down' = <<>>
    <2>1. CASE Asked("mode reader") \/ Answered(Codes)
      BY <1>1, <2>1, AnsweredStep
    <2>2. CASE Quiet /\ down = <<>>
      BY <1>1, <2>2, NothingIsThere, ReadLineStep
    <2> QED
      BY <1>1, <2>1, <2>2 DEF InPhase
  <1>3. Quiet'
    BY <1>1, <1>2, QuietStep
  <1>4. CASE Opened
    <2>1. Returns("open", IF Response = "200" THEN 1 ELSE 0)
      BY <1>4 DEF Opened
    <2> QED
      BY <1>2, <1>3, <2>1, ReturnedStep
  <1>5. CASE phase' = phase
    BY <1>1, <1>2, <1>3, <1>5 DEF InPhase
  <1> QED
    BY <1>4, <1>5 DEF NntpOpenMode

LEMMA NntpAnsweredStep ==
    ASSUME TypeOK, InPhase, NntpAnswered
    PROVE  InPhase'
  <1>1. phase \in {"group", "next"} /\ ReadLine /\ UNCHANGED <<up, external>>
    BY DEF NntpAnswered
  <1>2. Quiet /\ down' = <<>>
    <2>1. Asked(phase) \/ Answered(Codes)
      BY <1>1 DEF InPhase
    <2> QED
      BY <1>1, <2>1, AnsweredStep
  <1>3. PICK value : Returns(phase, value)
    BY DEF NntpAnswered
  <1>4. Quiet'
    BY <1>1, <1>2, QuietStep
  <1> QED
    BY <1>1, <1>2, <1>3, <1>4, ReturnedStep


LEMMA NntpTextFollowsStep ==
    ASSUME TypeOK, InPhase, TypeOK', NntpTextFollows
    PROVE  InPhase'
  <1>1. phase \in {"article", "newnews"} /\ ReadLine /\ UNCHANGED <<up, external>>
    BY DEF NntpTextFollows
  <1>2. alive' = alive /\ text' = text
    BY <1>1 DEF external
  <1>3. PICK code \in {"220", "230"} : code = IF phase = "article" THEN "220" ELSE "230"
    BY <1>1
  <1>4. code \in Codes /\ {"400", "500"} \subseteq Codes
    BY DEF Codes, Refusals
  <1>5. Asked(phase) \/ Answered({"400", "500"}) \/ AnsweredText(code)
    BY <1>1, <1>3 DEF InPhase
  <1>6. Quiet
    BY <1>1, <1>4, <1>5, AnsweredStep, AnsweredTextStep
  <1>7. Quiet'
    BY <1>1, <1>6, QuietStep
  <1>8. \/ Response \in {"400", "500"} /\ down' = <<>>
        \/ Response = "-1" /\ alive = FALSE /\ down' = <<>>
        \/ /\ Response = code
           /\ Begins(down', AllSent(Texted(text)))
           /\ alive => down' = AllSent(Texted(text))
    BY <1>1, <1>4, <1>5, AnsweredStep, AnsweredTextStep
  <1>9. CASE Response = code /\ phase' = "reading" /\ got' = <<>>
    <2>1. text \in Seq(Line) /\ Len(text) \in Nat
      BY DEF TypeOK
    <2>2. /\ Begins(down', AllSent(Texted(text)))
          /\ alive => down' = AllSent(Texted(text))
      BY <1>3, <1>8, <1>9
    <2>3. AllSent(Texted(text)) = Run(Texted(text), 0, Len(text) + 1)
      BY <2>1, TextStream
    <2>4. got' = SubSeq(text, 1, 0)
      BY <1>9, <2>1, SubSeqEmpty
    <2>5. Reading(0)'
      BY <1>2, <1>7, <2>2, <2>3, <2>4 DEF Reading, Comes
    <2>6. 0 \in 0..Len(text')
      BY <1>2, <2>1
    <2> QED
      BY <1>9, <2>5, <2>6 DEF InPhase
  <1>10. CASE Returns(phase, -1) /\ Response # code
    <2>1. down' = <<>>
      BY <1>8, <1>10
    <2> QED
      BY <1>7, <1>10, <2>1, ReturnedStep
  <1>11. CASE phase = "newnews" /\ Response \notin {"230", "400", "500"} /\ phase' = phase
    <2>1. alive' = FALSE /\ down' = <<>>
      BY <1>2, <1>3, <1>8, <1>11
    <2>2. Answered({"400", "500"})'
      BY <1>4, <2>1, LostStep
    <2> QED
      BY <1>11, <2>2 DEF InPhase
  <1> QED
    BY <1>1, <1>3, <1>9, <1>10, <1>11 DEF NntpTextFollows

LEMMA NntpNextLineStep ==
    ASSUME TypeOK, InPhase, NntpNextLine
    PROVE  InPhase'
  <1>1. phase = "reading" /\ ReadLine /\ UNCHANGED <<up, external>>
    BY DEF NntpNextLine
  <1>2. PICK k \in 0..Len(text) : Reading(k)
    BY <1>1 DEF InPhase
  <1>3. text \in Seq(Line) /\ Len(text) \in Nat /\ text' = text /\ alive' = alive
    BY <1>1 DEF external, TypeOK
  <1>4. Quiet'
    BY <1>1, <1>2, QuietStep DEF Reading
  <1>5. CASE ~HasLine(down)
    <2>1. down' = <<>> /\ Returns("line", -1)
      BY <1>1, <1>5, ReadLineStep DEF NntpNextLine
    <2> QED
      BY <1>4, <2>1, ReturnedStep
  <1>6. CASE HasLine(down) /\ k = Len(text)
    <2>1. LineOf(down) = <<".">> /\ down' = <<>>
      BY <1>1, <1>2, <1>6, TextRead, ReadLineStep
    <2>2. Returns("line", 0) /\ got' = got
      BY <1>6, <2>1 DEF NntpNextLine, IsEnd
    <2>3. got' = text'
      BY <1>2, <1>3, <1>6, <2>2, SubSeqFull DEF Reading
    <2>4. phase' = "idle" /\ ret' = <<"line", 0>>
      BY <2>2 DEF Returns
    <2>5. ret' # <<"post", 0>>
      BY <2>4
    <2> QED
      BY <1>4, <2>1, <2>3, <2>4, <2>5 DEF InPhase
  <1>7. CASE HasLine(down) /\ k # Len(text)
    <2>1. PICK j : j = k + 1
      OBVIOUS
    <2>2. j \in 1..Len(text) /\ j - 1 = k
      BY <1>3, <1>7, <2>1
    <2>3. /\ LineOf(down) # <<".">> /\ Unstuffed(LineOf(down)) = text[j]
          /\ Begins(down', Run(Texted(text), j, Len(text) + 1))
          /\ alive => down' = Run(Texted(text), j, Len(text) + 1)
      BY <1>1, <1>2, <1>7, <2>1, TextRead, ReadLineStep
    <2>4. phase' = phase /\ got' = Append(got, Unstuffed(LineOf(down)))
      BY <1>7, <2>3 DEF NntpNextLine, IsEnd
    <2>5. got = SubSeq(text, 1, j - 1)
      BY <1>2, <2>2 DEF Reading
    <2>6. Append(SubSeq(text, 1, j - 1), text[j]) = SubSeq(text, 1, j)
      BY <1>3, <2>2, PrefixAppend
    <2>7. got' = SubSeq(text, 1, j)
      BY <2>3, <2>4, <2>5, <2>6
    <2>8. Reading(j)'
      BY <1>3, <1>4, <2>3, <2>7 DEF Reading, Comes
    <2>9. j \in 0..Len(text')
      BY <1>3, <2>2
    <2> QED
      BY <1>1, <2>4, <2>8, <2>9 DEF InPhase
  <1> QED
    BY <1>5, <1>6, <1>7

LEMMA NntpPostAnsweredStep ==
    ASSUME TypeOK, InPhase, TypeOK', NntpPostAnswered
    PROVE  InPhase'
  <1>1. phase = "post" /\ ReadLine /\ UNCHANGED <<posted, up, external>>
    BY DEF NntpPostAnswered
  <1>2. alive' = alive /\ server' = server
    BY <1>1 DEF external
  <1>3. {"400", "500"} \subseteq Codes /\ "340" \in Codes
    BY DEF Codes, Refusals
  <1>4. CASE Invited
    <2>1. up = <<>> /\ Begins(down, Sent(<<"340">>)) /\ (alive => down = Sent(<<"340">>))
      BY <1>4 DEF Invited, Comes
    <2>2. /\ HasLine(down) => Code(LineOf(down)) = "340" /\ After(down) = <<>>
          /\ down = Sent(<<"340">>) => HasLine(down)
      BY <1>3, <2>1, ReadCodeAlone
    <2>3. CASE HasLine(down)
      <3>1. Response = "340" /\ down' = <<>>
        BY <1>1, <2>2, <2>3, ReadLineStep DEF Response
      <3>2. phase' = "posting" /\ todo' = posted
        BY <3>1 DEF NntpPostAnswered
      <3>3. posted \in Seq(Seq(Tokens))
        <4>1. posted \in Articles \cup {<<>>}
          BY DEF TypeOK
        <4> QED
          BY <4>1, ArticlesAre
      <3>4. todo' = SubSeq(posted, 0 + 1, Len(posted)) /\ Len(posted) \in Nat
        BY <3>2, <3>3, SubSeqFull
      <3>5. Run(Written(posted), 0, 0) = <<>>
        <4>1. Written(posted) \in Seq(Line) /\ Len(Written(posted)) \in Nat
          <5>1. posted \in Articles \cup {<<>>}
            BY DEF TypeOK
          <5> QED
            BY <5>1, WrittenIs
        <4> QED
          BY <4>1, RunIsStream
      <3>6. SubSeq(Whole(posted), 1, 0) = <<>>
        BY SubSeqEmpty
      <3>7. alive => server.mode = "article" /\ server.lines = <<>>
        BY <1>4 DEF Invited
      <3>8. Posting(0)'
        <4>1. /\ down' = <<>> /\ (alive' => server'.mode = "article")
              /\ posted' = posted /\ up' = <<>>
          BY <1>1, <1>2, <2>1, <3>1, <3>7
        <4>2. alive' => server'.lines = <<>>
          BY <1>2, <3>7
        <4>3. 0 \in 0..Len(posted) /\ 0 <= 0
          BY <3>4
        <4>4. up' = Run(Written(posted), 0, 0) /\ (alive' => server'.lines = SubSeq(Whole(posted), 1, 0))
          BY <3>5, <3>6, <4>1, <4>2
        <4>5. up' = Run(Written(posted'), 0, 0)
              /\ (alive' => server'.lines = SubSeq(Whole(posted'), 1, 0))
              /\ 0 \in 0..Len(posted')
          BY <4>1, <4>3, <4>4
        <4> HIDE DEF Written, Whole, Run
        <4> QED
          BY <4>1, <4>3, <4>5 DEF Posting
      <3> QED
        BY <1>1, <3>2, <3>4, <3>8 DEF InPhase
    <2>4. CASE ~HasLine(down)
      <3>1. alive = FALSE /\ down' = <<>> /\ Response = "-1"
        BY <1>1, <2>4, ReadLineStep DEF Response, TypeOK
      <3>2. Returns("post", -1)
        BY <3>1 DEF NntpPostAnswered
      <3>3. Quiet'
        BY <1>1, <1>2, <2>1, <3>1 DEF Quiet
      <3> QED
        BY <3>1, <3>2, <3>3, ReturnedStep
    <2> QED
      BY <2>3, <2>4
  <1>5. CASE ~Invited
    <2>1. Asked(phase) \/ Answered({"400", "500"})
      BY <1>1, <1>5 DEF InPhase
    <2>2. /\ Quiet /\ down' = <<>>
          /\ Response \in {"400", "500"} \/ (Response = "-1" /\ alive = FALSE)
      BY <1>1, <1>3, <2>1, AnsweredStep
    <2>3. Returns("post", -1)
      BY <2>2 DEF NntpPostAnswered
    <2>4. Quiet'
      BY <1>1, <2>2, QuietStep
    <2> QED
      BY <2>2, <2>3, <2>4, ReturnedStep
  <1> QED
    BY <1>4, <1>5


\* nntp_post_article writes a line: one more of the article and its end is on its way.
LEMMA LineIsWritten ==
    ASSUME TypeOK, TypeOK', NEW m \in 0..Len(posted), Posting(m),
           down' = down, posted' = posted, UNCHANGED external,
           up' = IF alive THEN up \o Sent(Written(posted)[m + 1]) ELSE up
    PROVE  Posting(m + 1)'
  <1>1. PICK w : w = Written(posted)
    OBVIOUS
  <1>2. w \in Seq(Line) /\ Len(w) = Len(posted) + 1 /\ Len(posted) \in Nat
    <2>1. posted \in Articles \cup {<<>>}
      BY DEF TypeOK
    <2>2. Written(posted) \in Seq(Line) /\ Len(Written(posted)) = Len(posted) + 1
      BY <2>1, WrittenIs
    <2>3. Len(posted) \in Nat
      BY <2>1, ArticlesAre
    <2> QED
      BY <1>1, <2>2, <2>3
  <1>3. down' = <<>> /\ server' = server /\ alive' = alive
    BY DEF Posting, external
  <1>4. CASE ~alive
    BY <1>3, <1>4 DEF Posting
  <1>5. CASE alive
    <2>1. PICK k \in 0..Len(posted) :
              /\ k <= m /\ up = Run(w, k, m)
              /\ server.lines = SubSeq(Whole(posted), 1, k)
      BY <1>1, <1>5 DEF Posting
    <2>2. m \in 0..Len(w) - 1 /\ k \in 0..m
      BY <1>2, <2>1
    <2>3. Run(w, k, m + 1) = Run(w, k, m) \o Sent(w[m + 1])
      BY <1>2, <2>2, RunLast
    <2>4. up' = Run(w, k, m + 1) /\ k <= m + 1
      BY <1>1, <1>5, <2>1, <2>2, <2>3
    <2>5. server.mode = "article"
      BY <1>5 DEF Posting
    <2>6. up' = Run(Written(posted'), k, m + 1)
      BY <1>1, <2>4
    <2>7. server'.lines = SubSeq(Whole(posted'), 1, k) /\ k \in 0..Len(posted')
      BY <1>3, <2>1
    <2>8. server'.mode = "article"
      BY <1>3, <2>5
    <2> QED
      BY <1>3, <2>4, <2>6, <2>7, <2>8 DEF Posting
  <1> QED
    BY <1>4, <1>5

LEMMA NntpWriteNextLineStep ==
    ASSUME TypeOK, InPhase, TypeOK', spoiled' = {}, NntpWriteNextLine
    PROVE  InPhase'
  <1>1. /\ phase = "posting" /\ todo # <<>>
        /\ posted' = posted /\ down' = down /\ UNCHANGED external
        /\ SendCmd(Stuffed(Head(todo))) /\ todo' = Tail(todo) /\ phase' = phase
    BY DEF NntpWriteNextLine
  <1>2. PICK m \in 0..Len(posted) : todo = SubSeq(posted, m + 1, Len(posted)) /\ Posting(m)
    BY <1>1 DEF InPhase
  <1>3. posted \in Seq(Seq(Tokens)) /\ Len(posted) \in Nat
    <2>1. posted \in Articles \cup {<<>>}
      BY DEF TypeOK
    <2> QED
      BY <2>1, ArticlesAre
  <1>4. PICK j, n : j = m + 1 /\ n = Len(posted)
    OBVIOUS
  <1>5. todo = SubSeq(posted, j, n) /\ j \in Int /\ n \in Int
    BY <1>2, <1>3, <1>4
  <1>6. j <= n
    BY <1>1, <1>5, SubSeqEmpty
  <1>7. j \in 1..n /\ \A i \in j..n : posted[i] \in Seq(Tokens)
    BY <1>3, <1>4, <1>6
  <1>8. Head(todo) = posted[j] /\ Tail(todo) = SubSeq(posted, j + 1, n)
    BY <1>3, <1>4, <1>5, <1>6, <1>7, HeadTailOfSubSeq
  <1>9. posted[j] \in Seq(Tokens)
    BY <1>6, <1>7
  <1>10. up' = IF alive THEN up \o Sent(Stuffed(posted[j])) ELSE up
    <2>1. PICK line : line = Stuffed(posted[j])
      OBVIOUS
    <2>2. line \in Seq(Tokens)
      BY <1>9, <2>1, StuffedIsStream
    <2>3. SendCmd(line)
      BY <1>1, <1>8, <2>1
    <2> QED
      BY <2>1, <2>2, <2>3, SendCmdStep
  <1>11. Written(posted)[m + 1] = Stuffed(posted[j])
    BY <1>4, <1>7, WrittenIs DEF TypeOK
  <1>12. Posting(m + 1)'
    BY <1>1, <1>2, <1>10, <1>11, LineIsWritten
  <1>13. m + 1 \in 0..Len(posted') /\ todo' = SubSeq(posted', (m + 1) + 1, Len(posted'))
    BY <1>1, <1>3, <1>4, <1>6, <1>8
  <1> QED
    BY <1>1, <1>12, <1>13 DEF InPhase

LEMMA NntpWriteEndLineStep ==
    ASSUME TypeOK, InPhase, TypeOK', spoiled' = {}, NntpWriteEndLine
    PROVE  InPhase'
  <1>1. /\ phase = "posting" /\ todo = <<>>
        /\ posted' = posted /\ down' = down /\ UNCHANGED external
    BY DEF NntpWriteEndLine
  <1>2. PICK m \in 0..Len(posted) : todo = SubSeq(posted, m + 1, Len(posted)) /\ Posting(m)
    BY <1>1 DEF InPhase
  <1>3. posted \in Seq(Seq(Tokens)) /\ Len(posted) \in Nat
    <2>1. posted \in Articles \cup {<<>>}
      BY DEF TypeOK
    <2> QED
      BY <2>1, ArticlesAre
  <1>4. Len(todo) = Len(posted) - m
    BY <1>2, <1>3, RestIs
  <1>5. m = Len(posted)
    BY <1>1, <1>3, <1>4
  <1>6. "." \in Tokens /\ "." # "LF" /\ "." # "long"
    BY TokensAre
  <1>7. PICK line : line = <<".">>
    OBVIOUS
  <1>8. line \in Seq(Tokens) /\ ~TooLong(line)
    BY <1>6, <1>7, TokenRead
  <1>9. CASE SendCmd(<<".">>) /\ phase' = "end"
    <2>1. up' = IF alive THEN up \o Sent(line) ELSE up
      BY <1>7, <1>8, <1>9, SendCmdStep
    <2>2. Written(posted)[m + 1] = line
      BY <1>5, <1>7, WrittenIs DEF TypeOK
    <2>3. Posting(m + 1)'
      BY <1>1, <1>2, <2>1, <2>2, LineIsWritten
    <2>4. Posting(Len(posted) + 1)'
      BY <1>1, <1>5, <2>3
    <2> QED
      BY <1>9, <2>4 DEF InPhase
  <1>10. CASE SendCmdFails(<<".">>) /\ Returns("post", -1)
    <2>1. alive = FALSE /\ up' = up
      BY <1>7, <1>8, <1>10 DEF SendCmdFails, TypeOK
    <2>2. Quiet'
      BY <1>1, <2>1 DEF Quiet, TypeOK, external
    <2>3. down' = <<>>
      BY <1>1, <1>2 DEF Posting
    <2> QED
      BY <1>10, <2>2, <2>3, ReturnedStep
  <1> QED
    BY <1>9, <1>10 DEF NntpWriteEndLine

LEMMA NntpPostedStep ==
    ASSUME TypeOK, InPhase, NntpPosted
    PROVE  InPhase'
  <1>1. /\ phase = "end" /\ ReadLine /\ UNCHANGED <<posted, up, external>>
        /\ Returns("post", IF Response = "240" THEN 0 ELSE -1)
    BY DEF NntpPosted
  <1>2. {"441"} \subseteq Codes /\ {"240"} \subseteq Codes
    BY DEF Codes, Refusals
  <1>3. CASE Posting(Len(posted) + 1)
    <2>1. down = <<>>
      BY <1>3 DEF Posting
    <2>2. alive = FALSE /\ down' = <<>> /\ Response = "-1"
      BY <1>1, <2>1, NothingIsThere, ReadLineStep DEF Response, TypeOK
    <2>3. Quiet'
      BY <1>1, <2>2 DEF Quiet, TypeOK, external
    <2> QED
      BY <1>1, <2>2, <2>3, ReturnedStep
  <1>4. CASE Answered({"441"})
    <2>1. /\ Quiet /\ down' = <<>>
          /\ Response \in {"441"} \/ (Response = "-1" /\ alive = FALSE)
      BY <1>1, <1>2, <1>4, AnsweredStep
    <2>2. Quiet'
      BY <1>1, <2>1, QuietStep
    <2>3. Returns("post", -1)
      BY <1>1, <2>1
    <2> QED
      BY <2>1, <2>2, <2>3, ReturnedStep
  <1>5. CASE Answered({"240"}) /\ spool = Whole(posted)
    <2>1. Quiet /\ down' = <<>>
      BY <1>1, <1>2, <1>5, AnsweredStep
    <2>2. Quiet'
      BY <1>1, <2>1, QuietStep
    <2>3. spool' = Whole(posted')
      BY <1>1, <1>5 DEF external
    <2>4. phase' = "idle" /\ ret' # <<"line", 0>>
      BY <1>1 DEF Returns
    <2> QED
      BY <2>1, <2>2, <2>3, <2>4 DEF InPhase
  <1> QED
    BY <1>1, <1>3, <1>4, <1>5 DEF InPhase


LEMMA NntpOpenStep ==
    ASSUME TypeOK, NEW use, NntpOpen(use)
    PROVE  InPhase'
  <1>1. /\ phase' = "greeting" /\ up' = <<>> /\ alive' = TRUE
        /\ server' = [mode |-> "command", lines |-> <<>>]
    BY DEF NntpOpen
  <1>2. PICK code \in {"200", "201", "400"} :
            down' \in {Sent(<<code>>), Sent(<<"100">>) \o Sent(<<code>>)}
    BY DEF NntpOpen
  <1>3. code \in Codes /\ "100" \in Codes
    BY DEF Codes, Refusals
  <1>4. PICK a, b : a = Sent(<<code>>) /\ b = Sent(<<"100">>)
    OBVIOUS
  <1>5. a \in Seq(Tokens) /\ b \in Seq(Tokens)
    BY <1>3, <1>4, CodeIsLine, SentIs
  <1>6. b \o a \in Seq(Tokens)
    BY <1>5, ConcatProperties
  <1>7. Begins(a, a) /\ Begins(b \o a, b \o a)
    BY <1>5, <1>6, BeginsItself
  <1>8. Comes(Sent(<<code>>))' \/ Comes(Sent(<<"100">>) \o Sent(<<code>>))'
    BY <1>2, <1>4, <1>7 DEF Comes
  <1>9. Quiet'
    BY <1>1 DEF Quiet
  <1> QED
    BY <1>1, <1>3, <1>8, <1>9 DEF InPhase

\* The command of a call is on its way, or lost.
LEMMA CallsStep ==
    ASSUME TypeOK, InPhase, TypeOK', spoiled' = {}, NEW call \in Commands, Calls(call)
    PROVE  InPhase'
  <1>1. phase = "idle" /\ down' = down /\ UNCHANGED external
    BY DEF Calls
  <1>2. alive' = alive /\ server' = server
    BY <1>1 DEF external
  <1>3. Quiet /\ down' = <<>>
    BY <1>1 DEF InPhase
  <1>4. CASE SendCmd(<<call>>) /\ phase' = call
    <2>1. PICK line : line = <<call>>
      OBVIOUS
    <2>2. call \in Tokens /\ call # "LF" /\ call # "long"
      BY TokensAre DEF Commands
    <2>3. line \in Seq(Tokens)
      BY <2>1, <2>2, TokenRead
    <2>4. Sent(line) \in Seq(Tokens)
      BY <2>3, SentIs
    <2>5. up' = IF alive THEN up \o Sent(line) ELSE up
      BY <1>4, <2>1, <2>3, SendCmdStep
    <2>6. up = <<>> /\ (alive => server.mode = "command")
      BY <1>3 DEF Quiet
    <2>7. CASE alive
      <3>1. up' = Sent(line)
        BY <2>4, <2>5, <2>6, <2>7, ConcatEmptySeq
      <3>2. Asked(call)'
        BY <1>2, <1>3, <2>1, <2>6, <2>7, <3>1 DEF Asked
      <3> QED
        BY <1>4, <3>2 DEF InPhase, Commands
    <2>8. CASE ~alive
      <3>1. alive' = FALSE
        BY <1>2, <2>8 DEF TypeOK
      <3>2. {"400", "500"} \subseteq Codes /\ {"400", "500"} # {} /\ "400" \in Codes
        BY DEF Codes, Refusals
      <3>3. Answered({"400", "500"})' /\ Answered(Codes)'
        BY <1>3, <3>1, <3>2, LostStep
      <3> QED
        BY <1>4, <3>3 DEF InPhase, Commands
    <2> QED
      BY <2>7, <2>8
  <1>5. CASE (SendCmdFails(<<call>>) \/ UNCHANGED up) /\ Returns(call, -1)
    <2>1. UNCHANGED up
      BY <1>5 DEF SendCmdFails
    <2>2. Quiet'
      BY <1>1, <1>3, <2>1, QuietStep
    <2> QED
      BY <1>3, <1>5, <2>2, ReturnedStep
  <1> QED
    BY <1>4, <1>5 DEF Calls

-----------------------------------------------------------------------------
\* The invariant, and what it says for the clients.

\* What has spoiled a connection stays so until another one is opened.
LEMMA StaysSpoiled ==
    ASSUME TypeOK, TypeOK', [Next]_vars, spoiled' = {}, ~\E use \in BOOLEAN : NntpOpen(use)
    PROVE  spoiled = {}
  <1>1. \A code, lines : Answer(code, lines) => spoiled \subseteq spoiled'
    BY DEF Answer
  <1>2. \A line : SendCmd(line) => spoiled \subseteq spoiled'
    BY DEF SendCmd, WriteAll
  <1>3. CASE ServerReadsCommand
    <2>1. PICK command : ServerObeys(command)
      BY <1>3 DEF ServerReadsCommand
    <2>2. \E code, lines : Answer(code, lines)
      BY <2>1 DEF ServerObeys
    <2> QED
      BY <1>1, <2>2
  <1>4. CASE ServerReadsLine
    BY <1>1, <1>4 DEF ServerReadsLine
  <1>5. CASE ServerCloses
    BY <1>5 DEF ServerCloses
  <1>6. CASE ReadLineAborts
    BY <1>6 DEF ReadLineAborts
  <1>7. CASE NntpOpenGreeted
    BY <1>2, <1>7 DEF NntpOpenGreeted
  <1>8. CASE NntpOpenMode \/ NntpAnswered \/ NntpTextFollows \/ NntpNextLine
             \/ NntpPostAnswered \/ NntpPosted
    BY <1>8 DEF NntpOpenMode, NntpAnswered, NntpTextFollows, NntpNextLine,
                NntpPostAnswered, NntpPosted
  <1>9. CASE NntpWriteNextLine
    BY <1>2, <1>9 DEF NntpWriteNextLine
  <1>10. CASE NntpWriteEndLine
    BY <1>2, <1>10 DEF NntpWriteEndLine
  <1>11. CASE NntpOpenFails \/ NntpClose
    BY <1>11 DEF NntpOpenFails, NntpClose
  <1>12. CASE \E call : Calls(call)
    BY <1>2, <1>12 DEF Calls
  <1>13. CASE UNCHANGED vars
    BY <1>13 DEF vars
  <1> QED
    BY <1>3, <1>4, <1>5, <1>6, <1>7, <1>8, <1>9, <1>10, <1>11, <1>12, <1>13
    DEF Next, ServerStep, Continues, NntpCommand, NntpPost

LEMMA InvInit == Init => Inv
  BY TypeInit DEF Init, Inv, InPhase

\* Nothing changes.
LEMMA StutterStep ==
    ASSUME TypeOK, InPhase, UNCHANGED vars
    PROVE  InPhase'
  <1>1. /\ phase' = phase /\ todo' = todo /\ posted' = posted /\ got' = got /\ ret' = ret
        /\ up' = up /\ down' = down /\ alive' = alive /\ server' = server
        /\ spool' = spool /\ text' = text
    BY DEF vars, client, external
  <1>2. Quiet' = Quiet
    BY <1>1 DEF Quiet
  <1>3. CASE phase = "greeting"
    BY <1>1, <1>2, <1>3 DEF InPhase, Comes
  <1>4. CASE phase \in {"mode", "group", "next", "post", "article", "newnews"}
    BY <1>1, <1>2, <1>4 DEF InPhase, Asked, Answered, AnsweredText, Invited, Comes
  <1>5. CASE phase = "posting"
    BY <1>1, <1>5 DEF InPhase, Posting
  <1>6. CASE phase = "end"
    BY <1>1, <1>2, <1>6 DEF InPhase, Posting, Answered, Comes
  <1>7. CASE phase = "reading"
    BY <1>1, <1>2, <1>7 DEF InPhase, Reading, Comes
  <1>8. CASE phase \in {"idle", "aborted"}
    BY <1>1, <1>2, <1>8 DEF InPhase
  <1>9. CASE phase = "closed"
    BY <1>1, <1>9 DEF InPhase
  <1> QED
    BY <1>3, <1>4, <1>5, <1>6, <1>7, <1>8, <1>9 DEF TypeOK, Phases, Commands

LEMMA InvStep == Inv /\ [Next]_vars => Inv'
  <1> SUFFICES ASSUME TypeOK, spoiled = {} => InPhase, [Next]_vars
               PROVE  Inv'
    BY DEF Inv
  <1>1. TypeOK'
    BY TypeStep
  <1> SUFFICES ASSUME spoiled' = {}
               PROVE  InPhase'
    BY <1>1 DEF Inv
  <1>2. CASE \E use \in BOOLEAN : NntpOpen(use)
    BY <1>2, NntpOpenStep
  <1>3. CASE ~\E use \in BOOLEAN : NntpOpen(use)
    <2>1. InPhase
      BY <1>1, <1>3, StaysSpoiled
    <2>2. CASE ServerReadsCommand
      BY <1>1, <2>1, <2>2, ServerReadsCommandStep
    <2>3. CASE ServerReadsLine
      BY <1>1, <2>1, <2>3, ServerReadsLineStep
    <2>4. CASE ServerCloses
      BY <1>1, <2>1, <2>4, ServerClosesStep
    <2>5. CASE ReadLineAborts
      BY <1>1, <2>1, <2>5, ReadLineAbortsStep
    <2>6. CASE NntpOpenGreeted
      BY <1>1, <2>1, <2>6, NntpOpenGreetedStep
    <2>7. CASE NntpOpenMode
      BY <2>1, <2>7, NntpOpenModeStep
    <2>8. CASE NntpAnswered
      BY <2>1, <2>8, NntpAnsweredStep
    <2>9. CASE NntpTextFollows
      BY <1>1, <2>1, <2>9, NntpTextFollowsStep
    <2>10. CASE NntpNextLine
      BY <2>1, <2>10, NntpNextLineStep
    <2>11. CASE NntpPostAnswered
      BY <1>1, <2>1, <2>11, NntpPostAnsweredStep
    <2>12. CASE NntpWriteNextLine
      BY <1>1, <2>1, <2>12, NntpWriteNextLineStep
    <2>13. CASE NntpWriteEndLine
      BY <1>1, <2>1, <2>13, NntpWriteEndLineStep
    <2>14. CASE NntpPosted
      BY <2>1, <2>14, NntpPostedStep
    <2>15. CASE NntpOpenFails
      <3>1. ret' # <<"post", 0>> /\ ret' # <<"line", 0>> /\ phase' = "closed"
        BY <2>15 DEF NntpOpenFails
      <3> QED
        BY <3>1 DEF InPhase
    <2>16. CASE NntpClose
      BY <2>16 DEF NntpClose, InPhase
    <2>17. CASE \E call \in Commands : Calls(call)
      BY <1>1, <2>1, <2>17, CallsStep
    <2>18. CASE UNCHANGED vars
      BY <2>1, <2>18, StutterStep
    <2>19. "post" \in Commands
      BY DEF Commands
    <2> QED
      BY <1>3, <2>2, <2>3, <2>4, <2>5, <2>6, <2>7, <2>8, <2>9, <2>10, <2>11, <2>12,
         <2>13, <2>14, <2>15, <2>16, <2>17, <2>18, <2>19
      DEF Next, ServerStep, Continues, NntpCommand, NntpPost
  <1> QED
    BY <1>2, <1>3

\* In each phase of a call the connection holds what this phase is for, as long as
\* there were no partial writes, informing responses or articles that were refused
\* in the middle.
THEOREM Invariant == Spec => []Inv
  <1>1. Init => Inv
    BY InvInit
  <1>2. Inv /\ [Next]_vars => Inv'
    BY InvStep
  <1> QED
    BY <1>1, <1>2, PTL DEF Spec

\* nntp_post_article returns 0 only when the server has the article line for line: the
\* dots that nntp_write_next_line puts in front are those that the server takes away.
THEOREM Posted == Spec => []PostedIsKept
  <1>1. Inv => PostedIsKept
    BY DEF Inv, InPhase, PostedIsKept, Kept
  <1> QED
    BY <1>1, Invariant, PTL

\* nntp_next_line gives whole lines of the text in their order, and returns 0 only when
\* it has given all of them, wherever the server has closed the connection.
THEOREM Read == Spec => []ReadIsWhole
  <1>1. Inv => ReadIsWhole
    <2> SUFFICES ASSUME TypeOK, spoiled = {}, InPhase
                 PROVE  /\ phase = "reading" => IsPrefix(got, text)
                        /\ phase = "idle" /\ ret = <<"line", 0>> => got = text
                        /\ phase = "aborted" => \E i \in DOMAIN text : TooLong(Dotted(text[i]))
      BY DEF Inv, ReadIsWhole
    <2>1. CASE phase = "reading"
      <3>1. PICK k \in 0..Len(text) : got = SubSeq(text, 1, k)
        BY <2>1 DEF InPhase, Reading
      <3>2. text \in Seq(Line)
        BY DEF TypeOK
      <3>3. PICK g, t : g = got /\ t = text
        OBVIOUS
      <3>4. Len(g) = k /\ k <= Len(t) /\ g = SubSeq(t, 1, Len(g))
        BY <3>1, <3>2, <3>3
      <3>5. IsPrefix(g, t)
        BY <3>4 DEF IsPrefix
      <3> QED
        BY <2>1, <3>3, <3>5
    <2>2. CASE phase # "reading"
      BY <2>2 DEF InPhase
    <2> QED
      BY <2>1, <2>2
  <1> QED
    BY <1>1, Invariant, PTL

\* Whenever no call is being made, the client and the server agree on whose turn it is
\* and on what the next line is.
THEOREM Agreement == Spec => []InStep
  <1>1. Inv => InStep
    BY DEF Inv, InPhase, InStep, Quiet
  <1> QED
    BY <1>1, Invariant, PTL
=============================================================================
