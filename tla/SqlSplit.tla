------------------------------ MODULE SqlSplit ------------------------------
(***************************************************************************)
(* splitSqlStatements: the text of a migration is read once, from left to  *)
(* right, and cut at the semicolons that are in no literal and no comment. *)
(* A statement is the sequence of the positions that are kept of it.       *)
(*                                                                         *)
(* No migration has a backslash, and neither have the texts.               *)
(***************************************************************************)
EXTENDS Naturals, SequencesExt

CONSTANTS Letters, MaxText  \* the texts: their letters and their length

ASSUME SqlSplitAssumption == MaxText \in Nat /\ Letters \subseteq STRING

VARIABLES
    text,
    at,       \* i
    inside,   \* inSingle, inDouble, inLineComment, inBlockComment or none
    current, statements,
    wholeRead

splitVars == <<text, at, inside, current, statements, wholeRead>>

Newline == "nl"
Quotes == {"'", "dq"}  \* the single and the double one
Blanks == {Newline}
Places == {"code", "line", "block"} \cup Quotes

SplitInit ==
    /\ text \in UNION {[1 .. n -> Letters] : n \in 0 .. MaxText}
    /\ at = 1
    /\ inside = "code"
    /\ current = <<>> /\ statements = <<>>
    /\ wholeRead = FALSE

Letter(t, i) == IF i \in DOMAIN t THEN t[i] ELSE "end"
Char(i) == Letter(text, i)
Two(a, b) == Char(at) = a /\ Char(at + 1) = b

\* The scanner goes on by n letters, into a place, and keeps what it passes.
Scan(n, place, kept) ==
    /\ at' = at + n
    /\ inside' = place
    /\ current' = current \o kept
    /\ UNCHANGED <<text, statements, wholeRead>>

One == <<at>>

Comment ==
    \/ inside = "line" /\ Char(at) = Newline /\ Scan(1, "code", One)
    \/ inside = "line" /\ Char(at) # Newline /\ Scan(1, "line", <<>>)
    \/ inside = "block" /\ Two("*", "/") /\ Scan(2, "code", <<>>)
    \/ inside = "block" /\ ~Two("*", "/") /\ Scan(1, "block", <<>>)

Opens == inside = "code" /\ (Two("-", "-") \/ Two("/", "*"))

\* Fault: the second letter is read again.
OpenCommentByOne == Opens /\ Scan(1, IF Char(at) = "-" THEN "line" ELSE "block", <<>>)

OpenComment == Opens /\ Scan(2, IF Char(at) = "-" THEN "line" ELSE "block", <<>>)

\* A quote that is doubled inside its literal does not end it.
Quote ==
    /\ Char(at) \in Quotes /\ inside \in {"code", Char(at)}
    /\ IF inside = Char(at) /\ Char(at + 1) = Char(at) THEN Scan(2, inside, <<at, at + 1>>)
       ELSE Scan(1, IF inside = "code" THEN Char(at) ELSE "code", One)

IsBlank(t, i) == t[i] \in Blanks
Trim(s) ==
    LET full == {k \in DOMAIN s : ~IsBlank(text, s[k])} IN
    IF full = {} THEN <<>> ELSE SubSeq(s, Min(full), Max(full))

Pushed == IF Trim(current) = <<>> THEN statements ELSE Append(statements, Trim(current))

Semicolon ==
    /\ inside = "code" /\ Char(at) = ";"
    /\ at' = at + 1
    /\ statements' = Pushed
    /\ current' = <<>>
    /\ UNCHANGED <<text, inside, wholeRead>>

Other ==
    /\ at <= Len(text) /\ inside \in {"code"} \cup Quotes /\ ~Opens
    /\ ~(Char(at) \in Quotes /\ inside \in {"code", Char(at)})
    /\ ~(inside = "code" /\ Char(at) = ";")
    /\ Scan(1, inside, One)

EndOfText ==
    /\ at > Len(text)
    /\ statements' = Pushed
    /\ wholeRead' = TRUE
    /\ UNCHANGED <<text, at, inside, current>>

SplitNext ==
    \/ at <= Len(text) /\ (Comment \/ OpenComment \/ Quote \/ Semicolon \/ Other)
    \/ ~wholeRead /\ EndOfText

SplitSpec == SplitInit /\ [][SplitNext]_splitVars

----------------------------------------------------------------------------
(* The statements of a text, by what SQL says of its tokens *)

First(t, S) == IF S = {} THEN Len(t) ELSE Min(S)

\* Where a token that begins at i may end, if it is a comment or a literal.
BeginsWith(t, i, a, b) == Letter(t, i) = a /\ Letter(t, i + 1) = b
QuotesAfter(t, i, j) == {k \in i + 1 .. j : t[k] = t[i]}
LineEnds(t, i) == {j \in i + 1 .. Len(t) : Letter(t, j + 1) = Newline}
BlockEnds(t, i) == {j \in i + 3 .. Len(t) : t[j] = "/" /\ t[j - 1] = "*"}
LiteralEnds(t, i) == {j \in i + 1 .. Len(t) :
    t[j] = t[i] /\ Letter(t, j + 1) # t[i] /\ Cardinality(QuotesAfter(t, i, j)) % 2 = 1}

\* The last position of the token that begins at i.
TokenEnd(t, i) ==
    CASE BeginsWith(t, i, "-", "-") -> First(t, LineEnds(t, i))
      [] BeginsWith(t, i, "/", "*") -> First(t, BlockEnds(t, i))
      [] Letter(t, i) \in Quotes -> First(t, LiteralEnds(t, i))
      [] OTHER -> i

\* A token begins where the text does, and where another one has ended.
Lexemes(t) ==
    LET begins[i \in 1 .. Len(t)] ==
            i = 1 \/ \E j \in 1 .. i - 1 : begins[j] /\ TokenEnd(t, j) = i - 1
    IN  {i \in DOMAIN t : begins[i]}

IsComment(t, i) == BeginsWith(t, i, "-", "-") \/ BeginsWith(t, i, "/", "*")
Kept(t) == UNION {i .. TokenEnd(t, i) : i \in {j \in Lexemes(t) : ~IsComment(t, j)}}

\* What lies between two semicolons next to each other, without the blanks at
\* its ends.
Borders(t) == {i \in Lexemes(t) : t[i] = ";"} \cup {0, Len(t) + 1}
Neighbours(t) == {p \in Borders(t) \X Borders(t) :
                   p[1] < p[2] /\ \A c \in Borders(t) : c <= p[1] \/ p[2] <= c}
Trimmed(t, S) ==
    {i \in S : \E a, b \in S : a <= i /\ i <= b /\ ~IsBlank(t, a) /\ ~IsBlank(t, b)}
BetweenBorders(t, p) == Trimmed(t, Kept(t) \cap (p[1] + 1 .. p[2] - 1))
Statements(t) == {BetweenBorders(t, p) : p \in Neighbours(t)} \ {{}}

SplitTypeOK ==
    /\ inside \in Places
    /\ at \in 1 .. MaxText + 2
    /\ wholeRead \in BOOLEAN

\* When the text has been read its statements have been found, no more and no
\* fewer, in their order, whole and without their comments.
InOrder(found) ==
    \A i, j \in DOMAIN found : \A k \in DOMAIN found[i], l \in DOMAIN found[j] :
        i < j \/ (i = j /\ k < l) => found[i][k] < found[j][l]
StatementsRight ==
    wholeRead => {ToSet(statements[i]) : i \in DOMAIN statements} = Statements(text)
                 /\ InOrder(statements)
=============================================================================
