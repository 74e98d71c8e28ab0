------------------------------- MODULE Lexing -------------------------------
(***************************************************************************)
(* The scanner: a text, a character at a time, into tokens.                *)
(*                                                                         *)
(* A text is a sequence of characters, each a string of one; positions     *)
(* count from 0 as in the source.  One action per kind of thing a token    *)
(* can begin with, each the whole of a call of Lexer::ScanToken.           *)
(*                                                                         *)
(* What a text consists of is defined by itself (IsLexeme), without the    *)
(* order in which the scanner looks at characters.                         *)
(***************************************************************************)
EXTENDS Integers, Sequences, SequencesExt, FiniteSetsExt

CONSTANTS
  Letters,  \* the characters that are letters, `_' and those beyond ASCII
  Digits    \* the digits

VARIABLES
  mSource,   \* the text
  mCurPos,   \* how many of its characters have been read
  mLine,     \* the line of the next character, as the scanner counts,
  mColumn,   \* ... and its column
  mTokens,   \* the tokens so far
  lexFailed  \* an error has been reported and the process has ended

lexVars == <<mSource, mCurPos, mLine, mColumn, mTokens, lexFailed>>

Keywords ==
  {"let", "if", "else", "true", "false", "null", "while", "for", "fn", "class", "this", "base",
   "public", "protected", "private", "return", "static", "const", "break", "continue", "import",
   "module", "switch", "default", "match", "enum", "u8", "u16", "u32", "u64", "i8", "i16", "i32",
   "i64", "f32", "f64", "bool", "char", "void", "any", "as", "new", "struct"}

(* A sequence of characters as one string. *)
Joined(chars) == FoldLeft(LAMBDA l, r : l \o r, "", chars)

(* The character at a position, and a null character at the end. *)
CharAt(p) == IF p < Len(mSource) THEN mSource[p + 1] ELSE "NUL"

(* The characters from one position to before another: substr. *)
Substr(from, to) == SubSeq(mSource, from + 1, to)

(* The kind of a token that is a symbol or a keyword is named by its text. *)
NewToken(kind, literal, line, column, to) ==
  [kind |-> kind, literal |-> literal, line |-> line, column |-> column - Len(literal), pos |-> to - Len(literal)]

(* Mutant of Following: `<<=' and `>>=' are not looked for. *)
FollowingNoShift(symbol) ==
  CASE symbol \in {"+", "-"} -> {"=", symbol}
    [] symbol \in {"&", "|"} -> {symbol, "="}
    [] symbol \in {"<", ">"} -> {"=", symbol}
    [] symbol \in {"*", "/", "%", "!", "^", "="} -> {"="}
    [] symbol = "(" -> {"{"}
    [] symbol = "}" -> {")"}
    [] symbol \in {".", ".."} -> {"."}
    [] OTHER -> {}

(* What may come after a symbol to make a longer one. *)
Following(symbol) ==
  CASE symbol \in {"+", "-"} -> {"=", symbol}
    [] symbol \in {"&", "|"} -> {symbol, "="}
    [] symbol \in {"<", ">"} -> {"=", symbol}
    [] symbol \in {"*", "/", "%", "!", "^", "=", "<<", ">>"} -> {"="}
    [] symbol = "(" -> {"{"}
    [] symbol = "}" -> {")"}
    [] symbol \in {".", ".."} -> {"."}
    [] OTHER -> {}

SymbolChars ==
  {"(", ")", "[", "]", "{", "}", ".", ",", ":", ";", "~", "?", "+", "-", "*", "/", "%", "!", "&",
   "|", "^", "<", ">", "="}

(* What the scanner passes over, and what begins a string or a character. *)
Blanks == {" ", "\t", "\r"}
Quotes == {"\"", "'"}

ASSUME LexingAssumption ==
  /\ Letters \cap Digits = {}
  /\ (Letters \cup Digits) \cap (SymbolChars \cup Blanks \cup Quotes \cup {"\n"}) = {}

(* Where the symbol that begins at a position ends: the nested tests of ScanToken. *)
SymbolEnd(p) ==
  LET one == CharAt(p)
      two == one \o CharAt(p + 1)
  IN  IF CharAt(p + 1) \notin Following(one) THEN p + 1
      ELSE IF CharAt(p + 2) \notin Following(two) THEN p + 2
      ELSE p + 3

(* The first position from p on whose character is none of these. *)
SkipWhile(p, chars) == Min({q \in p..Len(mSource) : q = Len(mSource) \/ CharAt(q) \notin chars})

(* The first position from p on whose character is one of these. *)
SkipTo(p, chars) == Min({q \in p..Len(mSource) : q = Len(mSource) \/ CharAt(q) \in chars})

(* The end of a block comment whose beginning has been read.  A character  *)
(* is read before the first test, and a `*' that ends nothing is read      *)
(* without a look at what comes after it.                                  *)
BlockEnd(p) ==
  LET end[q \in 0..Len(mSource)] ==
        IF q = Len(mSource) THEN q
        ELSE IF CharAt(q + 1) # "*" THEN end[q + 1]
        ELSE IF CharAt(q + 2) = "/" THEN q + 3
        ELSE end[q + 2]
  IN  end[p]

(* Line and column after the characters up to `to': a line break inside a  *)
(* comment or a string sets the column before the break is read.           *)
Breaks(from, to) == {p \in from..(to - 1) : CharAt(p) = "\n"}

(* Mutant of LineAfter: comments and strings do not count their breaks. *)
LineAfterUncounted(to) == mLine

LineAfter(to) == mLine + Cardinality(Breaks(mCurPos, to))

ColumnAfter(to) ==
  IF Breaks(mCurPos, to) = {} THEN mColumn + to - mCurPos
  ELSE 1 + to - Max(Breaks(mCurPos, to))

(* Reads the characters up to `to' and appends these tokens. *)
Advance(to, tokens) ==
  /\ mCurPos' = to
  /\ mLine' = LineAfter(to)
  /\ mColumn' = ColumnAfter(to)
  /\ mTokens' = mTokens \o tokens
  /\ UNCHANGED <<mSource, lexFailed>>

Fail == lexFailed' = TRUE /\ UNCHANGED <<mSource, mCurPos, mLine, mColumn, mTokens>>

Scanning == ~ lexFailed /\ mCurPos < Len(mSource)

-----------------------------------------------------------------------------
LexInit(texts) ==
  /\ mSource \in texts
  /\ mCurPos = 0 /\ mLine = 1 /\ mColumn = 1
  /\ mTokens = <<>>
  /\ lexFailed = FALSE

Blank ==
  /\ Scanning /\ CharAt(mCurPos) \in Blanks
  /\ Advance(mCurPos + 1, <<>>)

NewLine ==
  /\ Scanning /\ CharAt(mCurPos) = "\n"
  /\ mCurPos' = mCurPos + 1
  /\ mLine' = mLine + 1 /\ mColumn' = 1
  /\ UNCHANGED <<mSource, mTokens, lexFailed>>

LineComment ==
  /\ Scanning /\ CharAt(mCurPos) = "/" /\ CharAt(mCurPos + 1) = "/"
  /\ Advance(SkipTo(mCurPos + 2, {"\n"}), <<>>)

BlockComment ==
  /\ Scanning /\ CharAt(mCurPos) = "/" /\ CharAt(mCurPos + 1) = "*"
  /\ Advance(BlockEnd(mCurPos + 2), <<>>)

SymbolTokens(to) ==
  LET symbol      == Joined(Substr(mCurPos, to))
      token(kind) == NewToken(kind, Substr(mCurPos, to), mLine, ColumnAfter(to), to)
  IN  IF symbol = "%=" THEN <<token("%="), token("%")>> ELSE <<token(symbol)>>

Symbol ==
  /\ Scanning /\ CharAt(mCurPos) \in SymbolChars
  /\ CharAt(mCurPos) = "/" => CharAt(mCurPos + 1) \notin {"/", "*"}
  /\ LET to == SymbolEnd(mCurPos)
     IN  IF Joined(Substr(mCurPos, to)) = ".." THEN Fail ELSE Advance(to, SymbolTokens(to))

(* Mutant of Str: the second quote is read where the text has ended, too. *)
StrUnended ==
  /\ Scanning /\ CharAt(mCurPos) = "\""
  /\ LET end == SkipTo(mCurPos + 1, {"\""})
         to  == end + 1
     IN  Advance(to, <<NewToken("STR", Substr(mCurPos + 1, to - 1), LineAfter(to), ColumnAfter(to), to)>>)

(* A string ends at its quote or with the text; its token has what is      *)
(* between the quotes, one character less where the second is missing.     *)
Str ==
  /\ Scanning /\ CharAt(mCurPos) = "\""
  /\ LET end == SkipTo(mCurPos + 1, {"\""})
         to  == IF end < Len(mSource) THEN end + 1 ELSE end
     IN  Advance(to, <<NewToken("STR", Substr(mCurPos + 1, to - 1), LineAfter(to), ColumnAfter(to), to)>>)

(* The character after the quote is the token, whatever comes after it is  *)
(* taken for the second quote.                                             *)
Character ==
  /\ Scanning /\ CharAt(mCurPos) = "'"
  /\ LET to  == Min({mCurPos + 2, Len(mSource)})
         end == Min({mCurPos + 3, Len(mSource)})
     IN  /\ mTokens' = Append(mTokens, NewToken("CHARACTER", Substr(mCurPos + 1, to), mLine, mColumn + to - mCurPos, to))
         /\ mCurPos' = end
         /\ mColumn' = mColumn + end - mCurPos
         /\ UNCHANGED <<mSource, mLine, lexFailed>>

Number ==
  /\ Scanning /\ CharAt(mCurPos) \in Digits
  /\ LET whole == SkipWhile(mCurPos, Digits)
         to    == IF CharAt(whole) # "." THEN whole
                  ELSE IF CharAt(whole + 1) = "f" THEN whole + 2
                  ELSE SkipWhile(whole + 1, Digits)
     IN  IF to = whole + 1 THEN Fail
         ELSE Advance(to, <<NewToken("NUMBER", Substr(mCurPos, to), mLine, ColumnAfter(to), to)>>)

Identifier ==
  /\ Scanning /\ CharAt(mCurPos) \in Letters
  /\ LET to   == SkipWhile(mCurPos, Letters \cup Digits)
         word == Joined(Substr(mCurPos, to))
         kind == IF word \in Keywords THEN word ELSE "IDENTIFIER"
     IN  Advance(to, <<NewToken(kind, Substr(mCurPos, to), mLine, ColumnAfter(to), to)>>)

Unknown ==
  /\ Scanning
  /\ CharAt(mCurPos) \notin SymbolChars \cup Letters \cup Digits \cup Blanks \cup Quotes \cup {"\n"}
  /\ Fail

ScanToken ==
  \/ Blank \/ NewLine \/ LineComment \/ BlockComment \/ Symbol
  \/ Str \/ Character \/ Number \/ Identifier \/ Unknown

(* The text has been read: the tokens have their END (ScanTokens). *)
Scanned == ~ lexFailed /\ mCurPos = Len(mSource)

Tokens == Append(mTokens, NewToken("END", <<"E", "N", "D">>, mLine, mColumn, mCurPos))

-----------------------------------------------------------------------------
(* The pieces a text consists of, whatever reads it. *)

Symbols ==
  SymbolChars \cup
  {"({", "})", "...", "<<", ">>", "++", "--", "+=", "-=", "*=", "/=", "%=", "&=", "|=", "^=", "<<=",
   ">>=", "==", "<=", ">=", "!=", "&&", "||"}

(* Whether two characters stand at positions i and i + 1 of a sequence. *)
PairAt(l, i, pair) == i \in 1..(Len(l) - 1) /\ l[i] \o l[i + 1] = pair

IsNumber(l) ==
  l[1] \in Digits /\ \E n \in 1..Len(l) :
    LET rest == SubSeq(l, n + 1, Len(l))
    IN  /\ Range(SubSeq(l, 1, n)) \subseteq Digits
        /\ \/ rest \in {<<>>, <<".", "f">>}
           \/ rest[1] = "." /\ Len(rest) > 1 /\ Range(Tail(rest)) \subseteq Digits

IsComment(l) ==
  \/ PairAt(l, 1, "//") /\ "\n" \notin Range(l)
  \/ /\ PairAt(l, 1, "/*")
     /\ {i \in 3..Len(l) : PairAt(l, i, "*/")} = {Len(l) - 1}

IsQuoted(l) ==
  \/ Len(l) > 1 /\ l[1] = "\"" /\ {i \in 2..Len(l) : l[i] = "\""} = {Len(l)}
  \/ Len(l) = 3 /\ l[1] = "'" /\ l[3] = "'"

IsWord(l) == l[1] \in Letters /\ Range(l) \subseteq Letters \cup Digits

IsLexeme(l) ==
  \/ l \in {<<" ">>, <<"\t">>, <<"\r">>, <<"\n">>}
  \/ Len(l) <= 3 /\ Joined(l) \in Symbols
  \/ IsWord(l) \/ IsNumber(l) \/ IsQuoted(l) \/ IsComment(l)

(* The tokens a piece stands for, by kind and text. *)
TokensOf(l) ==
  CASE IsComment(l) \/ l[1] \in {" ", "\t", "\r", "\n"} -> <<>>
    [] IsWord(l) -> <<[kind |-> IF Joined(l) \in Keywords THEN Joined(l) ELSE "IDENTIFIER", literal |-> l]>>
    [] IsNumber(l) -> <<[kind |-> "NUMBER", literal |-> l]>>
    [] IsQuoted(l) -> <<[kind |-> IF l[1] = "'" THEN "CHARACTER" ELSE "STR", literal |-> SubSeq(l, 2, Len(l) - 1)]>>
    [] OTHER -> <<[kind |-> Joined(l), literal |-> l]>>

(* A line break where a character, or its second quote, should be. *)
BreakInQuotes(text, i) == text[i] = "'" /\ \E j \in {i + 1, i + 2} : j <= Len(text) /\ text[j] = "\n"

(* The texts the scanner is known to read otherwise: `%=' becomes two      *)
(* tokens, a `*' right after the beginning of a comment or before its end  *)
(* may hide the end, a comment or a quote may lack its end, and a line     *)
(* break that is taken for a character or for its second quote is not      *)
(* counted.                                                                *)
Misread(text) ==
  \E i \in 1..Len(text) :
    \/ PairAt(text, i, "%=")
    \/ PairAt(text, i, "/*") /\ (PairAt(text, i + 1, "**") \/ \A j \in (i + 2)..Len(text) : ~ PairAt(text, j, "*/"))
    \/ PairAt(text, i, "**") /\ PairAt(text, i + 1, "*/")
    \/ BreakInQuotes(text, i)

(* Where a token says it is, for the messages about it, its text is; its   *)
(* line is one more than the line breaks before, those in comments and     *)
(* strings included, and on a line the columns go with the positions.      *)
(* Strings are left out: their position is taken after the second quote    *)
(* from a length without quotes (Lexer.cpp:342).                           *)
Located ==
  \A k \in DOMAIN mTokens :
    LET t == mTokens[k]
    IN  t.kind # "STR" =>
          /\ Substr(t.pos, t.pos + Len(t.literal)) = t.literal
          /\ t.line = 1 + Cardinality(Breaks(0, t.pos))
          /\ \A j \in 1..(k - 1) :
               mTokens[j].kind # "STR" /\ mTokens[j].line = t.line => t.column - mTokens[j].column = t.pos - mTokens[j].pos

=============================================================================
