------------------------------ MODULE FrontEnd ------------------------------
(***************************************************************************)
(* The front end of the driver: a text is scanned into tokens, the tokens  *)
(* are parsed into a tree.  Some texts are just characters, others are     *)
(* scripts, of which the tree is known beforehand.                         *)
(***************************************************************************)
EXTENDS Lexing, Grammar

CONSTANTS
  Texts,    \* texts that are characters
  Scripts   \* statement lists whose texts are parsed as well

ASSUME FrontEndAssumption == \A text \in Texts : ~ Misread(text)

VARIABLES
  script,   \* the script of which mSource is the text, or NoScript
  tree      \* what the parser read, or Unparsed

vars == <<lexVars, script, tree>>

NoScript == <<>>
Unparsed == <<>>

Init ==
  /\ script \in Scripts \cup {NoScript}
  /\ LexInit(IF script = NoScript THEN Texts ELSE {TextOf(Written(script))})
  /\ tree = Unparsed

Scan == ScanToken /\ UNCHANGED <<script, tree>>

ParseTokens ==
  /\ Scanned /\ script # NoScript /\ tree = Unparsed
  /\ tree' = Parse(Tokens)
  /\ UNCHANGED <<lexVars, script>>

Next == Scan \/ ParseTokens

Spec == Init /\ [][Next]_vars

-----------------------------------------------------------------------------
(* The position is in the text, and there are no more tokens than          *)
(* characters read (Lexer.cpp:60).                                         *)
TypeOK ==
  /\ mCurPos \in 0..Len(mSource) /\ mLine \in 1..(mCurPos + 1) /\ mColumn \in 1..(mCurPos + 2)
  /\ lexFailed \in BOOLEAN
  /\ Len(mTokens) <= mCurPos
  /\ \A k \in DOMAIN mTokens : mTokens[k].kind \in Symbols \cup Keywords \cup {"IDENTIFIER", "NUMBER", "STR", "CHARACTER"}

(* Every step of the scanner reads the longest piece of text that is one,  *)
(* and appends the token it stands for: the order in which ScanToken tries *)
(* the characters of an operator, and where it stops in a number, a word   *)
(* or a comment, leave nothing of it behind and take nothing of what       *)
(* follows (Lexer.cpp:76).                                                 *)
LongestPiece ==
  [][LET piece == Substr(mCurPos, mCurPos')
         new   == SubSeq(mTokens', Len(mTokens) + 1, Len(mTokens'))
     IN  mCurPos' # mCurPos /\ (\E to \in (mCurPos + 1)..Len(mSource) : IsLexeme(Substr(mCurPos, to)))
         => /\ IsLexeme(piece)
            /\ \A to \in (mCurPos' + 1)..Len(mSource) : ~ IsLexeme(Substr(mCurPos, to))
            /\ [k \in DOMAIN new |-> [kind |-> new[k].kind, literal |-> new[k].literal]] = TokensOf(piece)]_lexVars

(* The text of a tree is parsed into that tree: operators group by their   *)
(* level and side as documented, whatever stands next to them, statements  *)
(* and declarations end where they should (Parser.cpp:904, Parser.h:12).   *)
ParsedAsWritten ==
  tree # Unparsed => tree.i # 0 /\ UngroupedAll(tree.n) = script

=============================================================================
