------------------------------- MODULE Tokens -------------------------------
(***************************************************************************)
(* The tokens the parser sees.  A token is a string that stands for its    *)
(* kind and its text at once; the text of identifiers and literals is      *)
(* reduced to a few names.  A text ends with Eof, as the lexer's does.     *)
(***************************************************************************)
EXTENDS Naturals, Sequences

Eof == "<eof>"

\* The reserved words.  break, continue, exit, absolute, assembler and out are
\* not among them: the lexer makes identifiers of them, and the parser's
\* branches for these words as keywords are never taken.
Keywords ==
  {"and", "array", "asm", "begin", "case", "class", "property", "protected", "published",
   "const", "constructor", "destructor", "div", "do", "downto", "try", "except", "finally",
   "raise", "else", "end", "external", "far", "file", "for", "forward", "function", "goto",
   "halt", "if", "implementation", "in", "inherited", "initialization", "finalization",
   "inline", "interface", "interrupt", "label", "mod", "near", "nil", "operator", "not",
   "object", "of", "or", "override", "abstract", "static", "private", "public", "virtual",
   "packed", "procedure", "program", "record", "repeat", "set", "shl", "shr", "string",
   "then", "to", "type", "unit", "until", "uses", "var", "while", "with", "xor"}

Numbers == {"0", "1", "2", "3"}

Literals == {"'s'", "'t'"}

Reals == {"1.5"}

Symbols == {"+", "-", "*", "/", "=", "<>", "<", "<=", ">", ">=", ":=", "=>", ":", ";", ",",
            ".", "..", "(", ")", "[", "]", "^", "@"}

Kind(t) == CASE t = Eof -> "eof"
             [] t \in Keywords -> "keyword"
             [] t \in Numbers -> "int"
             [] t \in Literals -> "str"
             [] t \in Reals -> "real"
             [] t \in Symbols -> "symbol"
             [] OTHER -> "ident"
=============================================================================
