---------------------------- MODULE SqlTokenizer ----------------------------
(***************************************************************************)
(* SqlTokenizer.  A text is a sequence of maximal runs of characters:      *)
(* whitespace, words (a letter, then letters, digits and underscores),     *)
(* digits, and every other character alone.  A date in a string is a run   *)
(* of its own, for the characters of YYYY-MM-DD.                           *)
(*                                                                         *)
(* A token has a kind, what its text says, and the position after it.      *)
(***************************************************************************)
EXTENDS Expressions, TLC

Space == [run |-> "space"]
WordRun(text) == [run |-> "word", text |-> text]
Digits(n) == [run |-> "digits", n |-> n]
DateRun(days) == [run |-> "date", n |-> days]
Char(ch) == [run |-> "char", ch |-> ch]

\* str::to_uppercase, for the spellings that the instances use.
LowerCase ==
    [select |-> "SELECT", from |-> "FROM", where |-> "WHERE", group |-> "GROUP", by |-> "BY",
     having |-> "HAVING", order |-> "ORDER", limit |-> "LIMIT", as |-> "AS", and |-> "AND",
     or |-> "OR", sum |-> "SUM", avg |-> "AVG", double |-> "DOUBLE", date |-> "DATE", days |-> "DAYS"]

to_uppercase(text) == IF text \in DOMAIN LowerCase THEN LowerCase[text] ELSE text

\* The keywords the parser tells apart, and some of the others.
Keywords ==
    {"SELECT", "FROM", "WHERE", "GROUP", "BY", "HAVING", "ORDER", "LIMIT", "AS", "ASC", "DESC",
     "AND", "OR", "CAST", "DATE", "INTERVAL", "MIN", "MAX", "SUM", "AVG", "COUNT", "INT", "DOUBLE",
     "NOT", "NULL", "IS", "IN", "DISTINCT"}

Symbols ==
    {"(", ")", "{", "}", "[", "]", ";", ",", ".", "..", "+", "-", "*", "/", "?", "=", ">", "<", "!",
     "~", "^", "%", ":", "::", ":=", "<=", ">=", "<=>", "<>", "!=", "!>", "!<", "&", "|", "&&", "||",
     "<<", ">>", "@", "#"}

IsChar(r, chars) == r.run = "char" /\ r.ch \in chars
is_symbol(r) == IsChar(r, Symbols)

Token(kind, text, end) == [kind |-> kind, text |-> text, end |-> end]
PanicToken == Token("panic", "", 0)

\* The first of the wanted positions from start on, or the one after the text.
index_of_first(chars, start, wanted) ==
    Min({i \in wanted : i >= start} \cup {Len(chars) + 1})

skip_whitespace(chars, start) ==
    index_of_first(chars, start, {i \in DOMAIN chars : chars[i].run # "space"})

\* Digits, then perhaps a point and digits of a fraction, of which there is at most one here.
scan_number(chars, start) ==
    LET digits(i) == i <= Len(chars) /\ chars[i].run = "digits"
        point == IF digits(start) THEN start + 1 ELSE start
        whole == IF digits(start) THEN chars[start].n ELSE 0
    IN  IF point > Len(chars) \/ ~IsChar(chars[point], {"."}) THEN Token("long", whole, point)
        ELSE IF digits(point + 1)
        THEN Token("double", Double(10 * whole + chars[point + 1].n, 10), point + 2)
        ELSE Token("double", IF digits(start) THEN Double(whole, 1) ELSE Panic, point + 1)

\* ORDER and GROUP are keywords only before BY, or before a word that begins with it.
process_ambiguous_identifier(chars, end) ==
    LET next == skip_whitespace(chars, end)
        word == chars[next].text
    IN  /\ next <= Len(chars) /\ chars[next].run = "word"
        /\ Len(word) >= 2 /\ to_uppercase(SubSeq(word, 1, 2)) = "BY"

\* The token of a word, or of what back-quotes enclose: one word here.
scan_identifier(chars, start) ==
    IF chars[start].run = "char"
    THEN LET end == index_of_first(chars, start + 1,
                                   {i \in DOMAIN chars : IsChar(chars[i], {"backquote"})})
         IN  IF end > Len(chars) THEN PanicToken
             ELSE Token("identifier", chars[start + 1].text, end + 1)
    ELSE LET text == chars[start].text
             upper == to_uppercase(text)
             keyword == IF upper \in {"ORDER", "GROUP"}
                        THEN process_ambiguous_identifier(chars, start + 1) ELSE upper \in Keywords
         IN  Token(IF keyword THEN "keyword" ELSE "identifier", text, start + 1)

\* The longest symbol that the run of symbol characters starts with.
scan_symbol(chars, start) ==
    LET end == index_of_first(chars, start, {i \in DOMAIN chars : ~is_symbol(chars[i])})
        text(e) == FoldLeft(LAMBDA t, r : t \o r.ch, "", SubSeq(chars, start, e - 1))
        fits == {e \in (start + 1)..end : text(e) \in Symbols}
    IN  Token("symbol", text(Max(fits)), Max(fits))

\* What a string's quotes enclose, with two of them for one.
RECURSIVE scan_string(_, _, _, _)
scan_string(chars, i, quote, content) ==
    CASE i > Len(chars) -> PanicToken
      [] i <= Len(chars) /\ chars[i] = quote ->
           IF i + 1 <= Len(chars) /\ chars[i + 1] = quote
           THEN scan_string(chars, i + 2, quote, Append(content, quote))
           ELSE Token("string", content, i + 1)
      [] i <= Len(chars) /\ chars[i] # quote ->
           scan_string(chars, i + 1, quote, Append(content, chars[i]))

\* Mutant: the character after the closing quote is skipped.
scan_chars_SkipsOne(chars, start) ==
    LET token == scan_string(chars, start + 1, chars[start], <<>>)
    IN  [token EXCEPT !.end = @ + 1]

scan_chars(chars, start) == scan_string(chars, start + 1, chars[start], <<>>)

next_token(chars, i) ==
    LET r == chars[i]
    IN  CASE r.run = "word" \/ IsChar(r, {"backquote"}) -> scan_identifier(chars, i)
          [] r.run = "digits" \/ IsChar(r, {"."}) -> scan_number(chars, i)
          [] is_symbol(r) /\ ~IsChar(r, {"."}) -> scan_symbol(chars, i)
          [] IsChar(r, {"'", "\""}) -> scan_chars(chars, i)
          [] OTHER -> PanicToken

\* The tokens from i on; the last is PanicToken if the tokenizer panics.
RECURSIVE tokens_from(_, _)
tokens_from(chars, i) ==
    LET start == skip_whitespace(chars, i)
    IN  IF start > Len(chars) THEN <<>>
        ELSE LET token == next_token(chars, start)
             IN  IF token.kind = "panic" THEN <<token>> ELSE <<token>> \o tokens_from(chars, token.end)

tokenize(chars) == tokens_from(chars, 1)
===============================================================================
