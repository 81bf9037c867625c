--------------------------------- MODULE Shell ---------------------------------
(***************************************************************************)
(* A line of the interactive shell (src/src/cli/repl.rs): run_repl trims   *)
(* it and tokenize_line cuts it into words.  A line is typed for a list of *)
(* words, each plain, in quotes or escaped.                                *)
(***************************************************************************)
EXTENDS Integers, Sequences, FiniteSets

CONSTANTS MaxTyped, MaxWords    \* bounds: characters of a word list, words

VARIABLE typed      \* the words that are meant

Chars == {"letter", "blank", "single", "double", "backslash"}
Blank == "blank"    \* for the four kinds of white space

-----------------------------------------------------------------------------
\* open: the characters whose flag is set, in_single_quote, in_double_quote or escaped.
StartOfLine == [tokens |-> << >>, current |-> << >>, open |-> {}]

Taken(s, ch) ==
    [tokens |-> s.tokens, current |-> Append(s.current, ch), open |-> s.open \ {"backslash"}]
Turned(s, ch) == [s EXCEPT !.open = IF ch \in @ THEN @ \ {ch} ELSE @ \cup {ch}]
Flushed(s) == IF s.current = << >> THEN s
              ELSE [s EXCEPT !.tokens = Append(@, s.current), !.current = << >>]

\* One character; a backslash counts within either kind of quotes.
Scan(s, ch) ==
    CASE "backslash" \in s.open -> Taken(s, ch)
      [] /\ "backslash" \notin s.open
         /\ \/ ch = "backslash"
            \/ ch = "single" /\ "double" \notin s.open
            \/ ch = "double" /\ "single" \notin s.open -> Turned(s, ch)
      [] "backslash" \notin s.open /\ ch = Blank /\ s.open = {} -> Flushed(s)
      [] OTHER -> Taken(s, ch)

\* What the characters of a line make of a state.
Scanned(line, start) ==
    LET after[n \in 0..Len(line)] == IF n = 0 THEN start ELSE Scan(after[n - 1], line[n])
    IN  after[Len(line)]

\* tokenize_line: {} is the error about a quote that is not closed; a backslash at the end
\* of the line is forgotten.
TokenizeLine(line) ==
    LET last == Scanned(line, StartOfLine)
    IN  IF last.open \cap {"single", "double"} # {} THEN {} ELSE {Flushed(last).tokens}

Trimmed(line) ==
    LET solid == {i \in DOMAIN line : line[i] # Blank}
    IN  IF solid = {} THEN << >>
        ELSE SubSeq(line, CHOOSE i \in solid : \A j \in solid : i <= j,
                          CHOOSE i \in solid : \A j \in solid : j <= i)

-----------------------------------------------------------------------------
ShellInit == typed = << << >> >>

TypeChar(ch) ==
    /\ Cardinality(UNION {{n} \X DOMAIN typed[n] : n \in DOMAIN typed}) < MaxTyped
    /\ typed' = [typed EXCEPT ![Len(typed)] = Append(@, ch)]
NextWord ==
    /\ typed[Len(typed)] # << >> /\ Len(typed) < MaxWords
    /\ typed' = Append(typed, << >>)

ShellNext == (\E ch \in Chars : TypeChar(ch)) \/ NextWord

ShellSpec == ShellInit /\ [][ShellNext]_typed

-----------------------------------------------------------------------------
(* Properties                                                              *)

Concat(lines) ==
    LET line[n \in 0..Len(lines)] == IF n = 0 THEN << >> ELSE line[n - 1] \o lines[n]
    IN  line[Len(lines)]

Escaped(ch, special) == IF ch \in special THEN <<"backslash", ch>> ELSE <<ch>>
Escape(word, special) == Concat([n \in 1..Len(word) |-> Escaped(word[n], special)])
Quote(word, quote) == <<quote>> \o Escape(word, {"backslash", quote}) \o <<quote>>
Joined(words) == Concat([n \in 1..Len(words) |-> <<Blank>> \o words[n]])

\* Words come out as they were meant, in quotes of either kind or escaped: whatever they
\* consist of, if they are not empty (repl.rs:24-72, 1022).
LinesSplitBack ==
    typed[Len(typed)] # << >> =>
        /\ \A quote \in {"single", "double"} :
             TokenizeLine(Trimmed(Joined([n \in 1..Len(typed) |-> Quote(typed[n], quote)]))) = {typed}
        /\ TokenizeLine(Joined([n \in 1..Len(typed) |-> Escape(typed[n], Chars)])) = {typed}
================================================================================
