------------------------------ MODULE ShellParse -----------------------------
(***************************************************************************)
(* user/sh.c: from a line to the tree of commands that runcmd() runs.  A   *)
(* line is a sequence of characters, with one blank for all the blanks.    *)
(* A word is the pair of indices q and eq     *)
(* that gettoken() sets; nulterminate() ends it in the line itself.        *)
(*                                                                         *)
(* What the functions of the parser return is the set of their result, a   *)
(* command and s, the value of *ps after it.  It is empty after panic().   *)
(***************************************************************************)
EXTENDS Integers, Sequences, SequencesExt, FiniteSets

CONSTANTS MAXARGS,
          Letter,         \* the characters of words
          Word,           \* bounds of ParseExact: the words, and how many
          MaxTokens       \* tokens a line has

Blank == " "
Symbol == {"<", "|", ">", "&", ";", "(", ")"}
Nul == "nul"

\* *s, in a string that ends at es.
At(l, s) == IF s > Len(l) THEN Nul ELSE l[s]

\* Where the characters of C that begin at s end.
Skip(l, s, C) ==
  CHOOSE t \in s..(Len(l) + 1) :
    /\ \A k \in s..(t - 1) : l[k] \in C
    /\ At(l, t) \notin C

\* peek(): whether the next character that is no blank is one of toks.
Peek(l, s, toks) == At(l, Skip(l, s, {Blank})) \in toks

\* What gettoken() reads at q: its value and eq.
TokenAt(l, q) ==
  CASE At(l, q) = Nul -> <<Nul, q>>
    [] At(l, q) = ">" /\ At(l, q + 1) = ">" -> <<"+", q + 2>>
    [] At(l, q) \in Letter -> <<"a", Skip(l, q, Letter)>>
    [] OTHER -> <<At(l, q), q + 1>>

\* gettoken(): its value, the word, and the place after it and its blanks.
Gettoken(l, s) ==
  {[tok |-> t[1], word |-> <<q, t[2]>>, s |-> Skip(l, t[2], {Blank})] :
     <<q, t>> \in {<<k, TokenAt(l, k)>> : k \in {Skip(l, s, {Blank})}}}

\* The constructors.
Execcmd(argv) == [type |-> "EXEC", argv |-> argv]

Redircmd(subcmd, file, tok) ==
  [type |-> "REDIR", cmd |-> subcmd, file |-> file, mode |-> tok, fd |-> IF tok = "<" THEN 0 ELSE 1]

Pipecmd(left, right) == [type |-> "PIPE", left |-> left, right |-> right]

Listcmd(left, right) == [type |-> "LIST", left |-> left, right |-> right]

Backcmd(subcmd) == [type |-> "BACK", cmd |-> subcmd]

\* A command inside the redirections rs, a later one around an earlier one.
Redirect(c, rs) == FoldLeft(LAMBDA d, r : Redircmd(d, r.file, r.tok), c, rs)

RECURSIVE Parseredirs(_, _, _)

\* parseredirs(), which adds to the redirections rs.
Parseredirs(rs, l, s) ==
  IF ~Peek(l, s, {"<", ">"}) THEN {[redirs |-> rs, s |-> s]}
  ELSE UNION {UNION {Parseredirs(Append(rs, [tok |-> o.tok, file |-> f.word]), l, f.s) :
                       f \in {g \in Gettoken(l, o.s) : g.tok = "a"}} :
                o \in Gettoken(l, s)}

RECURSIVE Arguments(_, _, _, _)

\* The loop of parseexec().  The words go to the command inside all the
\* redirections, those that follow them included.
Arguments(argv, rs, l, s) ==
  IF Peek(l, s, {"|", ")", "&", ";", Nul}) THEN {[cmd |-> Redirect(Execcmd(argv), rs), s |-> s]}
  ELSE UNION {UNION {Arguments(Append(argv, t.word), r.redirs, l, r.s) :
                       r \in Parseredirs(rs, l, t.s)} :
                t \in {u \in Gettoken(l, s) : u.tok = "a" /\ Len(argv) + 1 < MAXARGS}}

RECURSIVE Parseline(_, _)

Parseblock(l, s) ==
  UNION {{[cmd |-> Redirect(c.cmd, r.redirs), s |-> r.s] :
            r \in UNION {Parseredirs(<<>>, l, t.s) : t \in Gettoken(l, c.s)}} :
           c \in {d \in UNION {Parseline(l, t.s) : t \in Gettoken(l, s)} : Peek(l, d.s, {")"})}}

Parseexec(l, s) ==
  IF Peek(l, s, {"("}) THEN Parseblock(l, s)
  ELSE UNION {Arguments(<<>>, r.redirs, l, r.s) : r \in Parseredirs(<<>>, l, s)}

RECURSIVE Parsepipe(_, _)

Parsepipe(l, s) ==
  UNION {IF ~Peek(l, c.s, {"|"}) THEN {c}
         ELSE {[d EXCEPT !.cmd = Pipecmd(c.cmd, @)] :
                 d \in UNION {Parsepipe(l, t.s) : t \in Gettoken(l, c.s)}} :
           c \in Parseexec(l, s)}

RECURSIVE Background(_, _)

\* The loop of parseline().
Background(c, l) ==
  IF ~Peek(l, c.s, {"&"}) THEN {c}
  ELSE UNION {Background([cmd |-> Backcmd(c.cmd), s |-> t.s], l) : t \in Gettoken(l, c.s)}

Parseline(l, s) ==
  UNION {IF ~Peek(l, c.s, {";"}) THEN {c}
         ELSE {[d EXCEPT !.cmd = Listcmd(c.cmd, @)] :
                 d \in UNION {Parseline(l, t.s) : t \in Gettoken(l, c.s)}} :
           c \in UNION {Background(d, l) : d \in Parsepipe(l, s)}}

RECURSIVE NulterminateOuter(_)

\* Mutant of Nulterminate: what a redirection is of is forgotten.
NulterminateOuter(c) ==
  CASE c.type = "EXEC"  -> {a[2] : a \in ToSet(c.argv)}
    [] c.type = "REDIR" -> {c.file[2]}
    [] c.type = "BACK"  -> NulterminateOuter(c.cmd)
    [] OTHER -> NulterminateOuter(c.left) \cup NulterminateOuter(c.right)

RECURSIVE Nulterminate(_)

\* nulterminate(): the places where it writes a NUL.
Nulterminate(c) ==
  CASE c.type = "EXEC"  -> {a[2] : a \in ToSet(c.argv)}
    [] c.type = "REDIR" -> Nulterminate(c.cmd) \cup {c.file[2]}
    [] c.type = "BACK"  -> Nulterminate(c.cmd)
    [] OTHER -> Nulterminate(c.left) \cup Nulterminate(c.right)

\* The string at q in a line that has a NUL at each place of nuls.
String(l, nuls, q) ==
  SubSeq(l, q, CHOOSE t \in q..Len(l) : /\ t + 1 \in nuls \cup {Len(l) + 1}
                                        /\ \A k \in q..t : k \notin nuls)

RECURSIVE Strings(_, _, _)

\* The tree c of the line l, with for every word the string that it is.
Strings(c, l, nuls) ==
  CASE c.type = "EXEC"  -> [c EXCEPT !.argv = [k \in DOMAIN @ |-> String(l, nuls, @[k][1])]]
    [] c.type = "REDIR" -> [c EXCEPT !.cmd = Strings(@, l, nuls), !.file = String(l, nuls, @[1])]
    [] c.type = "BACK"  -> [c EXCEPT !.cmd = Strings(@, l, nuls)]
    [] OTHER -> [c EXCEPT !.left = Strings(@, l, nuls), !.right = Strings(@, l, nuls)]

\* parsecmd(), with no leftovers.
Parsecmd(l) ==
  {Strings(c.cmd, l, Nulterminate(c.cmd)) :
     c \in {d \in Parseline(l, 1) : Skip(l, d.s, {Blank}) = Len(l) + 1}}
-----------------------------------------------------------------------------
\* The grammar, by how a sequence of tokens can be split.  A token is one of
\* the symbols, "+" for >>, or "a" for a word, which has a text.
Op == {"<", ">", "+"}
Token == [tok : Symbol \cup {"+"}, text : {<<>>}] \cup [tok : {"a"}, text : Word]

Before(t, k) == SubSeq(t, 1, k - 1)
Behind(t, k) == SubSeq(t, k + 1, Len(t))
Places(t, c) == {k \in DOMAIN t : t[k].tok = c}

\* What t redirects, and its other words.
Files(t) == {k \in DOMAIN t : k > 1 /\ t[k - 1].tok \in Op}

RedirsOf(t) ==
  [k \in 1..Cardinality(Files(t)) |->
     LET f == SetToSortSeq(Files(t), <)[k] IN [tok |-> t[f - 1].tok, file |-> t[f].text]]

WordsOf(t) ==
  LET ws == SetToSortSeq(Places(t, "a") \ Files(t), <) IN [k \in DOMAIN ws |-> t[ws[k]].text]

\* Only words and redirections, each of a word.
Plain(t) ==
  \A k \in DOMAIN t :
    /\ t[k].tok \in Op \cup {"a"}
    /\ t[k].tok \in Op => k < Len(t) /\ t[k + 1].tok = "a"

RECURSIVE LineOf(_)

CommandOf(t) ==
  {Redirect(Execcmd(WordsOf(u)), RedirsOf(u)) :
     u \in {v \in {t} : Plain(v) /\ Len(WordsOf(v)) < MAXARGS}} \cup
  UNION {{Redirect(c, RedirsOf(Behind(t, k))) : c \in LineOf(Before(Behind(t, 1), k - 1))} :
           k \in {j \in Places(t, ")") : /\ t[1].tok = "("
                                         /\ Plain(Behind(t, j))
                                         /\ WordsOf(Behind(t, j)) = <<>>}}

RECURSIVE PipeOf(_)

PipeOf(t) ==
  CommandOf(t) \cup
  UNION {{Pipecmd(c, d) : c \in CommandOf(Before(t, k)), d \in PipeOf(Behind(t, k))} :
           k \in Places(t, "|")}

RECURSIVE JobOf(_)

JobOf(t) ==
  PipeOf(t) \cup
  UNION {{Backcmd(c) : c \in JobOf(Before(t, k))} : k \in Places(t, "&") \cap {Len(t)}}

LineOf(t) ==
  JobOf(t) \cup
  UNION {{Listcmd(c, d) : c \in JobOf(Before(t, k)), d \in LineOf(Behind(t, k))} :
           k \in Places(t, ";")}

\* How a token is written.
Spelling(t) == CASE t.tok = "a" -> t.text [] t.tok = "+" -> <<">", ">">> [] OTHER -> <<t.tok>>

\* The tokens t as a line: with a blank around each, or only where two tokens
\* would be one.
Spaced(t) == FoldLeft(LAMBDA l, x : l \o Spelling(x) \o <<Blank>>, <<Blank>>, t)

Tight(t) ==
  LET Gap(k) == k > 1 /\ \/ t[k - 1].tok = "a" /\ t[k].tok = "a"
                         \/ t[k - 1].tok = ">" /\ t[k].tok \in {">", "+"}
  IN  FlattenSeq([k \in DOMAIN t |-> (IF Gap(k) THEN <<Blank>> ELSE <<>>) \o Spelling(t[k])])

\* parsecmd() accepts the lines of the grammar and no others, and gives each
\* its one tree, whose strings are the words of the line: nulterminate() may
\* overwrite the symbol behind a word, but nothing that is still read.
ParseExact ==
  \A t \in UNION {[1..n -> Token] : n \in 0..MaxTokens} :
    Parsecmd(Spaced(t)) = LineOf(t) /\ Parsecmd(Tight(t)) = LineOf(t)
=============================================================================
