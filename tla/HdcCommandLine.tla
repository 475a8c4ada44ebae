--------------------------- MODULE HdcCommandLine ---------------------------
(***************************************************************************)
(* What becomes of a command line on its way from the page to the one who  *)
(* executes it: napi.cpp splits it into arguments, SplitOptionAndCommand   *)
(* of host/main.cpp joins them again, and SplitCommandToArgs of base.cpp   *)
(* splits the joined line.  A text is a sequence of characters.            *)
(***************************************************************************)
EXTENDS Integers, Sequences, SequencesExt

CONSTANTS
    Registered,    \* the commands of IsRegisterCommand, of one word or two
    Transfers,     \* those of AppendCwdWhenTransfer
    WaitFor,       \* "wait": what begins with it is a command
    Remote         \* "remote -cwd" and the quoted directory

Quote == "q"
Space == "_"
Tab == "t"         \* a tab, a line feed or a carriage return

Joined(parts) ==   \* with a space between them
    FoldLeft(LAMBDA line, part : line \o (IF line = <<>> THEN <<>> ELSE <<Space>>) \o part, <<>>, parts)

-----------------------------------------------------------------------------
\* napi.cpp: quotes join what they enclose; an argument of nothing is none.
parseCommandLine(cmd) ==
    LET Ended(s) == IF s.arg = <<>> THEN s ELSE [s EXCEPT !.args = Append(@, s.arg), !.arg = <<>>]
        Step(s, ch) ==
            IF ch = Quote THEN [s EXCEPT !.inQuotes = ~@]
            ELSE IF ch = Space /\ ~s.inQuotes THEN Ended(s)
            ELSE [s EXCEPT !.arg = Append(@, ch)]
    IN  Ended(FoldLeft(Step, [args |-> <<>>, arg |-> <<>>, inQuotes |-> FALSE], cmd)).args

-----------------------------------------------------------------------------
\* How many of the two words are a command: 0, 1 or 2.
IsRegisterCommand(cmd, next) ==
    IF cmd \o <<Space>> \o next \in Registered THEN 2
    ELSE IF cmd \in Registered \/ IsPrefix(WaitFor, cmd) THEN 1 ELSE 0

AppendCwdWhenTransfer(cmd) ==
    IF cmd \in Transfers THEN Joined(<<cmd, Remote>>) ELSE cmd

\* Mutant of Quoted: an argument with a space goes as it is.
QuotedNever(arg) == arg

Quoted(arg) ==
    IF Space \in Range(arg) THEN <<Quote>> \o arg \o <<Quote>> ELSE arg

\* Where the command begins; 0 if there is none.
CommandAt(args) ==
    LET Next(i) == IF i = Len(args) THEN <<>> ELSE args[i + 1]
        at == {i \in DOMAIN args : IsRegisterCommand(args[i], Next(i)) > 0}
    IN  IF at = {} THEN 0 ELSE CHOOSE i \in at : \A j \in at : i <= j

\* The options before the command, the first of them quoted, and the command
\* with what follows it.
SplitOptionAndCommand(args) ==
    LET at   == CommandAt(args)
        two  == at # 0 /\ at < Len(args) /\ IsRegisterCommand(args[at], args[at + 1]) = 2
        name == IF two THEN args[at] \o <<Space>> \o args[at + 1] ELSE args[at]
        rest == SubSeq(args, at + (IF two THEN 2 ELSE 1), Len(args))
        opts == IF at = 0 THEN args ELSE SubSeq(args, 1, at - 1)
    IN  [option  |-> Joined([i \in DOMAIN opts |-> IF i = 1 THEN <<Quote>> \o opts[i] \o <<Quote>> ELSE opts[i]]),
         command |-> IF at = 0 THEN <<>>
                     ELSE Joined(<<AppendCwdWhenTransfer(name)>> \o [i \in DOMAIN rest |-> Quoted(rest[i])])]

-----------------------------------------------------------------------------
\* base.cpp: the arguments lie one behind the other in temp, each pointed to
\* by argv; isSpace says that the next character begins one.
SplitCommandToArgs(line) ==
    LET Begun(s) == IF s.isSpace THEN [s EXCEPT !.argv = Append(@, <<>>), !.isSpace = FALSE] ELSE s
        Added(s, ch) == [s EXCEPT !.argv[Len(s.argv)] = Append(@, ch)]
        Step(s, ch) ==
            IF s.isQuoted
            THEN IF ch = Quote THEN [s EXCEPT !.isQuoted = FALSE] ELSE Added(s, ch)
            ELSE IF ch = Quote THEN [Begun(s) EXCEPT !.isQuoted = TRUE]
            ELSE IF ch \in {Space, Tab} THEN [s EXCEPT !.isSpace = TRUE]
            ELSE Added(Begun(s), ch)
    IN  FoldLeft(Step, [argv |-> <<>>, isQuoted |-> FALSE, isSpace |-> TRUE], line).argv
=============================================================================
