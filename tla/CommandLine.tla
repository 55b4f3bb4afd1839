---------------------------- MODULE CommandLine ----------------------------
(***************************************************************************)
(* The command line of every program: getopt over the arguments, the       *)
(* options of CLBase and of the class the program uses (command_line.h),   *)
(* the refusals of ParseArgs and of the builder's constructor, and the     *)
(* orders MakeGraph then applies one by one (builder.h).                   *)
(*                                                                         *)
(* A word is the sequence of the numbers between its colons, << >> for a   *)
(* word that does not begin with one.                                      *)
(***************************************************************************)
EXTENDS Integers, Sequences, FiniteSets

CONSTANTS
  Programs,      \* a subset of AllPrograms
  Commands(_)    \* the command lines of a program: sequences of clauses

AllPrograms == {"bfs", "bc", "pr", "sssp", "converter"}
None == -1
NoWord == <<None>>

Outputs == {"b", "e", "p", "y", "V"}
Labels == {"x", "q"}

\* get_args_, as each class extends it: the options with a colon, and those without.
WithArgument(p) == {"f", "g", "k", "u", "m", "o", "j"} \union
  (IF p = "converter" THEN Outputs \union Labels
   ELSE {"n", "r"} \union (CASE p = "bc" -> {"i"} [] p = "pr" -> {"i", "t"}
                             [] p = "sssp" -> {"d"} [] OTHER -> {}))
Alone(p) == {"h", "s", "z", "S", "l"} \union (IF p = "converter" THEN {"w"} ELSE {"a", "v"})

VARIABLES
  program, command,
  argv, optind,
  cli,           \* the members of CLBase and of the class derived from it
  ran,           \* the algorithms GenerateMapping has run
  phase

vars == <<program, command, argv, optind, cli, ran, phase>>

\* A clause is an option as the user meant it: opt, and its word if it has one.
Argv(c) ==
  LET tokens[k \in 0 .. Len(c)] ==
        IF k = 0 THEN << >>
        ELSE tokens[k - 1] \o <<[opt |-> c[k].opt, word |-> << >>]>>
               \o (IF c[k].has THEN <<[opt |-> "", word |-> c[k].word]>> ELSE << >>)
  IN  tokens[Len(c)]

Default == [flags |-> {}, number |-> [o \in {"k", "n", "r", "i", "t", "d"} |->
                                        CASE o \in {"k", "n"} -> 16 [] o = "r" -> None [] OTHER -> 1],
            filename |-> NoWord, scale |-> None, out |-> NoWord, label |-> NoWord,
            segments |-> <<0, 1, 1>>, reorder_options |-> << >>]

Init ==
  /\ program \in Programs /\ command \in Commands(program)
  /\ argv = Argv(command) /\ optind = 1
  /\ cli = Default /\ ran = << >> /\ phase = "parse"

-----------------------------------------------------------------------------

atoi(w) == IF w = << >> THEN 0 ELSE w[1]

\* Variant: -j starts again from the default.
SegmentsReplaced(old, w) == [i \in 1 .. 3 |-> IF i <= Len(w) THEN w[i] ELSE <<0, 1, 1>>[i]]

\* The fields given replace the first ones, the others stay.
NewSegments(old, w) ==
  [i \in 1 .. (IF Len(w) > Len(old) THEN Len(w) ELSE Len(old)) |->
     IF i <= Len(w) THEN w[i] ELSE old[i]]

HandleArg(c, o, w) ==
  CASE o \in {"s", "z", "l", "S", "m", "a", "v", "w"} -> [c EXCEPT !.flags = @ \union {o}]
    [] o \in {"k", "n", "r", "i", "t", "d"} -> [c EXCEPT !.number[o] = atoi(w)]
    [] o = "f" -> [c EXCEPT !.filename = w]
    [] o = "g" -> [c EXCEPT !.scale = atoi(w)]
    [] o = "u" -> [c EXCEPT !.scale = atoi(w), !.flags = @ \union {"u"}]
    [] o \in Outputs -> [c EXCEPT !.out = w, !.flags = @ \union {o}]
    [] o \in Labels -> [c EXCEPT !.label = w, !.flags = @ \union {o}]
    [] o = "j" -> [c EXCEPT !.segments = NewSegments(@, w)]
    [] o = "o" -> [c EXCEPT !.reorder_options = Append(@, [algo |-> w[1], params |-> Tail(w)])]

Token == argv[optind]
Reading == phase = "parse" /\ optind <= Len(argv)

\* getopt passes over what is not an option.
SkipWord ==
  /\ Reading /\ Token.opt = ""
  /\ optind' = optind + 1
  /\ UNCHANGED <<program, command, argv, cli, ran, phase>>

Flag ==
  /\ Reading /\ Token.opt \in Alone(program) \ {"h"}
  /\ cli' = HandleArg(cli, Token.opt, << >>)
  /\ optind' = optind + 1
  /\ UNCHANGED <<program, command, argv, ran, phase>>

PrintUsage ==
  /\ Reading /\ Token.opt = "h"
  /\ phase' = "usage"
  /\ UNCHANGED <<program, command, argv, optind, cli, ran>>

\* The next token is the argument, whatever it looks like; stoi throws if it is no number.
Option ==
  /\ Reading /\ Token.opt \in WithArgument(program) /\ optind < Len(argv)
  /\ LET w == argv[optind + 1].word IN
     IF Token.opt \in {"o", "j"} /\ w = << >>
     THEN phase' = "terminated" /\ UNCHANGED <<cli, optind>>
     ELSE /\ cli' = HandleArg(cli, Token.opt, w)
          /\ optind' = optind + 2
          /\ UNCHANGED phase
  /\ UNCHANGED <<program, command, argv, ran>>

\* '?': an option the program does not have, or one whose argument is missing.
Refused ==
  /\ Reading /\ Token.opt # ""
  /\ \/ Token.opt \notin WithArgument(program) \union Alone(program)
     \/ Token.opt \in WithArgument(program) /\ optind = Len(argv)
  /\ optind' = optind + 1
  /\ UNCHANGED <<program, command, argv, cli, ran, phase>>

\* The converter does not look at what ParseArgs returns.
NoInput == cli.filename = NoWord /\ cli.scale = None

ParseArgs ==
  /\ phase = "parse" /\ optind > Len(argv)
  /\ IF NoInput
     THEN cli' = cli /\ phase' = IF program = "converter" THEN "builder" ELSE "no_input"
     ELSE /\ cli' = IF cli.scale # None THEN [cli EXCEPT !.flags = @ \union {"s"}] ELSE cli
          /\ phase' = "builder"
  /\ UNCHANGED <<program, command, argv, optind, ran>>

needs_weights == program = "sssp" \/ "w" \in cli.flags

BuilderBase ==
  /\ phase = "builder"
  /\ phase' = IF "m" \in cli.flags /\ needs_weights THEN "exit_30" ELSE "order"
  /\ UNCHANGED <<program, command, argv, optind, cli, ran>>

-----------------------------------------------------------------------------
(* The loop of MakeGraph over the orders, and the dispatch of              *)
(* GenerateMapping; LoadMappingFromFile ends by naming the algorithms      *)
(* whose numbers it finds in the name of the file.  An unknown number is   *)
(* fatal in each of the three places.                                      *)

ReorderingAlgo ==
  <<"ORIGINAL", "Random", "Sort", "HubSort", "HubCluster", "DBG", "HubSortDBG", "HubClusterDBG",
    "RabbitOrder", "GOrder", "COrder", "RCMOrder", "LeidenOrder", "GraphBrewOrder", "MAP">>

Known(code) == code + 1 \in DOMAIN ReorderingAlgo

printReorderingMethods(codes) == \A k \in DOMAIN codes : Known(codes[k])

\* The order within communities, the second parameter of GraphBrew.
getReorderingAlgo(codes) == Len(codes) > 1 => Known(codes[2])

GenerateMapping ==
  /\ phase = "order" /\ Len(ran) < Len(cli.reorder_options)
  /\ LET o == cli.reorder_options[Len(ran) + 1] IN
     IF \/ ~Known(o.algo)
        \/ o.algo = 13 /\ ~getReorderingAlgo(o.params)
        \/ o.algo = 14 /\ ~printReorderingMethods(o.params)
     THEN phase' = "aborted" /\ UNCHANGED ran
     ELSE ran' = Append(ran, ReorderingAlgo[o.algo + 1]) /\ UNCHANGED phase
  /\ UNCHANGED <<program, command, argv, optind, cli>>

Made ==
  /\ phase = "order" /\ Len(ran) = Len(cli.reorder_options)
  /\ phase' = "made"
  /\ UNCHANGED <<program, command, argv, optind, cli, ran>>

\* converter.cc: the writers write every format asked for, under the one name
\* of graphs that is left, or of labels, with the suffix of the format.
FilesWritten ==
  {[format |-> o, name |-> cli.out] : o \in Outputs \intersect cli.flags}
    \union {[format |-> o, name |-> cli.label] : o \in Labels \intersect cli.flags}

Finished == phase \notin {"parse", "builder", "order"} /\ UNCHANGED vars

Next ==
  \/ SkipWord \/ Flag \/ PrintUsage \/ Option \/ Refused
  \/ ParseArgs \/ BuilderBase \/ GenerateMapping \/ Made \/ Finished

Spec == Init /\ [][Next]_vars

-----------------------------------------------------------------------------
(* What the help and README.md say of a command line: each option of a    *)
(* format has a file of its own, for one.                                  *)

\* The help shows no argument for these.
HelpAlone(p) == (Alone(p) \ {"z", "w"}) \union {"m"}

\* The options of the program, each with the argument its help shows and no other.
AsDocumented ==
  \A k \in DOMAIN command :
    /\ command[k].opt \in WithArgument(program) \union Alone(program)
    /\ command[k].has = (command[k].opt \notin HelpAlone(program))

Given(S) == {k \in DOMAIN command : command[k].opt \in S}

\* The word of the last option of S, or the default.
LastOf(S, default) ==
  IF Given(S) = {} THEN default
  ELSE command[CHOOSE k \in Given(S) : \A l \in Given(S) : l <= k].word

Number(S, default) == LET w == LastOf(S, << >>) IN IF Given(S) = {} THEN default ELSE atoi(w)

\* README.md lists the orders by their numbers.
Named(code) ==
  CASE code = 0 -> "ORIGINAL" [] code = 3 -> "HubSort" [] code = 7 -> "HubClusterDBG"
    [] code = 13 -> "GraphBrewOrder" [] code = 14 -> "MAP"

FilesAsked ==
  {[format |-> o, name |-> LastOf({o}, NoWord)] :
     o \in {p \in Outputs \union Labels : Given({p}) # {}}}

\* The graph is written under one name, and so are the labels.
OneName ==
  \A S \in {Outputs, Labels} : Cardinality({command[k].word : k \in Given(S)}) <= 1

OrdersAsked == SelectSeq(command, LAMBDA c : c.opt = "o")

Meaning ==
  /\ {o \in cli.flags : o # "s"} = {command[k].opt : k \in Given({"z", "l", "S", "m", "a", "v", "w", "u"}
                                                          \union Outputs \union Labels)}
  /\ "s" \in cli.flags <=> Given({"s", "g", "u"}) # {}
  /\ \A o \in DOMAIN cli.number : cli.number[o] = Number({o}, Default.number[o])
  /\ cli.filename = LastOf({"f"}, NoWord)
  /\ cli.scale = Number({"g", "u"}, None)
  /\ FilesWritten = FilesAsked
  /\ \A i \in 1 .. 3 :
       LET long == {k \in Given({"j"}) : Len(command[k].word) >= i}
       IN  cli.segments[i] = IF long = {} THEN Default.segments[i]
                             ELSE command[CHOOSE k \in long : \A l \in long : l <= k].word[i]
  /\ ran = [k \in DOMAIN OrdersAsked |-> Named(OrdersAsked[k].word[1])]

(***************************************************************************)
(* A documented command line gives every setting the value its help line   *)
(* says, whatever stands between: the last value given counts, the orders  *)
(* are layered in the order of their -o, each by the algorithm README.md   *)
(* lists under its number, -j changes the fields it names, and each format *)
(* asked for is written to the file given with it, as long as no other     *)
(* format has a different name: converter.cc keeps only the last one.      *)
(***************************************************************************)
OptionsMeanWhatHelpSays ==
  (phase = "made" /\ AsDocumented /\ Given({"m"}) = {} /\ OneName) => Meaning
=============================================================================
