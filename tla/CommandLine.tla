---------------------------- MODULE CommandLine ----------------------------
(***************************************************************************)
(* dc-tool's command line: getopt as dc-tool.c defines it for systems that *)
(* have none, and the loop of main that calls it.                          *)
(*                                                                         *)
(* A word of the command line is a sequence of characters; an argument, a  *)
(* name or a number, counts as one character, wherever it stands.          *)
(***************************************************************************)
EXTENDS Integers, Sequences
LOCAL INSTANCE SequencesExt

CONSTANTS Numbers,      \* the arguments that strtoul understands, with their values
          DefaultSpeed  \* DEFAULT_SPEED, chosen when dc-tool is compiled

Dash == "-"
WithArgument == {"x", "u", "d", "a", "s", "t", "b", "c", "i"}
Alone == {"n", "p", "q", "h", "e", "E", "g"}

Strtoul(arg) == IF arg \in DOMAIN Numbers THEN Numbers[arg] ELSE 0
-----------------------------------------------------------------------------
(* What getopt keeps between calls: the word it is at, and what is left of *)
(* that word.  A call gives a letter and its argument, "?" for a letter    *)
(* that is no option or lacks its argument, or "end".                      *)
Scan(ind, place, opt, arg) == [ind |-> ind, place |-> place, opt |-> opt, arg |-> arg]

(* The word is used up: the next one is next.                              *)
AfterAny(ind, rest) == ind + 1      \* mutant: even when letters of it are left
AfterNone(ind, rest) == ind             \* mutant: the next word is never taken
After(ind, rest) == IF rest = <<>> THEN ind + 1 ELSE ind

Letter(argv, ind, place) ==
    LET opt == Head(place)
        rest == Tail(place)
    IN
    IF opt \notin WithArgument \cup Alone
    THEN IF opt = Dash THEN Scan(ind, rest, "end", "")
         ELSE Scan(After(ind, rest), rest, "?", "")
    ELSE IF opt \in Alone THEN Scan(After(ind, rest), rest, opt, "")
    ELSE IF rest # <<>> THEN Scan(ind + 1, <<>>, opt, Head(rest))
    ELSE IF Len(argv) < ind + 1 THEN Scan(ind + 1, <<>>, "?", "")
    ELSE Scan(ind + 2, <<>>, opt, Head(argv[ind + 1]))

Getopt(argv, s) ==
    IF s.place # <<>> THEN Letter(argv, s.ind, s.place)
    ELSE IF s.ind > Len(argv) \/ Head(argv[s.ind]) # Dash THEN Scan(s.ind, <<>>, "end", "")
    ELSE LET word == argv[s.ind] IN
         IF Len(word) = 1 THEN Letter(argv, s.ind, word)
         ELSE IF word[2] = Dash THEN Scan(s.ind + 1, <<>>, "end", "")
         ELSE Letter(argv, s.ind, Tail(word))
-----------------------------------------------------------------------------
(* main's variables, as far as they decide what it does.  (1 stands for    *)
(* 0x8c010000.)                                                            *)
Defaults == [command |-> "none", filename |-> "", size |-> 0, speed |-> DefaultSpeed,
             address |-> 1, console |-> TRUE, dumbterm |-> FALSE, quiet |-> FALSE,
             cdfs_redir |-> FALSE, speedhack |-> FALSE, use_extclk |-> FALSE,
             gdb |-> FALSE, ended |-> FALSE]

(* A second one of -x, -u and -d, and -h, end dc-tool; what getopt does    *)
(* not know is passed over.                                                *)
Option(vars, opt, arg) ==
    CASE opt \in {"x", "u", "d"} ->
           IF vars.command # "none" THEN [vars EXCEPT !.ended = TRUE]
           ELSE [vars EXCEPT !.command = opt, !.filename = arg]
      [] opt = "i" -> [vars EXCEPT !.cdfs_redir = TRUE]
      [] opt = "a" -> [vars EXCEPT !.address = Strtoul(arg)]
      [] opt = "s" -> [vars EXCEPT !.size = Strtoul(arg)]
      [] opt = "b" -> [vars EXCEPT !.speed = Strtoul(arg)]
      [] opt = "n" -> [vars EXCEPT !.console = FALSE]
      [] opt = "p" -> [vars EXCEPT !.console = FALSE, !.dumbterm = TRUE]
      [] opt = "q" -> [vars EXCEPT !.quiet = TRUE]
      [] opt = "h" -> [vars EXCEPT !.ended = TRUE]
      [] opt = "e" -> [vars EXCEPT !.speedhack = TRUE]
      [] opt = "E" -> [vars EXCEPT !.use_extclk = TRUE]
      [] opt = "g" -> [vars EXCEPT !.gdb = TRUE]
      [] OTHER -> vars

(* One turn of main's loop; after the last one nothing changes.            *)
Turn(argv, state) ==
    LET s == Getopt(argv, state.scan)
        vars == Option(state.vars, s.opt, s.arg)
    IN
    IF state.over THEN state
    ELSE [scan |-> s, vars |-> vars, over |-> s.opt = "end" \/ vars.ended]

Unread == [scan |-> Scan(1, <<>>, "", ""), vars |-> Defaults, over |-> FALSE]

(* There are no more turns than characters, and one for the end.           *)
Turns(argv) == Len(FlattenSeq(argv)) + 1
Options(argv) ==
    IF argv = <<>> THEN [Defaults EXCEPT !.ended = TRUE]
    ELSE FoldLeft(LAMBDA state, turn : Turn(argv, state), Unread,
                  [turn \in 1..Turns(argv) |-> turn]).vars
-----------------------------------------------------------------------------
(* What the user wants is a sequence of intents, a letter and an argument  *)
(* each.  There are several ways to write each of them: in words of their  *)
(* own, with the argument joined to the letter, or joined to letters       *)
(* without an argument in the word before.                                 *)
Spelled(intent, way) ==
    IF intent.letter \in Alone THEN <<<<Dash, intent.letter>>>>
    ELSE IF way = "own" THEN <<<<Dash, intent.letter>>, <<intent.arg>>>>
    ELSE <<<<Dash, intent.letter, intent.arg>>>>
Joins(words, way) == way = "joined" /\ words # <<>> /\ Last(Last(words)) \in Alone
Write(words, intent, way) ==
    LET spelled == Spelled(intent, way)
    IN  IF Joins(words, way)
        THEN Front(words) \o <<Last(words) \o Tail(Head(spelled))>> \o Tail(spelled)
        ELSE words \o spelled
Written(intents, ways) ==
    FoldLeft(LAMBDA words, i : Write(words, intents[i], ways[i]), <<>>,
             [i \in 1..Len(intents) |-> i])

(* What it means, whichever way it is written: up to the first intent that *)
(* ends dc-tool, each setting is as the last one that is about it says.    *)
Ends(intents, i) ==
    \/ intents[i].letter = "h"
    \/ /\ intents[i].letter \in {"x", "u", "d"}
       /\ \E j \in 1 .. i - 1 : intents[j].letter \in {"x", "u", "d"}
InForce(intents) ==
    {i \in DOMAIN intents : \A j \in 1 .. i - 1 : ~Ends(intents, j)}
About(intents, letters) == {i \in InForce(intents) : intents[i].letter \in letters}
LastOf(intents, letter, default) ==
    LET at == About(intents, {letter})
    IN  IF at = {} THEN default
        ELSE Strtoul(intents[CHOOSE i \in at : \A j \in at : j <= i].arg)
Meant(intents) ==
    LET commands == About(intents, {"x", "u", "d"})
        first == CHOOSE i \in commands : \A j \in commands : i <= j
    IN  [command |-> IF commands = {} THEN "none" ELSE intents[first].letter,
         filename |-> IF commands = {} THEN "" ELSE intents[first].arg,
         size |-> LastOf(intents, "s", 0), speed |-> LastOf(intents, "b", DefaultSpeed),
         address |-> LastOf(intents, "a", 1),
         console |-> About(intents, {"n", "p"}) = {},
         dumbterm |-> About(intents, {"p"}) # {}, quiet |-> About(intents, {"q"}) # {},
         cdfs_redir |-> About(intents, {"i"}) # {}, speedhack |-> About(intents, {"e"}) # {},
         use_extclk |-> About(intents, {"E"}) # {}, gdb |-> About(intents, {"g"}) # {},
         ended |-> intents = <<>> \/ \E i \in InForce(intents) : Ends(intents, i)]
=============================================================================
