------------------------------ MODULE Console ------------------------------
(***************************************************************************)
(* The line editor of console/console.cpp, the command line and the        *)
(* config command of twainet/twainet.cpp, in front of the settings.        *)
(*                                                                         *)
(* A line is a sequence of words, and only the last may be empty: then the *)
(* line ends in a blank.  Of a word all that matters is which other words  *)
(* it begins.  The main loop reads the line while it is not in a command;  *)
(* a remote terminal sends whole commands.                                 *)
(***************************************************************************)
EXTENDS Config, Sequences, SequencesExt

CONSTANTS
  Empty,        \* the empty word
  Begins,       \* pairs of words, the first a proper prefix of the second
  Lines,        \* lines that are typed
  Keys,         \* the keys offered for completion
  ipcinfo, config, set, get, remove, write,  \* commands and subcommands
  loop, reader  \* the main loop and the connector's thread

Word == Value \cup {Empty}

IsLine(l) ==
  /\ l \in Seq(Word)
  /\ \A i \in DOMAIN l : l[i] = Empty => i = Len(l) /\ i > 1

ASSUME WordAssumption ==
  /\ Path \cup {ipcinfo, config, set, get, remove, write} \subseteq Value
  /\ config \notin {ipcinfo, set, get, remove, write}
  /\ set \notin {get, remove, write} /\ remove \notin {get, write} /\ get # write
  /\ Empty \notin Value
  /\ Keys \subseteq Path
  /\ \A l \in Lines : IsLine(l)
  /\ Contexts = {loop, reader} /\ loop # reader

\* Every word begins with the empty one.  setup adds six keys.
ASSUME CompletionAssumption ==
  /\ \A w \in Value : <<Empty, w>> \in Begins
  /\ IsFiniteSet(Keys) /\ \E j, k \in Keys : j # k

VARIABLE line  \* m_command

vars == <<configVars, line>>

TypeOK == ConfigTypeOK /\ IsLine(line)

Init == ConfigInit /\ line = <<>>

Subcommands == {set, get, remove, write}

Starts(u, w) == u = w \/ <<u, w>> \in Begins

\* getSubstrings(line, " ")
Words(l) == IF l # <<>> /\ Last(l) = Empty THEN Front(l) ELSE l

----------------------------------------------------------------------------
(***************************************************************************)
(* A vector keeps what it held behind its end: erase(0) moves the others   *)
(* up and leaves the last one where it was.                                *)
(***************************************************************************)

Parameters(w) ==
  [slots |-> IF Len(w) = 1 THEN w ELSE Append(Tail(w), Last(w)), length |-> Len(w) - 1]

Slot(params, i) == IF i \in DOMAIN params.slots THEN params.slots[i] ELSE Empty

WarnedOfKey(params) ==                   \* variant: nothing said of a missing value
  params.length = 1 /\ Slot(params, 1) \in {set, get, remove}

Warned(params) ==
  \/ params.length = 1 /\ Slot(params, 1) \in {set, get, remove}
  \/ params.length = 2 /\ Slot(params, 1) = set

\* ConfigCommand::doCommand reads its first word even if there is none.
Order(params) ==
  IF Warned(params) THEN <<"none">> ELSE
    CASE Slot(params, 1) = set -> <<"set", Slot(params, 2), Slot(params, 3)>>
      [] Slot(params, 1) = remove -> <<"remove", Slot(params, 2)>>
      [] Slot(params, 1) = write -> <<"write">>
      [] OTHER -> <<"none">>

doCommand(c, params) ==
  LET o == Order(params)
  IN  \/ o[1] = "set" /\ setValue(o[2], o[3])
      \/ o[1] = "remove" /\ removeValue(o[2])
      \/ o[1] = "write" /\ Write(c)
      \/ o[1] = "none" /\ UNCHANGED configVars

DoCommand(c, command, params) ==
  IF command = config THEN doCommand(c, params) ELSE UNCHANGED configVars

----------------------------------------------------------------------------
(***************************************************************************)
(* Completion.  Some answers leave new_word as it was, which Read does not *)
(* initialise.                                                             *)
(***************************************************************************)

ConfigArgs(params, garbage) ==
  CASE params = <<>> \/ (Len(params) = 1 /\ params[1] \notin Subcommands) ->
         [args |-> Subcommands, new |-> params = <<>>]
    [] Len(params) \in {1, 2} /\ params[1] \in {set, get, remove} ->
         [args |-> Keys, new |-> Len(params) = 1]
    [] OTHER -> [args |-> {}, new |-> garbage]

GetNextCommandArgs(params, garbage) ==
  CASE params # <<>> /\ params[1] = config -> ConfigArgs(Tail(params), garbage)
    [] params # <<>> /\ params[1] = ipcinfo -> [args |-> {}, new |-> garbage]
    [] OTHER -> [args |-> IF Len(params) <= 1 THEN {ipcinfo, config} ELSE {},
                 new |-> params = <<>>]

autoCompleteHelper(word, words) == {w \in words : Starts(word, w)}

CompletedBehind(l, garbage) ==           \* variant: the word typed stays
  LET typed == Words(l)
      next == GetNextCommandArgs(typed, garbage)
      params == IF next.new THEN Append(typed, Empty) ELSE typed
      found == autoCompleteHelper(IF params = <<>> THEN Empty ELSE Last(params), next.args)
  IN  IF Cardinality(found) = 1
      THEN typed \o <<CHOOSE w \in found : TRUE, Empty>> ELSE l

Completed(l, garbage) ==
  LET typed == Words(l)
      next == GetNextCommandArgs(typed, garbage)
      params == IF next.new THEN Append(typed, Empty) ELSE typed
      found == autoCompleteHelper(IF params = <<>> THEN Empty ELSE Last(params), next.args)
  IN  IF Cardinality(found) = 1
      THEN Front(params) \o <<CHOOSE w \in found : TRUE, Empty>> ELSE l

----------------------------------------------------------------------------
(***************************************************************************)
(* Console::Read, and the commands of a remote terminal.                   *)
(***************************************************************************)

Listening(c) == opened = Nobody /\ ~Writing(c)

\* Keys are pressed until the line is another one that is typed.
Stem(l) == IF l = <<>> THEN <<>> ELSE Front(l)
Tip(l) == IF l = <<>> THEN Empty ELSE Last(l)

Type ==
  /\ Listening(loop)
  /\ \E w \in Value : <<Tip(line), w>> \in Begins /\ line' = Append(Stem(line), w)
  /\ line' \in Lines
  /\ UNCHANGED configVars

Space ==
  /\ Listening(loop) /\ Tip(line) # Empty
  /\ line' = Append(line, Empty)
  /\ line' \in Lines
  /\ UNCHANGED configVars

Backspace ==
  /\ Listening(loop) /\ line # <<>>
  /\ \/ \E w \in Value : <<w, Tip(line)>> \in Begins /\ line' = Append(Stem(line), w)
     \/ Tip(line) # Empty /\ line' = IF Len(line) = 1 THEN <<>> ELSE Append(Stem(line), Empty)
     \/ Tip(line) = Empty /\ line' = Stem(line)
  /\ line' \in Lines
  /\ UNCHANGED configVars

Escape ==
  /\ Listening(loop)
  /\ line' = <<>>
  /\ UNCHANGED configVars

Tab ==
  /\ Listening(loop)
  /\ \E garbage \in BOOLEAN : line' = Completed(line, garbage)
  /\ UNCHANGED configVars

Enter ==
  /\ Listening(loop)
  /\ line' = <<>>
  /\ IF Words(line) = <<>> THEN UNCHANGED configVars
     ELSE DoCommand(loop, Words(line)[1], Parameters(Words(line)))

\* The arguments of a message fill a vector of their own.
onMessage(l) ==
  /\ Listening(reader)
  /\ l # <<>>
  /\ DoCommand(reader, l[1], [slots |-> Tail(l), length |-> Len(l) - 1])
  /\ UNCHANGED line

Interrupted == Reset /\ line' = <<>>

Next ==
  \/ Type \/ Space \/ Backspace \/ Escape \/ Tab \/ Enter
  \/ \E l \in Lines : onMessage(Words(l))
  \/ \E c \in Contexts : (Opens(c) \/ Stores(c) \/ GivesUp(c)) /\ UNCHANGED line
  \/ Interrupted

Spec == Init /\ [][Next]_vars

----------------------------------------------------------------------------
(***************************************************************************)
(* Properties.                                                             *)
(***************************************************************************)

\* What the words say.
Meant(w) ==
  CASE Len(w) >= 4 /\ w[2] = set -> <<"set", w[3], w[4]>>
    [] Len(w) >= 3 /\ w[2] = remove -> <<"remove", w[3]>>
    [] Len(w) >= 2 /\ w[2] = write -> <<"write">>
    [] OTHER -> <<"none">>

\* No word a vector keeps behind its end, and none it never held, becomes a
\* command, a key or a value, whatever config line is entered.
OnlyWhatWasTyped ==
  Words(line) # <<>> /\ Words(line)[1] = config =>
    Order(Parameters(Words(line))) = Meant(Words(line))

\* Completion keeps all words and makes the last one longer, as there are several
\* commands, subcommands and keys to begin with; the flag that is not initialised
\* makes no difference.
TabExtends ==
  LET old == Words(line)
      new == Words(Completed(line, TRUE))
  IN  /\ Completed(line, FALSE) = Completed(line, TRUE)
      /\ \/ new = old
         \/ old # <<>> /\ \E w \in Value : new = Append(Front(old), w) /\ Starts(Last(old), w)
=============================================================================
