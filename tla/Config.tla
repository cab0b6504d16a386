------------------------------- MODULE Config -------------------------------
(***************************************************************************)
(* utils/twn_config.cpp: the settings, a JSON object in memory, and the    *)
(* file it is written to and read from at boot.                            *)
(*                                                                         *)
(* Two contexts run commands: the main loop, and the connector's thread    *)
(* for a remote terminal.  A command runs to its end except for what it    *)
(* logs: the log goes to the remote terminal, too, and waits until it is   *)
(* sent.  Only Write does more after that.  The board may be reset at any  *)
(* time, between opening the file and closing it as well.                  *)
(*                                                                         *)
(* A path is a dotted name; an object holds the keys below its own path.   *)
(* ArduinoJson and SPIFFS are external: the buffer of 500 bytes gives      *)
(* nothing back before a reset, so any set may find too little left, and   *)
(* any file that is read, too; a write may be short.                       *)
(***************************************************************************)
EXTENDS Naturals, FiniteSets, Functions

CONSTANTS
  Path,       \* dotted names
  Above,      \* pairs of paths, the first a proper prefix of the second
  Value,      \* texts that are set
  Contexts,   \* those who run commands
  Object,     \* what a path holds that has keys below it
  Blank,      \* what it holds if there was no memory for its value
  NoText,     \* no answer
  Unknown,    \* history: some answer, no matter which
  Cut         \* content of a file that was not written to its end

ASSUME AboveAssumption ==
  /\ Above \subseteq Path \X Path
  /\ \A p \in Path : <<p, p>> \notin Above
  /\ \A p, q, r \in Path : <<p, q>> \in Above /\ <<q, r>> \in Above => <<p, r>> \in Above

Trees == UNION {[D -> Value \cup {Object, Blank}] : D \in SUBSET Path}
EmptyTree == [p \in {} |-> Object]

ASSUME MarkAssumption ==
  /\ {Object, Blank, NoText, Unknown} \cap Value = {}
  /\ {NoText, Cut} \cap Trees = {}
  /\ NoText \notin Contexts
  /\ Object # Blank /\ NoText # Unknown /\ NoText # Cut

VARIABLES
  root,      \* whether m_root is an object or JsonObject::invalid()
  tree,      \* what it holds
  file,      \* content of /config.txt, NoText if there is no file
  data,      \* what each context is about to write, NoText if it does not
  opened,    \* the context that has opened the file
  told,      \* history: the answers the settings should give
  newest,    \* history: told when the newest Write began
  spoiled    \* history: that Write met another, a reset, or a failure

memory == <<root, tree, told>>
flash == <<file, data, opened, newest, spoiled>>
configVars == <<memory, flash>>

Nobody == NoText

Below(p) == {q \in Path : <<p, q>> \in Above}
Over(p) == {q \in Path : <<q, p>> \in Above}

ConfigTypeOK ==
  /\ root \in {"object", "invalid"}
  /\ tree \in Trees
  /\ file \in Trees \cup {Cut, NoText}
  /\ data \in [Contexts -> Trees \cup {NoText}]
  /\ opened \in Contexts \cup {Nobody}
  /\ told \in [Path -> Value \cup {NoText, Unknown}]
  /\ newest \in [Path -> Value \cup {NoText, Unknown}]
  /\ spoiled \in BOOLEAN

\* get of something that is no text answers as if it were absent.
Answer(t, p) == IF p \in DOMAIN t /\ t[p] \in Value THEN t[p] ELSE NoText
Answers(t) == [p \in Path |-> Answer(t, p)]

ConfigInit ==
  /\ root = "object" /\ tree = EmptyTree
  /\ file = NoText
  /\ data = [c \in Contexts |-> NoText] /\ opened = Nobody
  /\ told = Answers(EmptyTree) /\ newest = Answers(EmptyTree) /\ spoiled = FALSE

----------------------------------------------------------------------------
(***************************************************************************)
(* setValue, getValue, removeValue.                                        *)
(***************************************************************************)

\* The objects in S are there, made if they were not.
WithObjects(t, S) == [q \in DOMAIN t \cup S |-> IF q \in DOMAIN t THEN t[q] ELSE Object]

Put(t, p, x) ==
  LET u == WithObjects(t, Over(p))
  IN  [q \in (DOMAIN u \ Below(p)) \cup {p} |-> IF q = p THEN x ELSE u[q]]

WithoutKey(t, p) == Restrict(t, DOMAIN t \ {p})   \* variant: what was below stays

Without(t, p) == Restrict(t, DOMAIN t \ ({p} \cup Below(p)))

\* A key below one that holds a text leads to the invalid object.
Reachable(p) ==
  /\ root = "object"
  /\ \A q \in Over(p) \cap DOMAIN tree : tree[q] = Object

Told(p, x) ==
  told' = [q \in Path |-> IF q = p THEN x ELSE IF q \in Below(p) THEN NoText ELSE told[q]]

SetSucceeds(p, v) ==
  /\ tree' = Put(tree, p, v)
  /\ Told(p, v)

\* No memory for one of the objects on the way, for the key or for its value.
SetFindsNoMemory(p) ==
  /\ \/ \E S \in SUBSET Over(p) :
          (\A q \in S : Over(q) \subseteq S) /\ tree' = WithObjects(tree, S)
     \/ p \notin DOMAIN tree /\ tree' = Put(tree, p, Blank)
  /\ told' = [told EXCEPT ![p] = Unknown]

setValue(p, v) ==
  /\ IF p \in Path /\ Reachable(p)
     THEN SetSucceeds(p, v) \/ SetFindsNoMemory(p)
     ELSE UNCHANGED <<tree, told>>
  /\ UNCHANGED <<root, flash>>

removeValue(p) ==
  /\ IF p \in Path /\ Reachable(p)
     THEN tree' = Without(tree, p) /\ Told(p, NoText)
     ELSE UNCHANGED <<tree, told>>
  /\ UNCHANGED <<root, flash>>

----------------------------------------------------------------------------
(***************************************************************************)
(* Write: the text is made and logged, then the file opened, written and   *)
(* closed.  Nobody else runs between open and close.                       *)
(***************************************************************************)

Writing(c) == data[c] # NoText

Write(c) ==
  /\ data' = [data EXCEPT ![c] = tree]
  /\ newest' = told
  /\ spoiled' = \E d \in Contexts : Writing(d)
  /\ UNCHANGED <<memory, file, opened>>

OpenAppends == file                      \* variant: the file opened to append

OpenTruncates == Cut

Opens(c) ==
  /\ Writing(c) /\ opened = Nobody
  /\ opened' = c
  /\ file' = OpenTruncates
  /\ UNCHANGED <<memory, data, newest, spoiled>>

\* An object behind another is not read.
Stores(c) ==
  /\ opened = c
  /\ opened' = Nobody
  /\ data' = [data EXCEPT ![c] = NoText]
  /\ \/ file' = (IF file = Cut THEN data[c] ELSE file) /\ UNCHANGED spoiled
     \/ UNCHANGED file /\ spoiled' = TRUE
  /\ UNCHANGED <<memory, newest>>

\* The file does not open; or the thread is removed while it waits for its log to
\* be sent.
GivesUp(c) ==
  /\ Writing(c) /\ opened = Nobody
  /\ data' = [data EXCEPT ![c] = NoText]
  /\ spoiled' = TRUE
  /\ UNCHANGED <<memory, file, opened, newest>>

\* A reset, and what setup reads.
Read ==
  /\ \/ file = NoText /\ root' = "object" /\ tree' = EmptyTree
     \/ file \notin {NoText, Cut} /\ root' = "object" /\ tree' = file
     \/ file # NoText /\ root' = "invalid" /\ tree' = EmptyTree
  /\ told' = Answers(tree')

Reset ==
  /\ Read
  /\ data' = [c \in Contexts |-> NoText] /\ opened' = Nobody
  /\ spoiled' = (spoiled \/ \E c \in Contexts : Writing(c))
  /\ UNCHANGED <<file, newest>>

----------------------------------------------------------------------------
(***************************************************************************)
(* Properties.                                                             *)
(***************************************************************************)

IsNested(t) == \A p \in DOMAIN t : \A q \in Over(p) : q \in DOMAIN t /\ t[q] = Object

\* Whatever is set below or above what, by whom, with memory or without, before
\* and after a reset: a path has keys below it only if it is an object.
Nested ==
  /\ IsNested(tree)
  /\ file \notin {NoText, Cut} => IsNested(file)
  /\ \A c \in Contexts : Writing(c) => IsNested(data[c])

\* A key answers what it was told last, and is silent if it was removed, or if
\* an object above it was removed or given a text, unless memory was short.
AsTold == \A p \in Path : told[p] # Unknown => Answer(tree, p) = told[p]

\* The file answers what the settings answered when the newest Write began, unless
\* that Write was interrupted, met another one, or failed.  After a reset the settings
\* do so, too, if Read finds the memory for it; they answer nothing otherwise.
Survives ==
  (\A c \in Contexts : ~Writing(c)) /\ ~spoiled =>
    /\ file # Cut
    /\ \A p \in Path :
         newest[p] # Unknown =>
           newest[p] = IF file = NoText THEN NoText ELSE Answer(file, p)
=============================================================================
