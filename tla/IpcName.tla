------------------------------ MODULE IpcName ------------------------------
(***************************************************************************)
(* twainet/ipc_object_name.cpp: names of modules and their dotted form.    *)
(*                                                                         *)
(* A string is the sequence of its labels, the pieces between the dots, so *)
(* the empty string is <<Empty>> and a string with a dot has two labels.   *)
(***************************************************************************)
EXTENDS Naturals, Sequences

CONSTANTS
  Label,  \* pieces of text without a dot
  Empty   \* the piece without characters

ASSUME EmptyAssumption == Empty \in Label

EmptyString == <<Empty>>

Name(parts) == [module : parts, host : parts, conn : parts]

\* operator ==, with a name and with an Ipc__IPCName.
SameName(m, n) == m.module = n.module /\ m.host = n.host /\ m.conn = n.conn

\* Joining with a dot leaves an empty part out, the first one excepted.
Joined(string, part) == IF part = EmptyString THEN string ELSE string \o part

GetModuleNameString(n) == Joined(Joined(n.module, n.host), n.conn)

\* The first three labels are the parts, whatever the string was made of.
LabelAt(string, k) == IF k <= Len(string) THEN <<string[k]>> ELSE EmptyString

GetIPCName(string) ==
  [module |-> LabelAt(string, 1), host |-> LabelAt(string, 2), conn |-> LabelAt(string, 3)]

\* Names that survive the dotted form: parts without dots, and no connection id
\* without a host.
Dotless == {<<l>> : l \in Label}

Canonical(n) == n \in Name(Dotless) /\ (n.host = EmptyString => n.conn = EmptyString)
=============================================================================
