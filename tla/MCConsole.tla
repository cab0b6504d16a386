----------------------------- MODULE MCConsole -----------------------------
(***************************************************************************)
(* A key, the object above it and a key beside that; and two texts.  The   *)
(* lines are those that lead to a config command, and their beginnings.    *)
(***************************************************************************)
EXTENDS Console

CONSTANTS c, s, w, wifi, ssid, name, t1, t2

MCPath == {wifi, ssid, name}
MCAbove == {<<wifi, ssid>>}
MCValue == {c, s, w, wifi, ssid, name, t1, t2, ipcinfo, config, set, get, remove, write}
MCContexts == {loop, reader}
MCKeys == {ssid, name}

MCBegins ==
  {<<Empty, v>> : v \in MCValue}
    \cup {<<c, config>>, <<s, set>>, <<w, wifi>>, <<w, ssid>>, <<wifi, ssid>>, <<w, write>>}

Second == {s, w, set, get, remove, write}
Third == {w, wifi, ssid}
MCLines ==
  {<<>>, <<c>>, <<config>>, <<config, Empty>>}
    \cup {<<config, x>> : x \in Second}
    \cup {<<config, x, Empty>> : x \in Second \ {s, w}}
    \cup {<<config, x, k>> : x \in {set, remove}, k \in Third}
    \cup {<<config, set, k, Empty>> : k \in {wifi, ssid}}
    \cup {<<config, set, k, v>> : k \in {wifi, ssid}, v \in {t1, t2}}

Symmetry == Permutations({t1, t2})
=============================================================================
