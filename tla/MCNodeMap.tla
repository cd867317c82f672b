----------------------------- MODULE MCNodeMap -----------------------------
EXTENDS NodeMap

(* Config lists of one or two node ids below MaxNode. *)
MCAnyConfigs ==
  {<<>>} \cup {<<a>> : a \in Keys} \cup {<<a, b>> : a, b \in Keys}

(* The same lists, in strictly increasing order. *)
MCSortedConfigs == {c \in MCAnyConfigs : \A j \in 1 .. Len(c) - 1 : c[j] < c[j + 1]}

(* The default preset only. *)
MCDefaultPreset == {<<>>}

(* A read past the end that returns no node id. *)
MCNoNodeRead == {-1}

(* A read past the end that returns any node id, or none. *)
MCAnyRead == {-1} \cup Keys
=============================================================================
