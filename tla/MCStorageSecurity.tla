------------------------- MODULE MCStorageSecurity -------------------------
(* Two operator keys and the local key, and the ways to configure them. *)
EXTENDS StorageSecurity

CONSTANTS k1, k2, l1, none

MCKeys == {k1, k2}

\* Every slot of operator keys, and a copy of the local key in either place.
MCSlots ==
    [active : {k1, k2, none}, previous : {k1, k2, none}]
        \cup {[active |-> k2, previous |-> l1], [active |-> l1, previous |-> k2],
              [active |-> l1, previous |-> none]}

\* Environment and file slots differ only in where the key text is read, so
\* the file source is given the rotation slots only.
MCConfigs ==
    [source : {"environment"}, slot : MCSlots]
        \cup [source : {"file"}, slot : {[active |-> k2, previous |-> k1]}]
        \cup [source : {"local"}, slot : {[active |-> none, previous |-> none]}]
        \cup [source : {"unset"}, slot : {[active |-> none, previous |-> none],
                                          [active |-> k1, previous |-> none]}]
=============================================================================
