------------------------------ MODULE MCEvents ------------------------------
(***************************************************************************)
(* Two topics, one a prefix of the other.  Locally the shorter one and all *)
(* topics have a handler, for the peer only the shorter one: the peer's    *)
(* subscription lets in the longer one, which nobody handles.              *)
(***************************************************************************)
EXTENDS Events, TLC

MCTopics == {<<"a">>, <<"a", "b">>}

MCHandlers == [s \in Sources |-> IF s = "local"
                                 THEN (<<>> :> "U" @@ <<"a">> :> "T")
                                 ELSE (<<"a">> :> "T")]

MCServerKey == [s \in Sources |-> IF s = "local" THEN <<>> ELSE <<"k">>]

MCPeerKeys == {<<>>, <<"public", <<"k">>>>}

MCMaxEvents == [s \in Sources |-> IF s = "local" THEN 1 ELSE 2]

MCMaxTries == [s \in Sources |-> IF s = "local" THEN 1 ELSE 2]
=============================================================================
