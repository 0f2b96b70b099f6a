--------------------------- MODULE MCGcoapClient ---------------------------
EXTENDS GcoapClient

(* The list of gcoap_test/main.c; only .well-known/core needs several blocks, and   *)
(* one path does not fit _last_req_path.                                             *)
AllPaths    == {"", "core", "board", "sha256", "long"}
AllBlocks   == [p \in AllPaths |-> IF p \in {"core", "long"} THEN 3 ELSE 1]
MainLoop    == <<"core", "board", "sha256">>
LongTexts   == {[uri |-> u, path |-> "long"] : u \in BOOLEAN}

Command(c, p) == [cmd |-> c, path |-> p]

Typed == {Command("proxy set", ""), Command("proxy unset", "")}
           \cup {Command("request", p) : p \in {"", "core", "long"}}
=============================================================================
