---------------------------- MODULE MCWorkspace ----------------------------
(* Workspace with archives that overlap in parts, cabs and blocks.            *)
EXTENDS Workspace

\* A part whose cabs have these sizes, with items of its own.
MCPart(format, id, sizes) ==
  LET cabs == [c \in DOMAIN sizes |->
                 [meta |-> <<id, "meta", c>>, data |-> <<id, "data", c>>, size |-> sizes[c]]]
  IN  [format |-> format, hdr |-> <<id, "hdr">>, cabs |-> cabs,
       keys |-> IF HasKeys(format) THEN [b \in 1 .. BlockCount(cabs) |-> <<id, "key", b>>]
                ELSE <<>>]

\* Two parts; one part with a cab less and a block more; three cabs; another format.
MCSources ==
  { << MCPart("mhy0", "a1", <<1, 1>>), MCPart("mhy0", "a2", <<2>>) >>,
    << MCPart("mhy0", "b1", <<5>>) >>,
    << MCPart("mhy0", "c1", <<1, 1, 3>>) >>,
    << MCPart("encr", "d1", <<3, 2>>) >> }

MCItems ==
  {<<id, "hdr">> : id \in {"a1", "a2", "b1", "c1", "d1"}}
    \cup {<<id, tag, k>> : id \in {"a1", "a2", "b1", "c1", "d1"},
                           tag \in {"meta", "data", "key"}, k \in 1 .. 5}
=============================================================================
