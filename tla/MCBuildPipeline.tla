--------------------------- MODULE MCBuildPipeline ---------------------------
(* An instance of BuildPipeline for TLC: contents with repeated, empty and   *)
(* blocked texts, and one that is too large to read.  File 2 has no suffix,  *)
(* so its media type is sniffed from its bytes, and only plain has a parser. *)
EXTENDS BuildPipeline

CONSTANTS plain, secret, huge, hello, bye, pii

MCContents == {plain, secret, huge}

MCParseable == {<<1, plain>>, <<1, secret>>, <<2, plain>>}

MCParseOf ==
  [c \in MCContents |->
     CASE c = plain  -> [status |-> "success", document |-> <<hello, Blank, hello>>]
       [] c = secret -> [status |-> "success", document |-> <<pii, bye>>]
       [] c = huge   -> Fail]
=============================================================================
