----------------------------- MODULE MCExtension -----------------------------
(***************************************************************************)
(* Every server gets a greeting that is refused and a state read.  Go and  *)
(* Python get two greetings, and Go an authorization, which it does not    *)
(* know, Python a farewell whose handler throws.  TypeScript gets three    *)
(* authorizations; the handler of one throws.                              *)
(***************************************************************************)
EXTENDS ExtensionServers

CONSTANTS h1, h2, g, x, a, b, c, s

MCRequests == {h1, h2, g, x, a, b, c, s}
MCOp == [r \in MCRequests |->
            CASE r \in {h1, h2, x} -> "SAY_HELLO"
              [] r = g -> "SAY_GOODBYE"
              [] r = s -> "STATE"
              [] OTHER -> "AUTH"]
MCText == [r \in MCRequests |-> IF r \in {a, b, c} THEN NoText ELSE r]
MCThrows == {<<"typescript", a>>, <<"python", g>>}
MCPosted == [v \in Servers |->
                CASE v = "go"     -> {h1, h2, x, s, a}
                  [] v = "python" -> {h1, h2, x, s, g}
                  [] OTHER        -> {a, b, c, x, s}]
MCRefused == {x}
==============================================================================
