--------------------------- MODULE MCKeyDerivation ---------------------------
(* Requests of every built-in read type, with each field the derivation   *)
(* reads present or absent over two one-letter strings and two numbers of *)
(* one and two digits.                                                     *)
EXTENDS KeyDerivation

Opt(S) == S \cup {None}

A == <<"a">>
B == <<"b">>

MCStrs == {A, B}

MCNums == {7, 12}

Blank(t) ==
  [type |-> t, raw |-> None, enc |-> None, hash |-> None, signature_type |-> None,
   ref |-> None, tag |-> None, name |-> None, sver |-> None, revocRegDefId |-> None,
   auth_type |-> None, auth_action |-> None, field |-> None, new_value |-> None,
   old_value |-> None, from |-> None, to |-> None, version |-> None, digest |-> None,
   timestamp |-> None, data_no |-> None, dest |-> None, origin |-> None, id |-> None]

MCAllTypes ==
  {"GET_NYM", "GET_ATTR", "GET_CRED_DEF", "GET_SCHEMA", "GET_REVOC_REG_DEF",
   "GET_REVOC_REG", "GET_REVOC_REG_DELTA", "GET_AUTH_RULE", "GET_TXN_AUTHR_AGRMT",
   "GET_TXN_AUTHR_AGRMT_AML", "GET_TXN", "GET_VALIDATOR_INFO"}

MCPastTypes ==
  {"GET_REVOC_REG", "GET_REVOC_REG_DELTA", "GET_TXN_AUTHR_AGRMT",
   "GET_TXN_AUTHR_AGRMT_AML", "GET_TXN"}

MCAllRequests ==
  UNION {
    { [Blank("GET_NYM") EXCEPT !.dest = d, !.origin = o] : d, o \in Opt({A}) },
    { [Blank("GET_ATTR") EXCEPT !.dest = d, !.origin = o, !.raw = x, !.enc = y, !.hash = z] :
        d, o \in Opt({A}), x, y, z \in Opt(MCStrs) },
    { [Blank("GET_CRED_DEF") EXCEPT !.dest = d, !.signature_type = st, !.ref = n, !.tag = g] :
        d \in Opt({A}), st \in Opt({B}), n \in Opt(MCNums), g \in Opt({B}) },
    { [Blank("GET_SCHEMA") EXCEPT !.dest = d, !.name = x, !.sver = y] :
        d \in Opt({A}), x, y \in Opt(MCStrs) },
    { [Blank("GET_REVOC_REG_DEF") EXCEPT !.id = x] : x \in Opt(MCStrs) },
    { [Blank("GET_REVOC_REG") EXCEPT !.revocRegDefId = x, !.timestamp = n] :
        x \in Opt({A}), n \in Opt(MCNums) },
    { [Blank("GET_REVOC_REG_DELTA") EXCEPT !.revocRegDefId = x, !.from = f, !.to = n] :
        x \in Opt({A}), f, n \in Opt(MCNums) },
    { [Blank("GET_AUTH_RULE") EXCEPT !.auth_type = x, !.auth_action = y, !.field = z,
                                     !.old_value = o, !.new_value = w] :
        x, z \in Opt({A}), y \in Opt({<<"A", "D", "D">>, <<"E", "D", "I", "T">>}),
        o, w \in Opt({B}) },
    { [Blank("GET_TXN_AUTHR_AGRMT") EXCEPT !.version = x, !.digest = y, !.timestamp = n] :
        x, y \in Opt({A}), n \in Opt(MCNums) },
    { [Blank("GET_TXN_AUTHR_AGRMT_AML") EXCEPT !.version = x, !.timestamp = n] :
        x \in Opt(MCStrs), n \in Opt(MCNums) },
    { [Blank("GET_TXN") EXCEPT !.data_no = n] : n \in Opt(MCNums) },
    { Blank("GET_VALIDATOR_INFO") } }

(* The requests whose entity the specification names by dest alone, and   *)
(* no GET_REVOC_REG, whose marker the specification gives differently.    *)
MCRequests ==
  { r \in MCAllRequests : r.origin = None /\ r.type # "GET_REVOC_REG" }

=============================================================================
