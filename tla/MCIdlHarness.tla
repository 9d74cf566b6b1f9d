----------------------------- MODULE MCIdlHarness -----------------------------
(* An instance of IdlHarness for TLC: IDLs of two instructions, of which init *)
(* first meets any and then another; the account names are every pair of      *)
(* names of up to three characters that start with a letter.                  *)
EXTENDS IdlHarness

MCLower(c) == CASE c = "A" -> "a" [] c = "B" -> "b" [] OTHER -> c

MCCharacters == {"a", "A", "b", "B", "_", "m"}

MCReserved == {<<"m">>}

NamePool == {<<"a", "B">>, <<"a", "_", "b">>, <<"A", "B">>, <<"a", "b">>}

Ix(names, accountSets, discriminators) ==
  [name : names, accounts : accountSets, discriminator : discriminators]

Idl(name, top, first, second) ==
  [name : {name}, version : {"1"}, address : {"id"}, top_level : top,
   instructions : {<<a, b>> : a \in first, b \in second}]

AllNames ==
  {n \in UNION {[1 .. k -> {"a", "A", "b", "_"}] : k \in 1 .. 3} : n[1] # "_"}

Pairs == {{x, y} : x, y \in AllNames}

\* Every combination of account names; every combination of instruction names.
MCFirst ==
  Idl("p", {TRUE}, Ix({<<"a">>}, Pairs, {8}), Ix({<<"b">>}, {{<<"a">>}, {<<"a", "b">>}}, {8}))
  \cup Idl("p", BOOLEAN,
           Ix(NamePool \cup {<<"m">>}, {{<<"a">>}}, {NoDiscriminator, 8}),
           Ix(NamePool, {{}}, {8}))

MCRebuilt == Idl("q", {TRUE}, Ix({<<"a", "B">>}, {{<<"b">>}}, {8}), Ix({<<"b">>}, {{}}, {8}))

MCFirstIdls == MCFirst \cup {NoIdl}
================================================================================
