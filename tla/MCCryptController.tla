------------------------- MODULE MCCryptController --------------------------
(***************************************************************************)
(* Instances of CryptController for TLC.                                   *)
(***************************************************************************)
EXTENDS CryptController

WorkerSymmetry == Permutations(Workers)

CONSTANTS home, dev, ops,   \* namespaces
          a, b,             \* crypt names
          foo, bar,         \* secret names
          kfoo, kbar,       \* store keys
          tls               \* a secret type

MCInformers == {"crypts", "namespaces", "secrets"}

CryptA == [ns |-> home, name |-> a]
CryptB == [ns |-> home, name |-> b]
OtherA == [ns |-> dev, name |-> a]

Foo == [name |-> foo, key |-> kfoo, type |-> Unset]
Bar == [name |-> bar, key |-> kbar, type |-> Opaque]
TlsFoo == [name |-> foo, key |-> kfoo, type |-> tls]

\* Patterns: "dev" and "ops" match these, "any" matches home and dev.
MCPatterns == {"dev", "ops", "any"}
MCMatches == ("dev" :> {dev} @@ "ops" :> {ops} \cap Namespaces @@ "any" :> {home, dev})

JustA == {CryptA}
AandB == {CryptA, CryptB}
AllThree == {CryptA, CryptB, OtherA}

FooInOps == [secrets |-> <<Foo>>, patterns |-> <<"ops">>]
FooInDev == [secrets |-> <<Foo>>, patterns |-> <<"dev">>]
NothingInDev == [secrets |-> <<>>, patterns |-> <<"dev">>]
BarInDev == [secrets |-> <<Bar>>, patterns |-> <<"dev">>]
FooAnywhere == [secrets |-> <<Foo>>, patterns |-> <<"any">>]
FooTlsAnywhere == [secrets |-> <<TlsFoo>>, patterns |-> <<"any">>]

\* Two secrets, and two patterns that both match dev.
BothTwice == [secrets |-> <<Foo, Bar>>, patterns |-> <<"dev", "any">>]

OneSpec == {FooInDev}
OpaqueOrTls == {FooInDev, FooTlsAnywhere}

EditMoves == {"crypt", "respec", "uncrypt", "namespace", "unnamespace",
              "unsecret", "crash"}
FailMoves == {"crypt", "store", "unreadable", "store fails", "write fails"}
TypeMoves == {"crypt", "respec", "store"}
AllMoves == EditMoves \cup {"relist", "foreign", "store", "unreadable", "store fails",
                            "write fails", "list fails"}
=============================================================================
