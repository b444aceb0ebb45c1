------------------------------- MODULE MCPlans -------------------------------
(***************************************************************************)
(* Instances of LateWrites for TLC in which the environment follows one of *)
(* a few plans: the specs users give to each crypt, and the kinds each of  *)
(* its moves may be of.  A run checks every plan of its configuration.     *)
(***************************************************************************)
EXTENDS LateWrites, MCCryptController

CONSTANT Plans
VARIABLE plan

Script(kinds, specs) == [kinds |-> kinds, specs |-> specs]
Plan(max, kinds, specs) == Script([i \in 1..max |-> kinds], specs)

\* The kind of the move a step makes; "calls" are calls that fail or watches
\* that break.
Moved ==
  CASE crypts' # crypts -> "crypts"
    [] namespaces' # namespaces -> "namespaces"
    [] store' # store -> "store"
    [] secrets' # secrets /\ job' = job /\ namespaces' = namespaces -> "secrets"
    [] synced # {} /\ synced' = {} -> "crash"
    [] OTHER -> "calls"

\* Users create the namespaces their crypts are about.
Subjects ==
  InitNamespaces \cup {k.ns : k \in DOMAIN plan.specs}
    \cup UNION {Matches[p] :
                  p \in UNION {ToSet(s.patterns) : s \in UNION Range(plan.specs)}}

Planned ==
  /\ moves' # moves =>
       moves'.made \in DOMAIN plan.kinds /\ Moved \in plan.kinds[moves'.made]
  /\ namespaces' \subseteq Subjects
  /\ \A k \in Crypts : crypts'[k] # NoCrypt =>
       k \in DOMAIN plan.specs /\ crypts'[k].spec \in plan.specs[k]

PlanInit == HistoryInit /\ plan \in Plans
PlanSpec == PlanInit /\ [][LateNext /\ Planned /\ plan' = plan]_<<historyVars, plan>>
FairPlanSpec == PlanSpec /\ Fairness

Edits == {"crypts", "namespaces", "secrets"}

\* One crypt under every order of edits and crashes, with its spec edited or its
\* home the only namespace; two crypts that want one secret, of one type or two;
\* one crypt whose type is edited.
SafetyPlans ==
  {Plan(4, Edits \cup {"crash"}, CryptA :> {FooInDev}),
   Plan(3, Edits \cup {"crash"}, CryptA :> {FooInDev, FooAnywhere}),
   Plan(4, {"crypts", "secrets", "crash"}, CryptA :> {FooInDev, FooAnywhere}),
   Plan(3, {"crypts", "store", "calls", "crash"},
        CryptA :> {FooAnywhere} @@ CryptB :> {FooAnywhere}),
   Plan(3, {"crypts", "calls"},
        CryptA :> {FooAnywhere} @@ CryptB :> {FooTlsAnywhere}),
   Plan(3, {"crypts", "store"}, CryptA :> {FooAnywhere, FooTlsAnywhere})}
SafetySpecs == {FooInDev, FooAnywhere, FooTlsAnywhere}
SafetyMoves == AllMoves \ {"foreign", "relist"}

\* One crypt and everything that may happen, with its home to write to or with a
\* namespace that comes and goes; two secrets in each of two patterns that
\* overlap, and a fault; two crypts of one namespace, with one secret or two; a
\* crypt whose home and target are both new, in either order; two crypts of one
\* name, one of which has a secret that is deleted.
LivePlans ==
  {Plan(3, {"crypts", "secrets", "store", "crash", "calls"}, CryptA :> {FooAnywhere}),
   Plan(3, Edits \cup {"store", "crash", "calls"}, CryptA :> {FooInDev}),
   Plan(4, {"crypts", "namespaces", "calls"}, CryptA :> {FooInDev}),
   Plan(2, {"crypts", "store", "calls"}, CryptA :> {BothTwice}),
   Plan(3, {"crypts"}, CryptA :> {FooAnywhere} @@ CryptB :> {FooAnywhere}),
   Plan(3, {"crypts", "namespaces"}, CryptA :> {FooInDev} @@ CryptB :> {BarInDev}),
   Plan(3, {"crypts", "namespaces"}, OtherA :> {FooInOps}),
   Script(<<{"namespaces"}, {"crypts"}, {"crypts"}, {"secrets"}>>,
          CryptA :> {FooInDev} @@ OtherA :> {NothingInDev})}
LiveSpecs == {FooInDev, FooInOps, BarInDev, FooAnywhere, BothTwice, NothingInDev}
LiveMoves == AllMoves \cup {"late write"}
=============================================================================
